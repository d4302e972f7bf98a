# ContextPatch in TLA+

ContextPatch lets an AI client read, edit and version a Git repository through guarded operations. A
server process speaks MCP over stdin and stdout; a command-line program offers the same edits. This
directory holds TLA+ models of the parts whose correctness depends on interleavings, failures, crashes or
exact arithmetic on data, TLC configurations that check them on small instances, and TLAPS proofs of
most of the safety properties for every instance.

Paths below are relative to `src/crates/`.

## 1. The system and its parts

| Component | Source | State it keeps | Operations | Hard behaviour | Correct when |
|---|---|---|---|---|---|
| Guarded file edits | `core/src/fs/guarded_file.rs`, `fs/mutation_lock.rs`, `fs/executable.rs`, `replace/exact.rs`, `server/src/tools/files/write.rs` | directory entries, inodes, modes, advisory locks named after inodes, temporary files | exact, bulk and hash-guarded replacement, creation, mode change | several processes, locks on inodes while paths move, kills, power loss, failing system calls | every call is a compare-and-swap on the file its path names |
| Receipt journal | `core/src/fs/receipt.rs`, `server/src/tools/journal.rs` | an append-only file of begin and settle records, rotated at a size | begin, settle, batch reservation, rotation, listing | kills between records, torn appends, failing digests, rotation in the middle of a batch | every mutation has evidence, and the evidence is true |
| Server, dispatch, deadlines | `server/src/server.rs`, `tools/dispatch.rs`, `core/src/process/deadline.rs` | a bounded queue of lines, call permits, worker permits, the repository lock, stdout | accept, refuse, run, expire, reply, shut down | handlers that hang or panic, replies that race a deadline, hang-up | replies are true, mutations exclude each other, nothing bounded waits for ever |
| Git commit workflow | `core/src/git/commit.rs`, `git/validate.rs`, `handlers/commit.rs` | index, HEAD, worktree | plan, stage, verify, commit | the worktree moves between plan, stage and commit; Git commands time out late | a commit holds exactly the planned paths, its receipt is true |
| Git restore, delete, move | `git/restore.rs`, `git/delete_guarded.rs`, `git/tracked_move.rs`, `git/guarded_path.rs` | worktree, index | restore, delete, move, clean up, with expected digests | digest and removal by path in separate calls; batches that fail halfway | only what was examined is removed, a success is the call's own doing |
| Git synchronisation | `git/sync.rs`, `handlers/sync.rs` | refs of the remote, tracking and local branches, worktree | remote check, branch preparation, merge readiness, exact push | the remote, HEAD and the worktree move between Git commands | a push is a fast-forward to the expected commit, nothing unseen is dropped |
| Git status and repository resolution | `git/state.rs`, `git/status.rs`, `git/workspace.rs`, `git/root.rs`, `fs/repository_identity.rs` | descriptors, a lock per worktree | parse Git's output, resolve a selector, lock | directories moved and linked during the walk, output cut at a byte limit | the call acts on what its selector named, the parse is exact |
| Bounded process runner | `process/runner.rs` | a child, its group, reader threads, capped buffers | run, cap, time out, kill, join, redact | descendants that keep pipes open, late exits, cuts inside a line | returns within its bound and reports what happened |
| Background jobs | `tools/process/jobs.rs`, `tools/process/mod.rs` | permits, a log and a status file per job | start, poll, finish | servers that die with jobs, panics, failing writes, polls during the last writes | permits come back, a status is never a false success |
| Guarded commands, profiles | `process/guarded_command.rs`, `setup/*.rs`, `tools/process/runs.rs` | an allow-list, a manifest in the repository | judge, run, look at the worktree before and after | the manifest and the worktree change meanwhile | only declared scripts run, a success changed only what it may |
| Builds, images, compose | `process/artifact_build.rs`, `process/task_image.rs`, `process/compose_stack.rs`, `native_*.rs`, `tools/process/containers.rs` | objects of the Docker daemon | build, run, clean up | a client that times out while the daemon goes on | a clean report is true, nobody else's object is removed |
| Harbor, GitHub, Azure | `tools/harbor.rs`, `tools/github.rs`, `tools/process/azure_ops.rs` | none | run external tools, read results | missing, partial and oversized results | a profile passes only on its own scores |
| Reads, listings, artifacts | `fs/guarded_file.rs`, `fs/directory.rs`, `fs/rooted.rs`, `tools/files/*.rs` | none | bounded reads, listings, digests | files and directories that change between steps | what is returned is of one moment or says that it is not |
| Directories, scratch | `fs/create_directory.rs`, `fs/scratch.rs` | directories | create a chain, remove a tree | others move and link directories meanwhile | nothing outside the root is touched |
| Fixtures | `tools/fixtures.rs` | manifests | generate, verify, refresh | files that change while they are digested | a verified fixture had the content its manifest lists |
| Diff preview | `patch/diff.rs` | none | line diff | none (pure) | it shows what the edit would do |
| Claude Desktop configuration | `cli/src/commands/configure_claude_desktop.rs` | a JSON file, its lock and backups | configure | two runs, an editor, kills, power loss | the settings are whole, what was replaced is kept |
| Command line | `cli/src/commands/*.rs` | none | the edits above | | |
| Registry, schemas, provenance | `tools/registry.rs`, `tools/capability.rs`, `tools/schema/*.rs`, `provenance.rs` | static tables | lookup | none | |

How they interact: a request is taken by the server's main thread, given a call thread, possibly lent to
a deadline worker, and reaches a tool's handler, which holds the repository mutation lock if the tool
mutates (StdioServer). The lock is named after the worktree the call's selector resolved to
(RepositorySelection). A handler that edits a file brackets the edit with receipts (ReceiptJournal), which
name the path by a rule of their own (PathRules), places the hunks (TextEdits) and calls the guarded edit
(GuardedFile). Several servers and command-line processes share nothing but the file system and the two
kinds of advisory lock. The command line takes the file locks only, neither the repository lock nor the
journal. The Git tools run Git commands under the repository lock, which keeps other calls out but neither
editors, nor the command line, nor a user's own Git (GitCommit, WorktreeChanges, GitSync, with what they
read of Git in GitTrees and GitOutput). Every external program is a bounded run (ProcessRunner), its output
a report (CommandReports); long work is handed to background jobs, which a client polls (BackgroundJobs).
Builds, generators and setups are judged by two looks at the worktree (BracketedRuns), scripts by a manifest
(GuardedCommands), Harbor runs by the result they leave (HarborRuns), Docker jobs by what the daemon keeps
(DockerJobs).

## 2. Modules

| Module | Models | Checked by | Proved |
|---|---|---|---|
| `EditRequests` | what an edit request is, when it is accepted and what it makes of a file | with the two below | |
| `AtomicFile` | the promise: each edit is a compare-and-swap on one file | as the property `ImplementsAtomicFile` | |
| `GuardedFile` | the protocol of the code, one action per system call or check | `guarded_file` | |
| `GuardedFileProofs` | its inductive invariant and its consequences; it implements AtomicFile | | 5 theorems |
| `ReceiptJournal` | records, appends, rotation, the four shapes of a journalled call | `journal*` | |
| `ReceiptJournalProofs` | the inductive invariant of the journal and its consequences | | 5 theorems |
| `StdioServer` | threads, permits, deadlines, the repository lock, replies | `server_*` | |
| `StdioServerProofs` | the inductive invariant of the server and its consequences | | 6 theorems |
| `GitTrees` | HEAD, index and worktree, what Git reports of them, what others do to them | with the two below | |
| `GitCommit` | the commit and staging tools | `commit_*` | |
| `GitCommitProofs` | what a commit holds and what its receipt says | | 3 theorems |
| `WorktreeChanges` | the tools that delete, move and restore files | `git_tools`, `changes_restore` | |
| `WorktreeChangesProofs` | what those tools take and report | | 6 theorems |
| `GitSync` | remote check, branch preparation, merge readiness, exact push | `git_tools` | |
| `RepositorySelection` | from a selector to a worktree, its revalidation and its lock | `workspace` | |
| `GitOutput` | the parsing of Git's bounded output, status and revision queries | `git_tools` | |
| `PathRules` | which spellings of a path each tool accepts, and what it makes of them | `git_tools` | |
| `ProcessRunner` | one bounded run of a child and its descendants | `processes` | |
| `BackgroundJobs` | job permits, logs, statuses, polls, restarts | `processes` | |
| `DockerJobs` | task image, artifact build, compose stack, image check; the daemon | `workspace` | |
| `RootedPaths` | descriptor walks: status, digest, listing, removal, creation, child directory | `workspace` | |
| `DesktopConfig` | two updates of Claude Desktop's settings | `workspace` | |
| `BracketedRuns` | generators, setups, native builds, device actions, image checks | `workspace` | |
| `Fixtures` | verification and refresh of a manifest | `workspace` | |
| `FileReads` | the hashed, counted read of a range | `git_tools` | |
| `DirectoryListing` | the bounded walk of a directory | `git_tools` | |
| `CommandReports` | capture, redaction and truncation of output, route by route | `git_tools` | |
| `GuardedCommands` | a script and the manifest that may declare it | `workspace` | |
| `HarborRuns` | rewards, verdict and evidence of Harbor runs, Azure deployments | `git_tools` | |
| `TextEdits` | the placing of hunks in a text, the preview as a diff | `git_tools`, `text_overlap` | |
| `GitToolsProofs` | GitSync, GitOutput, PathRules, HarborRuns: synchronisation, parsers, spellings, Harbor's verdicts | | 5 theorems |
| `ProcessProofs` | BackgroundJobs and ProcessRunner: jobs and permits, what a bounded run returns | | 3 theorems |
| `WorkspaceProofs` | RepositorySelection, GuardedCommands, RootedPaths, DockerJobs, DesktopConfig, BracketedRuns, Fixtures | | 9 theorems |

`MC*` modules hold the small constants of the runs. `MCGitTools`, `MCProcesses` and `MCWorkspace` put
several components into one run: the variable `part` chooses one of them in the initial state and no step
changes it, so that a behaviour is a behaviour of that component alone and the run explores the sum of
their state spaces, not the product. Every component has variables of its own, which are `None` and stand
still in the other parts; one component is EXTENDed, the others come in through INSTANCE ... WITH, and each
of their properties speaks of one part (`part = ... => ...`). What a component assumes of its constants,
these modules assume of the values they are given (`PartsAreSane`, `RunnerIsSane`), so that TLC evaluates it and the
proofs may use it. The components are put together for the economy of the runs; the interactions
between them that matter are inside the modules.

An operator named after another with a suffix (`LockOverlooked`, `SyncSkipped`, ...) is a faulty variant:
substituted for the original it must break the property it is listed with in `PROJECT.json` ("mutants"),
which shows that the property depends on that code.

### GuardedFile

Variables: `dir`, `content`, `mode` and `durable` are the file system (a path names an inode; an inode has
bytes, permission bits, and may or may not be on disk), `orphan` the temporary files nobody will remove,
`lock` the flock on `<inode identity>.lock`; per caller `pc`, `req`, `fd` (the open target), `kept` (the
identity retained by the first pass of a bulk plan or of a hash-guarded write), `temp`, `orig`, `result`.

| Action | Code |
|---|---|
| `Start`, `Return` | a handler or a CLI command begins and returns |
| `Open`, `Lock` | `open_regular_file_in_root`, `try_file_mutation_lock_for_open_file` |
| `ReadFirstPass`, `ReadTarget` | planning; `apply_planned_replacement` and the second read of `write_existing_file_exact_hash` |
| `Stage`, `Write`, `Sync`, `CopyMode`, `Revalidate`, `Rename`, `Discard` | `replace_atomic_unix` |
| `Probe`, `Link`, `Unlink` | `create_new_file_unix` |
| `Inspect`, `RevalidateMode`, `Fchmod`, `VerifyMode` | `set_file_executable_in_root` |
| `Kill`, `PowerLoss` | a killed process drops locks and handles; power loss takes unsynced bytes |

Data: contents are model values, an edit is a function from the contents it accepts to the contents it
makes, so that lost updates are visible without any text. Dry runs change nothing and are left out; so are
parent directories that are swapped while an edit runs (the code walks the path from the root with
`O_NOFOLLOW`, which `Revalidate` models for the leaf), and the Windows variants.

`AtomicFile` states what a caller may rely on. Three weaknesses of the code are part of it, because a
stronger promise is not kept: a creation whose temporary name cannot be removed and a mode change that
cannot be read back report an error although they took effect, and a mode change with nothing to change
may be confirmed for a file the path no longer names.

### ReceiptJournal

`journal.lines` are the lines that parse, `journal.tail` the last line if it lacks its newline,
`journal.junk` the unreadable lines. `state` is what the journalled targets hold, `call` the one running
call (the repository lock admits one), `mutated` and `worked` remember what really happened to each
attempt. The four kinds of call are `recorded` (one file or the Git HEAD), `recorded_in_batch` under
`begin_file_batch`, `record_refused_batch`, and `recorded_deletions`. A run may let other processes write
the targets, let digests fail, let appends fail cleanly or torn, and kill the server.

### StdioServer

`thread` is the call's own thread, `handler` the tool's handler (on the same thread, or lent to a detached
worker), `active` and `workers` the two permit counters as the code keeps them, `lent` the detached
workers alive, `repo` the holder of the repository lock. Replies are named by what they claim: `result`,
`panicked`, `expired`, and five ways of saying that the call was not started.

### GitTrees, GitCommit and WorktreeChanges

`head`, `index` and `work` give each path a content or `None`. What `git status`, `git ls-files` and
`git diff --cached` print are sets computed from them (`Dirty`, `Tracked`, `Staged`, ...). Renames are
recognised for equal contents; the directory that `.gitignore` names is the set `Ignored`, and Git names the
directory instead of its files when nothing in it is tracked (`Collapsed`). Each Git command, and each look
at a file, is one step of the running `call`; editors change the worktree between any two steps, a user may
run Git between calls or at any time, and a command may fail, or time out after it took effect.

| Action of GitCommit | Code |
|---|---|
| `Plan`, `CheckIndex`, `Begin` | `dirty_or_refuse`, the selection of paths, `ensure_index_clean`, the HEAD before |
| `ReadSources`, `Add` | `stage_paths` |
| `Verify`, `VerifyDirty` | `verify_*_staged` |
| `CommitStaged`, `CheckClean`, `ReadIdentity`, `Settle` | `git commit`, the checks after it, `settle_git` |

| Action of WorktreeChanges | Code |
|---|---|
| `ResolveExistingFile` ... `EnsureIndexClean` | the guards of `guarded_path.rs` |
| `Hash`, `Rehash`, `Remove`, `VerifyGone`, `VerifyDeletion` | `delete_guarded` |
| `MoveWithGit`, `VerifyMoved`, `VerifyEntries` | `move_tracked` |
| `PlanRestore`, `EnsurePathsTracked`, `Restore`, `VerifyRestored` | `git_restore_exact` |
| `PlanUntracked`, `ListTracked`, `ListGenerated`, `Walk`, `Unlink`, `VerifyUntracked`, `RemoveDirectory` | `delete_untracked_exact`, `delete_generated_prefix` |

Fields of `call` that the code does not have (`seen`, `left`, `moved`, `made`, `committed`, `alone`; `took`,
`changed`, `tracked`, `stale`) remember what happened, for the properties only. Dry runs, hooks that change
files, symlinks and empty directories are left out.

### BackgroundJobs

`active` is the counter of permits and `seen` what a compare-and-exchange loop last read of it; `starter`
follows the thread that runs `start_background_job`, `worker` the job's own thread; `log` and `status` are
the two files of a job, which outlive the server (`instance`). `fs::write` is two steps (truncate, fill), a
status is replaced at once by a rename. `poll` is an answer of `read_command_log`, which reads the status
(`ReadStatus`) and then the log (`ReadLog`). Two log ids are never equal: they are made of the process id,
the time and a sequence number.

### GitSync, RepositorySelection, GitOutput and PathRules

In `GitSync` a commit is the history that leads to it, so "ancestor of" is "prefix of". Each Git command is
one step; others push, an editor changes the worktree, a user runs Git before a call (and during merge
readiness). `MovesOnlyWhatItMay` has one exception: what is edited after the last look at the worktree is
lost by a confirmed `git reset --hard`.

In `RepositorySelection` directories and links are moved between any two steps of a walk. `named` and
`within` remember which directories a call's path led to, and which lay beneath the workspace, since the
call began: `SelectsWhatItNames` claims that the directory it acts on is among both, which is the most a
sequence of system calls can promise. `OneWriterPerRepository` compares the locks held with the directories
acted on; it speaks of calls with a selector, because a call without one locks and acts by name.

`GitOutput` has changes as Git knows them, the records Git prints of them, and the parsers; a path may be
spelled like a record. `PathRules` has one operator per rule of the code, over spellings as sequences of
segments (empty, `.`, `..`, names with wildcards, colons, backslashes, `.git`).

### ProcessRunner and CommandReports

`pc` follows the thread of `run_bounded_command`, `reader[s]` the reader of a stream, `kin` the processes the
child starts, which hold the pipes open, in its group or in a session of their own. A byte is the number of
its place in the stream, so that `HonestRuns` can say that the head and the tail retained are those of what
was written, and that nothing is missing unmarked. `CommandReports` makes the report of such a capture, one
route for each way the code has of doing so: `run_no_shell_command` drops the lines that the capture cut before
it redacts; the reports of image and artifact jobs and of stacks redact what was captured, with the marker in it;
those of Harbor redact as much of a file as was read; what `gh` printed is redacted whole and then cut at its end
or, for a log, at its beginning; the guarded runner redacts nothing. Each letter remembers its line, so that `ShowsNoCutSecret` can say for each route which secret
lines it hides altogether: all of them in `run_no_shell_command` and of `gh`, in the others those that the capture
left whole, none in the guarded runner (section 6).

### DockerJobs, BracketedRuns, GuardedCommands and HarborRuns

`docker` holds what the daemon has, each object with its maker; `late` what it may still make for a client
that was killed. `CompletedIsClean` is about a job that completed and reports a clean removal,
`LeavesOthersAlone` about every step. `BracketedRuns` has programs that write whatever they like, an editor and
a user's commits between two looks at the status; `SuccessIsConfined` says what a success then means for each
tool. In `GuardedCommands` the manifest is looked up, opened, measured and read in separate steps while its
owner writes it in place, replaces or removes it. In `HarborRuns`, `past` remembers what each run really
showed, against which the verdict is compared.

### RootedPaths, DesktopConfig, Fixtures, FileReads, DirectoryListing and TextEdits

`RootedPaths` opens one component per step while others move, remove and link; `beneath` remembers the
directories that lay in the repository since the call began. `DesktopConfig` has the settings, the backups,
the lock and the temporary files as files that a power loss may tear. `FileReads` reads in pieces; `blurred`
marks the writes that fall into the clock tick the first look saw, which no comparison of times can notice.
`DirectoryListing` retains the smallest names of a directory that is being changed, and its property compares
the listing with what was there. `TextEdits` is pure: the entries of a request are placed in one text, sorted,
compared with their neighbours and spliced, and the preview is a longest-common-subsequence script; both are
compared with definitions letter by letter.


## 3. Runs

| Run | Question | Bounds |
|---|---|---|
| `guarded_file` | is every interleaving of two edits a sequence of compare-and-swaps whose replies are true, does what was checked still hold at renameat and fchmod, also when two paths are links of one inode, and when system calls fail, processes are killed, power fails? is the inductive invariant of the proofs right? | 2 callers, 2 paths; 4 inodes and 8 requests without faults, 3 inodes and 4 requests with them |
| `journal` | does every mutation have its begin, do records and replies tell the truth although others write the targets, does the rotation keep what must be kept? | 2 targets, 3 attempts, room for 4 records |
| `journal_torn` | and when an append is cut short in the middle of a record? (section 6) | 2 attempts |
| `server_safety` | are replies true, do mutations exclude each other, are permits accounted for? | 3 mutating calls, 1 notification, 2 call permits, 1 worker permit, a queue of 1 |
| `server_live` | what is answered, and when does the server end, although handlers hang? | 4 requests, same limits |
| `commit_plan` | does a commit hold exactly the planned paths, is its receipt true? | 2 paths, 2 contents, 1 commit, Git of others at any time |
| `commit_reviewed` | is the committed content the one that was planned? (section 6) | the same, no other Git, no faults |
| `git_tools` | is a success of a deletion, move, restore or cleanup the call's own doing, can it be reviewed in Git, is only what was examined taken? does synchronisation report and move what it may? is Git's output read as meant? does an accepted spelling name one entry for all who use it? is what a caller is shown of files, directories, output, edits and Harbor runs true? | 2 paths and an ignored one, 2 contents; 2 branches, histories of 1, 1 push of others; 2 changes, a capture of 4 fields; 3 segments; files of 3 bytes, 1 write; 4 entries, 1 change; streams of 8 letters; texts of 4 letters, 3 entries; 2 trials |
| `changes_restore` | does a restore leave every file in place? (section 6) | 2 paths, no editors, no faults |
| `text_overlap` | is a text that occurs more than once refused, also when its occurrences overlap? (section 6) | texts of 3 letters, 1 entry |
| `processes` | do job permits come back, is what a poll says true, over failing writes and a restart? does a bounded run return, with the truth about its output and its group? | 2 attempts for 1 permit, 2 servers; 1 stream, 1 descendant, 3 bytes, a pipe, head and tail of 1 |
| `workspace` | does a call act on, and lock, what its selector named? and the properties of six more components, one part each | 4 directories and a link, 2 calls, 2 moves; 2 Docker jobs; a tree of 6 directories, 1 move; 2 desktop runs, 1 edit, 2 names; 2 paths and 2 contents between looks, 1 change of others; 3 fixture calls; 2 edits of a manifest |

Why these bounds are enough to be of interest: a lost update, a stale plan or a rename over a newer file
takes two callers and one path; a third inode lets an inode number be reused while the old path's lock is
still held, a fourth lets both callers stage at once. Two targets make a batch fail after its first file.
Four records are just what one batch needs, so rotations happen in the middle of a history. One worker
permit and two call permits are both exhausted by three calls. Two paths make a rename and a batch, two
contents show an edit; `MaxCommits` bounds the commits after which no call starts, so that a call is
observed with a commit of somebody else before it or during it. Two moves exchange a directory for a link and
back between the looks of a selection. A capture of one byte of head and one of tail has all three cases of
three bytes: whole, cut with nothing lost, and cut with a loss. The second server of `processes` is the one
that finds what the first left. Two Docker jobs that plan in one tick of the clock are what the counter in
their names is for. One change of others, placed anywhere in a call, is what each check in the readers, the
fixtures and the bracketed runs defends against. Three entries are one more than the neighbours an edit
compares. A third fixture call is the verification of a manifest after a refresh that followed another. What
the bounds cannot show, the proofs of section 4 show: they cover every safety property of the passing runs but
three, which section 4 names at its end. For those, and for liveness, only the small instances are checked.

Symmetry is used in runs of safety properties only (`guarded_file`, `commit_*`, `git_tools`, `workspace`), for
model values that no definition or property tells apart.

Deadlock is not checked (`CHECK_DEADLOCK FALSE`) where every behaviour ends by design: calls are bounded in
number, and a single call of a part ends with its reply.

Fairness. `StdioServer!FairSpec`: the main thread and the call threads are scheduled and `recv_timeout` returns when the deadline has passed; nothing at all is
assumed of handlers. A reply is written or fails, which is to say that the client reads or hangs up. For
the end of input, handlers without a deadline are assumed to end (`DirectHandlersEnd`, a premise of the
property), which their own process timeouts see to. `BackgroundJobs`: threads are scheduled and the work of a
job ends, because each tool runs its commands under time-outs; polls and restarts may never come.
`ProcessRunner`: the calling thread and the readers are scheduled, a delivered SIGKILL ends a process that
stayed in its group, the deadline and the drain limit pass; nothing is assumed of a child or descendant that
was not killed, which may write or hold the pipe for ever. The five-second limit of a join is not relied upon.

## 4. Proofs

`GuardedFileProofs` proves `Spec => []IInv` for any sets of callers, paths and inodes, from the named
assumptions in `EditRequests` and `GuardedFile` (types of the constants, and that `None` and `Torn` are no
ordinary values), and from it that variables keep their types (`Typing`), that no path names a torn file
(`NoTornFiles`) and that what was checked still holds at renameat and fchmod (`ChecksStillHold`).

`NoTornFile` and `CheckStillHolds` are not inductive. The argument of `IInv`: a caller past its try-lock
owns the lock of the inode it opened (`LockOnOpenedInode`), so two callers in the commit window of one
path, whose revalidation made the path name the inode each has open, would own one lock (`CommitWindow`).
A temporary file is named by no path and open in no other call until it is published (`TempIsPrivate`),
so its bytes are the planned ones, on disk, under the right mode (`TempIsPlanned`), and nobody can write
into the inode an edit verified (`VerifiedBytes`). `StepOfRequest` says which request each step serves.
An inode number is not reused while a path, a handle or a temporary name refers to it. TLC checks `IInv` too, as
`StaysInductive`, in both parts of `guarded_file`.

The same module proves `Spec => Atomic!Spec` (`Refinement`) under the refinement mapping `FileView`, `CallView`:
renameat, linkat and fchmod are `Commit`, all else stutters or moves a call forward.

`StdioServerProofs` proves, for any finite set of requests and any limits, that replies are true
(`Honesty`), mutating handlers exclude each other (`Exclusion`), the lock is free when a mutating call is
answered (`LockReleased`), permits are accounted for (`Permits`) and types and limits are kept (`Typing`).
The assumption is `ConstantsAreSane`. None of the first four is inductive. The invariant adds that the queue
holds each request once (`QueuedOnce`), so that a request is taken once; that a handler is not entered before
its thread starts and that nothing is answered before the thread writes (`InOrder`); that the answer a thread
is about to write is already true (`AnswersAreTruthful`), though a detached handler goes on meanwhile; that
whoever holds the lock is a running handler (`LockIsHeld`); and that a lent permit belongs to a worker
that was started (`LentAreAlive`). The counters are the cardinalities of finite sets, which each step
changes by at most one element.

`ReceiptJournalProofs` proves, for any calls, targets and attempts and any room in the journal, that a mutation
runs only while the journal reports its attempt as interrupted (`EvidenceFirst`), that only settling an attempt
removes that evidence (`EvidenceStays`, an action property), that receipts and replies are true (`Honesty`), and
that what a batch reserves is enough (`ReservationIsEnough`). The hypothesis is `Tearing = FALSE`: an append
fails whole, or is whole. It may fail, digests may fail, others may write the targets and the server may be
killed. With torn appends the first theorem is false, which `journal_torn` shows (section 6). None of the four
is inductive. In the invariant, `World` says that the journal has only whole lines of attempts that were
numbered, and that their outcomes are true; `Shape` ties the step of a call to its kind and to how many
targets it has digested and begun, and `OwnIds` keeps its attempts apart from one another and from all later
ones. `Evidence` is the induction itself: from the first attempt that is not settled on, all are interrupted,
and a batch's earlier ones applied. A rotation keeps the interrupted attempts, and `Space` says that what
a batch has still to write fits, so that none happens in the middle of one. `Effects`, `Digested` and `Seen` relate
what a call knows of its targets to what was done to them, which is what a settled outcome is judged by;
`HonestReply` is about the answer. `Room` bounds the numbers of attempts, as the guards of the model do.

`GitCommitProofs` proves that a commit of a call during which nobody else ran Git holds exactly the planned
paths (`CommitsThePlan`; the premise is part of the property and a state of the model, not a hypothesis), and
that receipts and replies are true (`Honesty`), whatever others do, fails, or takes effect after it timed out.
The invariant says at which step a call can have committed and replied (`Progress`), that the HEAD in the begin
record precedes the call's own commit (`Truth`), and that an undisturbed call has the planned paths staged
from its verification to its commit, an empty index before (`Alone`). `Bounds` bounds the commits.

`WorktreeChangesProofs` proves, whatever others do, that replies are true (`Honesty`) and that `delete_guarded`
takes the content it hashed unless somebody wrote the file after the second digest (`TakesTheHashed`); and,
under the hypothesis `OtherGit # "any"`, that results can be reviewed in Git (`Reviewable`) and that the cleanup
tools take no tracked file (`TakesOnly`). The hypothesis lets a user run Git between two calls and
not during one; without it the two are false, for the reason given in section 5, and it is what `git_tools`
runs with. The invariant is `IInv`, which says which kind of call takes which steps (`StepsOfKind`), what it notes as
changed (`OwnChanges`) and what a checked digest is still worth (`Hashed`), and, with the hypothesis, `GitInv`:
a moved file is the only staged change (`MoveIsAlone`), what was restored is HEAD's (`RestoredIsHead`), a deletion
is not staged (`DeletedIsUnstaged`), and what a cleanup has still to take is not tracked (`OnlyUntracked`).

The last three modules prove about the composed specifications: `MCSpec` with any constants that satisfy the
assumptions of its parts (`PartsAreSane`, `RunnerIsSane`; for WorktreeChanges and BackgroundJobs those of their own
modules). No part touches another's variables (`EachPartAlone`), and each has an inductive invariant of its
own.

`ProcessProofs` proves `HonestJobs` for any finite set of jobs, any number of permits and of servers one after the
other (`Honesty`). What a poll may say is not inductive: it says nothing of a job that has not been returned
yet, and compares two files that change at different steps. The invariant follows each job: its thread exists
only when its starter has handed it over (`Handed`), its log is final only after the thread has filled it
(`LogFollows`), its status is "running" and this server's until the thread replaces it, and an older
server's after a restart (`StatusFollows`); and what the last poll saw of an ended job still is so
(`PollHolds`). The counter of permits is the cardinality of the jobs that hold one.

It also proves `HonestRuns` for any set of streams and descendants and any sizes of pipes, heads, tails and outputs
(`EveryRunIsHonest`). The invariant `RunInv` is that the bytes of a stream are numbered: what was captured is both
ends of the first so many, the pipe holds the next ones, and nothing else was written (`StreamsKept`; the lemma
under it is that `retain`, which takes a chunk apart into head, surplus and tail, keeps the two ends of whatever came
before). Beside it stand what the calling thread knows of the child (`ChildFollows`) and of its group
(`GroupFollows`), why a reader is where it is (`ReadersFollow`, `EndsFollow`), and whose the status is (`ResultFollows`).

`WorkspaceProofs` has seven inductive invariants:

- RepositorySelection, for any tree of directories and links, any calls and any moves: a selected call acts on a
  directory that lay beneath the workspace and that its path named (`Selection`), and no two selected calls act
  on one directory (`OneWriter`). `IInv` says what a call knows at each step (`Knows`): that the directory it holds lay
  where it may, that what its path names now is among what it named, and, from the first comparison on, that
  its directory is too. A lock is held by one call, which acts (`OneHolder`, `Locks`). How a path is resolved is not
  looked into: the proof needs only that a directory lies beneath itself and that a path names one or none.
- GuardedCommands (`ScriptsAreJudged`): the manifest of this moment, the one the call has open, and the one that
  admitted the script are among those there were during the call (`ScriptInv`).
- RootedPaths (`WalksStayBeneathRoot`): whatever lies beneath the root, or beneath the directory the call holds, counts
  as beneath the root (`WalkInv`). "Beneath" is the least closed set of directories, so that a directory opened from
  one that is held is below it, and a move or a creation adds to what is beneath only what it moves or makes.
- DockerJobs, as an invariant (`CompletedJobsAreClean`) and a property of steps (`JobsLeaveOthersAlone`): the numbers in
  the names are of one plan each (`NamesAreUnique`), what there is or may yet be carries the name of the job that
  made it (`ObjectsAreNamed`), and while the commands that make something went well, nothing is owed by the
  daemon and what there is the cleanup still to come removes (`Tidy`).
- DesktopConfig, a property of steps (`SettingsSurviveEverything`): who is active holds the lock (`HolderRuns`), so the
  backup and the temporary file of a run are its own, and `RunFits` says what they hold at each of its steps.
- BracketedRuns and Fixtures, one property (`SuccessesAreEarned`): what was clean at the first look and was not committed
  since is still told by that look (`LookKept`), a reply needs the exits of all its commands (`ExitsFit`); what a
  verification has read the files had during the call (`ReadingsFit`), its manifest is still the one there is
  (`ExpectationFits`), and a fresh manifest lists what there is (`FreshFits`).

`GitToolsProofs` has four:

- GitSync, for any branches, any length of histories and any pushes of others: a push moves its branch to the
  expected commit and nothing is dropped but by a confirmed reset (`SyncMovesOnlyWhatItMay`, of steps), and reports are
  true (`SyncReportsAreHonest`). The properties of steps are about what a call established several steps earlier, and
  so is `SyncInv`: HEAD is still the expected commit of the branch when it is pushed, because a call's fetch moves no
  local branch and nobody else does during it (`ToBePushed`); the worktree was clean at the second look, so what is
  uncommitted at `git reset --hard` is a change the call has not seen (`SawClean`); a branch to be created does not
  exist, one to be reset was confirmed, one that `git branch -f` moved is at the base already (`Based`). The counts
  of a report need that a commit has nothing ahead of another exactly when it is its ancestor (`NothingAhead`).
- GitOutput, for any changes and any capture (`ParsersReadWhatGitMeant`): a reply is fair to the changes Git had to
  report (`Fair` in `OutputInv`). The parsers know nothing of changes, only of fields, so the argument goes by induction
  over the changes: what is printed of one more change is read as one more record, and the parser is then between two
  records again (`EntryIsParsed`, `LetteredIsListed`), so that the original of a rename is never looked at for
  letters, whatever it is called. That a refusal means a cut capture needs that no format of Git's is longer than the
  one the property measures (`NameStatusIsLongest`), and that there is a sample to show needs a greatest
  prefix that fits (`SampleFits`).
- PathRules, for any names and spellings of any length (`SpellingsNameOneEntry`): an invariant that is a statement about
  the rules. Their loops over the components of a path are folds, and the lemmas say what a fold has read after so
  many components: the names it met, and that it refused at the first it may not take.
- HarborRuns, for any trials, rewards and limits (`HarborJudgesFairly`): a profile has come as far in its four runs as it
  has results or failures noted (`OnPace`), a run that ended has a job (`HasItsJob`), and the n-th reward of an agent
  fits what the n-th of its runs really showed, unless one is missing (`Earned`). That the evidence accounts for
  each trial needs that sorting the rows loses none, and that reading stops only at a limit that the omitted count
  includes.

Induction over data. The library's induction theorems take an operator as a parameter, which the provers cannot
instantiate. `Induction` and `SeqInduction` in `GitToolsProofs` state it of a set instead: a set of numbers that has
0 and with each number the next has them all, and a set of sequences likewise. A fold and a recursive function
is a CHOOSE of a function with a recursive equation; `FoldExists` shows that there is one, by the same induction,
and `FoldRuns` and `FoldSteps` are then its equation, from which each fold has a lemma of its own that says what one more
element does (`PorcelainGrows`, `RecordsGrow`, `WalkGrows`). All further lemmas reason by these.

What the proofs changed. An invariant that could not be shown inductive, or a lemma that was false, led back to the
source more than once: `fresh` in `Fixtures` is a manifest that a refresh wrote while no file changed, and a bound of
two calls had hidden that an earlier version forgot to clear it (there are three now); "beneath" in `RootedPaths` was
computed along paths and is a closure now, and its initial trees must be trees; a backup in `DesktopConfig` takes the
first free name and the run fails if none is free; and the cases of a status in `BracketedRuns` and of a reward in
`HarborRuns` overlapped and are ordered now. The formats and parsers of `GitOutput` are folds of named steps, so that
a lemma can speak of a step.

Only model-checked. Liveness (`EveryBoundedCallAnswered`, `ServerEnds`, `EveryJobEnds`, `EveryRunReturns`), which the
provers do not reach. Three invariants of `git_tools`: `HonestReads` (FileReads and DirectoryListing),
`ShowsNoCutSecret` (CommandReports) and `EditsWhatMatched` (TextEdits).
They are statements about long computations over sequences (lines
counted in pieces, a breadth-first walk, redaction of lines, a longest common subsequence), for which no proof was
completed. The theorems of `ReceiptJournalProofs` are about appends that fail whole, and two of `WorktreeChangesProofs` about
users who run no Git during a call, as said above.


## 5. Not modelled

Editors that ignore the advisory locks race the final comparison and the rename; the source says so
(`replace/exact.rs:290`). Directory entries are taken as durable. A write to a stdout that stays full holds
the stdout mutex, and with it every reply (`server.rs:292`). A record torn in the middle of a multi-byte
character makes the whole journal unreadable (`fs/receipt.rs:521`). `git_tools` lets others run Git between the
calls of WorktreeChanges, not during them; section 6 says what a cleanup deletes otherwise. The plain refusal
of a `git restore` or `git mv` that timed out after it took effect is not told from one that changed nothing.
The selection of a call's repository comes before its deadline begins (`dispatch.rs:49`, `dispatch.rs:55`):
StdioServer takes it to end, so `EveryBoundedCallAnswered` says nothing of a selection that hangs in the file system.

Some steps are coarser than the code where the difference is none that a property tells. A listing takes the names
and kinds of a directory's entries in one step (`rooted.rs:661`); what changes afterwards meets the walk that each
removal makes of its own. `rooted::rename` (`rooted.rs:248`) has no caller but a test. The `status_short` of a setup
is only shown. `kill_direct_child_if_running` finds the child ended, because the signal to the group fails only
when nothing is left of it (`runner.rs:384`).

Git's own reading of a repository is one step, canonicalisation too. The allow-lists of programs and flags
are tables with nothing to compare them with but themselves; two rules look at the text of a path instead of
its components (`validate_relative_path_param`, `validate_manifest_script_path`) and no containment is claimed
for them. github.rs and azure_ops.rs build one command line and pass on what it prints; `github_fork_prepare`
runs it without a time-out (`github.rs:550`). The artifact tools are guarded writes in a directory of their own.
Registry, schemas and provenance have no state. Windows variants are left out everywhere.

## 6. Where code and text disagree

1. `journal_torn`: `append` does not check that the journal ends with a newline. After a torn write the
   next record is glued to the fragment and neither can be read: a mutation runs without readable evidence.
2. `commit_reviewed`: `verify_exact_staged` compares sets of paths. A planned file that changes between
   planning and staging is committed with a content that was never planned.
3. `changes_restore`: `ensure_paths_are_tracked` asks the index only. A path that is new in the index passes,
   and `git restore --staged --worktree` deletes the file, of which HEAD has no version.
4. `text_overlap`: the matches of `str::match_indices` do not overlap each other, so `aa` in `aaa` counts as one and
   is replaced at its first place (`exact.rs:203`, `diff.rs:34`), while `docs/tool-spec.md:325` says "Refuse if
   `old` appears more than once". `EditsWhatMatched` leaves entries that overlap themselves open.

Seen while modelling, and visible in the models by strengthening a property, but without a run of their own.

Journal, commits, jobs:

- an unreadable target refuses a deletion and leaves the begin records of the targets before it unsettled,
  listed as interrupted operations though no work was started (`server/src/tools/journal.rs:219`);
- the receipts of all later targets of a refused batch are refused as out of order after an unreadable one
  (`journal.rs:167`);
- the source of a staged rename that exists again is left out of the exact commit that names it
  (`commit.rs:307`; hence `CommitsHoldThePlan` speaks of partial commits);
- an edit of the command line between the second digest of `delete_guarded` and the removal is deleted
  unseen (`delete_guarded.rs:73`, the exception in `TakesOnlyWhatItMay`);
- a job whose last status cannot be written is reported as running until the server restarts
  (`jobs.rs:100`, the exception in `HonestJobs`).

Git and paths:

- `delete_generated_prefix` lists the tracked files before the untracked ones (`restore.rs:315`), and `delete_untracked_exact`
  unlinks after it looked: a file that a user's Git adds meanwhile is deleted, though tracked. The comment of
  `collect_untracked_files_in_dir` (`restore.rs:393`) says that its check ends this window in a refusal, but what it
  looks at is the older list. With `OtherGit = "any"` TLC finds `KeepsTrackedFiles` of WorktreeChanges violated;
- `git_push_exact` pushes `HEAD:refs/heads/b`, so a user's own Git between the check and the push changes what
  is pushed; `git branch -f` may succeed before the switch that follows it fails; `git_merge_readiness` and
  `git_remote_check` take the mutation lock.

Programs:

- a reader that is cancelled drains for 100 ms at most, so that output may be cut without `truncated`; and
  `truncated` is set beyond the head even when the tail holds all the rest (`runner.rs`);
- an artifact check that times out in its smoke run leaves a container without a name running, although its
  removal is reported clean; it reports the exit status of the build even when the smoke run failed; two compose
  jobs of one action share a project;
- a build compares the text of two statuses, so that a dirty file that is changed again, or an ignored one, goes
  unnoticed; the classes of a setup are matched against names relative to the repository, so that a setup in a
  sub-directory is refused after it ran; a setup runs its second command even if the first failed;
- a generator's success is a line `exit_code: 0` anywhere in its output (`common.rs:189`), while
  `docs/tool-spec.md:851` refuses a generator with another exit status;
- `run_guarded_command` formats what was captured without redaction (`guarded_command.rs:135`), where
  `docs/tool-spec.md:820` and `docs/safety-contract.md:263` describe redacted output;
- the reports of image and artifact jobs, of stacks and of Harbor redact what the capture has already cut
  (`task_image.rs:416`, `artifact_build.rs:342`, `compose_stack.rs:282`, `harbor.rs:481`): of a secret line that is
  cut, the half that has no keyword is shown. Only `run_no_shell_command` drops the cut lines first;
- a Harbor result that parses but records no reward falls back to the rendered output, which `harbor.rs:15`
  keeps for absent and unreadable results; an Azure preview is `previewed` however `az` ended.

Files:

- writes in the clock tick of the first look are invisible to a hashed read; plain `read_range` and `read_all`
  compare nothing;
- an edit of the Claude Desktop settings between the comparison and the rename is lost; a symlinked
  configuration is replaced by a regular file, and two spellings of it use two locks;
- a manifest beneath its own prefix can never verify; a verification is not a snapshot; a refresh overwrites a
  manifest that is edited between the check of its digest and the rename.

## 7. Plan

1. Proofs of the three invariants that only TLC checks (end of section 4).
2. A pipe that stays full, in StdioServer; fragments of a multi-byte character, in ReceiptJournal.
3. Larger bounds where the state space allows it: two background jobs, two streams and two descendants.
