---------------------------- MODULE DesktopConfig ----------------------------
(***************************************************************************)
(* contextpatch configure-claude-desktop                                   *)
(* (crates/cli/src/commands/configure_claude_desktop.rs): several runs of  *)
(* the command and the editor of Claude Desktop's settings share one JSON  *)
(* file.  A run takes the advisory lock or gives up, reads the file,       *)
(* changes the ContextPatch servers in it, keeps a backup of what it read  *)
(* and replaces the file through a temporary one, having read it again.    *)
(* The editor knows nothing of the lock.  A run may be killed and the      *)
(* machine may lose power at any step.                                     *)
(***************************************************************************)
EXTENDS Integers

CONSTANTS Runs,       \* runs of the command, each with a process id of its own
          Surfaces,   \* tool surfaces: "full", "project"
          MaxEdits,   \* bound on the edits of others
          MaxTries,   \* names a run tries for its backup and its temporary file (100)
          None

ConstantsAreSane == /\ None \notin Runs /\ MaxEdits \in Nat /\ MaxTries \in Nat
                    /\ None \notin [surface : Surfaces \cup {None, "odd", "absent"}, legacy : BOOLEAN,
                                   rev : 0..MaxEdits]

VARIABLES config,   \* the settings file: its document (None when torn), whether it is on the
                    \* disk, and [read, backup] of the run that wrote it
          files,    \* backups and temporary files, by name
          lock,     \* who holds the lock file
          run       \* per run: step, options, what it read, names

vars == <<config, files, lock, run>>

\* A settings document: the tool surface of its ContextPatch server (None for no such
\* argument, "odd" for arguments the command refuses, "absent" for no such server),
\* whether the legacy policy is there, and everything else.
Documents == [surface : Surfaces \cup {None, "odd", "absent"}, legacy : BOOLEAN, rev : 0..MaxEdits]
Refused(d) == d = None \/ d.surface \in {"odd", "absent"}

\* set_tool_surface and the removal of the wildcard policy.
Updated(d, s) == [d EXCEPT !.surface = s, !.legacy = FALSE]

NewRun == [pc |-> "start", surface |-> None, dry |-> FALSE, read |-> None,
           backup |-> None, temp |-> None, try |-> 0, edited |-> FALSE,
           reused |-> FALSE]

TypeOK ==
  /\ config.text \in Documents \cup {None} /\ config.synced \in BOOLEAN
  /\ files \in [DOMAIN files -> [text : Documents \cup {None}, synced : BOOLEAN]]
  /\ lock \in Runs \cup {None}
  /\ \A r \in Runs : run[r].read \in Documents \cup {None} /\ run[r].try \in 0..MaxTries

Init ==
  /\ config \in [text : {d \in Documents : d.rev = 0}, synced : {TRUE}, by : {None}]
  /\ files = [n \in {} |-> None]
  /\ lock = None
  /\ run = [r \in Runs |-> NewRun]

At(r, p) == run[r].pc = p
Go(r, changes) == run' = [run EXCEPT ![r] = changes]
Finish(r) == /\ Go(r, [NewRun EXCEPT !.pc = "end"])
             /\ lock' = IF lock = r THEN None ELSE lock
With(n, f) == [m \in DOMAIN files \cup {n} |-> IF m = n THEN f ELSE files[m]]
Without(N) == [m \in DOMAIN files \ N |-> files[m]]
Empty == [text |-> None, synced |-> FALSE]
Full(d) == [text |-> d, synced |-> FALSE]

\* parse_options, acquire_config_lock: the lock or nothing.
LockFree == lock = None
Start(r) ==
  /\ At(r, "start")
  /\ \E s \in Surfaces, dry \in BOOLEAN :
       IF LockFree THEN Go(r, [run[r] EXCEPT !.pc = "read", !.surface = s, !.dry = dry]) /\ lock' = r
       ELSE Finish(r)
  /\ UNCHANGED <<config, files>>

\* Read and change the document; nothing to do, a dry run and a refusal end here.
Read(r) ==
  /\ At(r, "read")
  /\ LET d == config.text
     IN IF Refused(d) \/ run[r].dry \/ Updated(d, run[r].surface) = d
        THEN Finish(r)
        ELSE Go(r, [run[r] EXCEPT !.pc = "name", !.read = d]) /\ UNCHANGED lock
  /\ UNCHANGED <<config, files>>

\* unique_backup_path: the first name of this millisecond nothing exists at.
Taken(k) == <<"backup", k>> \in DOMAIN files
BackupName(r) ==
  /\ At(r, "name")
  /\ \/ \E k \in 0..(MaxTries - 1) :
          /\ ~Taken(k) /\ \A i \in 0..(k - 1) : Taken(i)
          /\ Go(r, [run[r] EXCEPT !.pc = "backup", !.backup = <<"backup", k>>]) /\ UNCHANGED lock
     \/ (\A k \in 0..(MaxTries - 1) : Taken(k)) /\ Finish(r)
  /\ UNCHANGED <<config, files>>

\* write_backup: create_new; a failure removes what it made.
CreateBackup(r) ==
  /\ At(r, "backup")
  /\ IF run[r].backup \in DOMAIN files THEN Finish(r) /\ UNCHANGED files
     ELSE /\ files' = With(run[r].backup, Empty)
          /\ Go(r, [run[r] EXCEPT !.pc = "keep"]) /\ UNCHANGED lock
  /\ UNCHANGED config
Fail(r, names) == files' = Without(names) /\ Finish(r)
KeepBackup(r) ==
  /\ At(r, "keep")
  /\ \/ Fail(r, {run[r].backup})
     \/ /\ files' = With(run[r].backup, [text |-> run[r].read, synced |-> TRUE])
        /\ Go(r, [run[r] EXCEPT !.pc = "temp"]) /\ UNCHANGED lock
  /\ UNCHANGED config

\* write_atomic_preserving_permissions: a name of the process and the attempt.
CreateTemp(r) ==
  /\ At(r, "temp")
  /\ LET n == <<"temporary", r, run[r].try>>
     IN IF run[r].try = MaxTries THEN Fail(r, {run[r].backup})
        ELSE IF n \in DOMAIN files
        THEN Go(r, [run[r] EXCEPT !.try = @ + 1]) /\ UNCHANGED <<files, lock>>
        ELSE \/ /\ files' = With(n, Empty)
                /\ Go(r, [run[r] EXCEPT !.pc = "write", !.temp = n]) /\ UNCHANGED lock
             \/ Fail(r, {run[r].backup})
  /\ UNCHANGED config
WriteTemp(r) ==
  /\ At(r, "write")
  /\ \/ Fail(r, {run[r].temp, run[r].backup})
     \/ /\ files' = With(run[r].temp, Full(Updated(run[r].read, run[r].surface)))
        /\ Go(r, [run[r] EXCEPT !.pc = "sync"]) /\ UNCHANGED lock
  /\ UNCHANGED config

\* Faulty variant of Synced: the temporary file is not flushed.
SyncSkipped(r) == files[run[r].temp]
Synced(r) == [files[run[r].temp] EXCEPT !.synced = TRUE]
SyncTemp(r) ==
  /\ At(r, "sync")
  /\ \/ Fail(r, {run[r].temp, run[r].backup})
     \/ /\ files' = With(run[r].temp, Synced(r))
        /\ Go(r, [run[r] EXCEPT !.pc = "compare"]) /\ UNCHANGED lock
  /\ UNCHANGED config

\* Faulty variant of StillAsRead: the file is not read again.
UnchangedAssumed(r) == TRUE
\* The file still holds what was read.
StillAsRead(r) == config.text = run[r].read
Compare(r) ==
  /\ At(r, "compare")
  /\ IF StillAsRead(r) THEN Go(r, [run[r] EXCEPT !.pc = "rename", !.edited = FALSE]) /\ UNCHANGED <<files, lock>>
     ELSE Fail(r, {run[r].temp, run[r].backup})
  /\ UNCHANGED config
Rename(r) ==
  /\ At(r, "rename")
  /\ \/ Fail(r, {run[r].temp, run[r].backup}) /\ UNCHANGED config
     \/ /\ config' = [text |-> files[run[r].temp].text, synced |-> files[run[r].temp].synced,
                      by |-> [read |-> run[r].read, backup |-> run[r].backup]]
        /\ files' = Without({run[r].temp})
        /\ Finish(r)

Step(r) == Start(r) \/ Read(r) \/ BackupName(r) \/ CreateBackup(r) \/ KeepBackup(r) \/ CreateTemp(r)
             \/ WriteTemp(r) \/ SyncTemp(r) \/ Compare(r) \/ Rename(r)

\* The editor saves another document, whole.
Edit ==
  /\ config.text # None /\ config.text.rev < MaxEdits
  /\ \E s \in Surfaces \cup {None, "odd", "absent"} :
       config' = [text |-> [config.text EXCEPT !.surface = s, !.rev = @ + 1], synced |-> TRUE, by |-> None]
  /\ run' = [r \in Runs |-> [run[r] EXCEPT !.edited = @ \/ At(r, "rename")]]
  /\ UNCHANGED <<files, lock>>

\* A run dies; its lock goes with it, its files stay.  Its process id comes back.
Kill(r) ==
  /\ run[r].pc \notin {"start", "end", "killed"}
  /\ Go(r, [NewRun EXCEPT !.pc = "killed", !.reused = run[r].reused])
  /\ lock' = IF lock = r THEN None ELSE lock
  /\ UNCHANGED <<config, files>>
Reuse(r) ==
  /\ At(r, "killed") /\ ~run[r].reused
  /\ Go(r, [NewRun EXCEPT !.reused = TRUE])
  /\ UNCHANGED <<config, files, lock>>
\* Every run dies, and what was not flushed is gone.
Lost(f) == IF f.synced THEN f ELSE [f EXCEPT !.text = None, !.synced = TRUE]
PowerLoss ==
  /\ config' = Lost(config)
  /\ files' = [n \in DOMAIN files |-> Lost(files[n])]
  /\ \E r \in Runs : run[r].pc \notin {"start", "end", "killed"}
  /\ run' = [r \in Runs |-> [NewRun EXCEPT !.pc = "end"]]
  /\ lock' = None

Next == Edit \/ PowerLoss \/ \E r \in Runs : Step(r) \/ Kill(r) \/ Reuse(r)
Spec == Init /\ [][Next]_vars

-----------------------------------------------------------------------------
(* Properties *)

\* The settings file is whole at every moment, through kills and power loss, and when
\* a run of the command wrote it the backup it names is there, whole, on the disk, and
\* holds what the run replaced.
ReplacementIsRecoverable ==
  /\ config.text # None
  /\ config.by # None => /\ config.by.backup \in DOMAIN files
                         /\ files[config.by.backup] = [text |-> config.by.read, synced |-> TRUE]

\* What a run replaces is what it read, another run's work included; an edit is lost
\* only when it was saved after the last comparison, just before the rename.
LosesNoEdit ==
  \A r \in Runs : At(r, "rename") /\ config'.by # config.by /\ run'[r].pc = "end" =>
    config.text = run[r].read \/ run[r].edited \/ config'.by = None
=============================================================================
