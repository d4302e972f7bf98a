--------------------------- MODULE GuardedFile ---------------------------
(***************************************************************************)
(* Guarded edits of repository files (crates/core/src/fs/guarded_file.rs,  *)
(* fs/mutation_lock.rs, fs/executable.rs, replace/exact.rs and the handler *)
(* write_existing_file_exact_hash).                                        *)
(*                                                                         *)
(* A path names an inode.  An edit opens the path, locks the opened inode  *)
(* (an advisory flock on a lock file named after the inode's identity),    *)
(* reads, plans, stages the new bytes in a temporary file, checks that the *)
(* path still names the opened inode, and renames the temporary file over  *)
(* the path.  The lock therefore guards an inode, not a path, and the      *)
(* inode under a path changes with every replacement.  Callers are the     *)
(* threads of MCP server processes and CLI processes; nothing but the file *)
(* lock is common to them.                                                 *)
(***************************************************************************)
EXTENDS EditRequests

CONSTANTS
  Inodes,       \* inode numbers; a number is reused once nothing refers to it
  Torn,         \* the bytes of a file that is not completely on disk
  InitialFiles, \* the file systems a behaviour may start from
  IoFaults,     \* whether system calls may fail (full disk, too many open files, ...)
  MayCrash      \* whether processes may be killed and the machine lose power

VARIABLES
  dir,          \* dir[q]: the inode path q names, or None
  content,      \* content[i]: the bytes of inode i
  mode,         \* mode[i]: its permission bits
  durable,      \* inodes whose bytes have been fsynced
  orphan,       \* inodes named only by a temporary name nobody will remove
  lock,         \* lock[i]: who holds the lock file named after inode i
  pc,           \* pc[p]: the next step of caller p
  req,          \* req[p]: the request p serves
  fd,           \* fd[p]: the inode p has open as its target
  kept,         \* kept[p]: the identity retained by p's first pass (bulk plan, hash preview)
  temp,         \* temp[p]: the inode of p's temporary file
  orig,         \* orig[p]: the bytes p verified
  result        \* result[p]: the reply p is about to give

fsvars == <<dir, content, mode, durable, orphan>>
vars == <<fsvars, lock, pc, req, fd, kept, temp, orig, result>>

FileSystem == [dir: [Paths -> Inodes \cup {None}], content: [Inodes -> Contents], mode: [Inodes -> Modes]]

ASSUME RequestsType == Requests \subseteq RequestType
ASSUME NoneIsNoValue ==
  /\ None \notin Inodes /\ None \notin Contents /\ None \notin Callers
  /\ None \notin Requests /\ None \notin FileState /\ None \notin {"ok", "error"}
  /\ None \notin [req: Requests, state: {"pending", "applied", "ok", "error"}]
ASSUME TornIsNoContent == Torn \notin Contents
ASSUME NewModeIsMode == NewMode \in Modes
ASSUME InitialFilesType == InitialFiles \subseteq FileSystem
ASSUME SwitchesType == IoFaults \in BOOLEAN /\ MayCrash \in BOOLEAN

PCs == {"idle", "probe", "open", "lock", "read", "stage", "write", "sync", "mode", "current",
        "rename", "checked", "fchmod", "verify", "link", "unlink", "release", "discard", "done"}

Target(p) == req[p].path
Op(p) == req[p].op

(* The second pass of a two-pass edit: apply of a bulk plan, or the re-open of a hash write. *)
SecondPass(p) == kept[p] # None
FirstPass(p) == Op(p) \in {"bulk", "hash"} /\ ~SecondPass(p)

(* The bytes that p's edit makes of the bytes it verified. *)
Planned(p) == IF Op(p) = "create" THEN req[p].data ELSE req[p].edit[orig[p]]

Links(i) == {q \in Paths : dir[q] = i}

(* Everything that counts as a hard link: the paths, the temporary names, the forgotten ones. *)
Names(i) ==
  ({"path"} \X Links(i)) \cup ({"temp"} \X {p \in Callers : temp[p] = i})
    \cup (IF i \in orphan THEN {<<"orphan", i>>} ELSE {})

(* An inode number can be handed out only when no name and no open handle refers to it. *)
Free(i) ==
  /\ Links(i) = {}
  /\ i \notin orphan
  /\ \A p \in Callers : i \notin {fd[p], kept[p], temp[p]}

(* revalidate_current_path: the path, walked again from the root, names the opened inode. *)
StillCurrent(p) == dir[Target(p)] = fd[p]

Init ==
  /\ \E f \in InitialFiles : dir = f.dir /\ content = f.content /\ mode = f.mode
  /\ durable = Inodes
  /\ orphan = {}
  /\ lock = [i \in Inodes |-> None]
  /\ pc = [p \in Callers |-> "idle"]
  /\ req = [p \in Callers |-> None]
  /\ fd = [p \in Callers |-> None]
  /\ kept = [p \in Callers |-> None]
  /\ temp = [p \in Callers |-> None]
  /\ orig = [p \in Callers |-> None]
  /\ result = [p \in Callers |-> None]

Goto(p, l) == pc' = [pc EXCEPT ![p] = l]

(* Dropping the guard and the handles: what every return from the edit does. *)
Unlocked(p) == [i \in Inodes |-> IF lock[i] = p THEN None ELSE lock[i]]

Reply(p, r) ==
  /\ result' = [result EXCEPT ![p] = r]
  /\ lock' = Unlocked(p)
  /\ fd' = [fd EXCEPT ![p] = None]
  /\ kept' = [kept EXCEPT ![p] = None]
  /\ Goto(p, "done")

Refuse(p) ==
  /\ Reply(p, "error")
  /\ UNCHANGED <<fsvars, req, temp, orig>>

(***************************************************************************)
(* Opening, locking, reading.                                              *)
(***************************************************************************)
Start(p) ==
  /\ pc[p] = "idle"
  /\ \E r \in Requests :
       /\ req' = [req EXCEPT ![p] = r]
       /\ Goto(p, IF r.op = "create" THEN "probe" ELSE "open")
  /\ UNCHANGED <<fsvars, lock, fd, kept, temp, orig, result>>

(* The preview of a hash write reads without the lock. *)
Open(p) ==
  /\ pc[p] = "open"
  /\ \/ /\ dir[Target(p)] # None
        /\ fd' = [fd EXCEPT ![p] = dir[Target(p)]]
        /\ Goto(p, IF Op(p) = "hash" /\ FirstPass(p) THEN "read" ELSE "lock")
        /\ UNCHANGED <<fsvars, lock, req, kept, temp, orig, result>>
     \/ (dir[Target(p)] = None \/ IoFaults) /\ Refuse(p)

(* Faulty variant of Lock: contention is overlooked. *)
LockOverlooked(p) ==
  /\ pc[p] = "lock"
  /\ lock' = [lock EXCEPT ![fd[p]] = p]
  /\ Goto(p, "read")
  /\ UNCHANGED <<fsvars, req, fd, kept, temp, orig, result>>

(* A try-lock: contention refuses the edit, nobody waits. *)
Lock(p) ==
  /\ pc[p] = "lock"
  /\ \/ /\ lock[fd[p]] = None
        /\ lock' = [lock EXCEPT ![fd[p]] = p]
        /\ Goto(p, "read")
        /\ UNCHANGED <<fsvars, req, fd, kept, temp, orig, result>>
     \/ (lock[fd[p]] # None \/ IoFaults) /\ Refuse(p)

(* The bytes of the opened inode pass the edit's checks, whether or not the path still names it. *)
Readable(p) == content[fd[p]] \in DOMAIN req[p].edit

(* plan_bulk_replace_exact_in_root and the hash preview: validate, let go, keep the identity. *)
ReadFirstPass(p) ==
  /\ pc[p] = "read" /\ FirstPass(p)
  /\ \/ /\ Readable(p)
        /\ kept' = [kept EXCEPT ![p] = fd[p]]
        /\ orig' = [orig EXCEPT ![p] = content[fd[p]]]
        /\ lock' = Unlocked(p)
        /\ fd' = [fd EXCEPT ![p] = None]
        /\ Goto(p, "open")
        /\ UNCHANGED <<fsvars, req, temp, result>>
     \/ (~Readable(p) \/ IoFaults) /\ Refuse(p)

(* apply_planned_replacement accepts only the inode and the bytes that were planned. *)
PlanHolds(p) == Op(p) = "bulk" => fd[p] = kept[p] /\ content[fd[p]] = orig[p]

ReadTarget(p) ==
  /\ pc[p] = "read" /\ Op(p) # "chmod" /\ ~FirstPass(p)
  /\ \/ /\ Readable(p) /\ PlanHolds(p)
        /\ orig' = [orig EXCEPT ![p] = content[fd[p]]]
        /\ Goto(p, "stage")
        /\ UNCHANGED <<fsvars, lock, req, fd, kept, temp, result>>
     \/ (~(Readable(p) /\ PlanHolds(p)) \/ IoFaults) /\ Refuse(p)

(***************************************************************************)
(* Staging and publishing a replacement.                                   *)
(***************************************************************************)
Stage(p) ==
  /\ pc[p] = "stage"
  /\ \/ \E i \in Inodes :
          /\ Free(i)
          /\ temp' = [temp EXCEPT ![p] = i]
          /\ content' = [content EXCEPT ![i] = Torn]
          /\ mode' = [mode EXCEPT ![i] = NewMode]
          /\ durable' = durable \ {i}
          /\ Goto(p, "write")
          /\ UNCHANGED <<dir, orphan, lock, req, fd, kept, orig, result>>
     \/ (IoFaults \/ \A i \in Inodes : ~Free(i)) /\ Refuse(p)

Fault(p) ==
  /\ IoFaults
  /\ Goto(p, "discard")
  /\ UNCHANGED <<fsvars, lock, req, fd, kept, temp, orig, result>>

Write(p) ==
  /\ pc[p] = "write"
  /\ \/ /\ content' = [content EXCEPT ![temp[p]] = Planned(p)]
        /\ Goto(p, "sync")
        /\ UNCHANGED <<dir, mode, durable, orphan, lock, req, fd, kept, temp, orig, result>>
     \/ Fault(p)

(* Faulty variant of Sync: the fsync is left out. *)
SyncSkipped(p) ==
  /\ pc[p] = "sync"
  /\ Goto(p, IF Op(p) = "create" THEN "link" ELSE "mode")
  /\ UNCHANGED <<fsvars, lock, req, fd, kept, temp, orig, result>>

Sync(p) ==
  /\ pc[p] = "sync"
  /\ \/ /\ durable' = durable \cup {temp[p]}
        /\ Goto(p, IF Op(p) = "create" THEN "link" ELSE "mode")
        /\ UNCHANGED <<dir, content, mode, orphan, lock, req, fd, kept, temp, orig, result>>
     \/ Fault(p)

(* Faulty variant of CopyMode: the new file keeps the mode it was created with. *)
CopyModeSkipped(p) ==
  /\ pc[p] = "mode"
  /\ Goto(p, "current")
  /\ UNCHANGED <<fsvars, lock, req, fd, kept, temp, orig, result>>

(* The temporary file takes over the target's permission bits before it becomes the target. *)
CopyMode(p) ==
  /\ pc[p] = "mode"
  /\ \/ /\ mode' = [mode EXCEPT ![temp[p]] = mode[fd[p]]]
        /\ Goto(p, "current")
        /\ UNCHANGED <<dir, content, durable, orphan, lock, req, fd, kept, temp, orig, result>>
     \/ Fault(p)

Revalidate(p) ==
  /\ pc[p] = "current"
  /\ \/ StillCurrent(p) /\ Goto(p, "rename")
     \/ (~StillCurrent(p) \/ IoFaults) /\ Goto(p, "discard")
  /\ UNCHANGED <<fsvars, lock, req, fd, kept, temp, orig, result>>

Rename(p) ==
  /\ pc[p] = "rename"
  /\ \/ /\ dir' = [dir EXCEPT ![Target(p)] = temp[p]]
        /\ temp' = [temp EXCEPT ![p] = None]
        /\ Goto(p, "release")
        /\ UNCHANGED <<content, mode, durable, orphan, lock, req, fd, kept, orig, result>>
     \/ Fault(p)

(* Faulty variant of Discard: the reply does not tell. *)
DiscardQuietly(p) ==
  /\ pc[p] = "discard"
  /\ temp' = [temp EXCEPT ![p] = None] /\ orphan' = orphan
  /\ Reply(p, "ok")
  /\ UNCHANGED <<dir, content, mode, durable, req, orig>>

(* Removing the temporary name may itself fail; the file then stays behind. *)
RemoveTemp(p) ==
  /\ temp' = [temp EXCEPT ![p] = None]
  /\ \/ orphan' = orphan
     \/ IoFaults /\ orphan' = orphan \cup {temp[p]}

Discard(p) ==
  /\ pc[p] = "discard"
  /\ RemoveTemp(p)
  /\ Reply(p, "error")
  /\ UNCHANGED <<dir, content, mode, durable, req, orig>>

(***************************************************************************)
(* set_file_executable_in_root: compare and change the mode in place.      *)
(***************************************************************************)

(* Faulty variant of OnlyLink: hard links are not counted. *)
OnlyLinkAssumed(p) == fd[p] # None

(* ensure_single_hard_link: one name, which need not be the path that was opened. *)
OnlyLink(p) == \E n \in Names(fd[p]) : Names(fd[p]) = {n}

(* Faulty variant of Inspect: the mode is not compared with the expected one. *)
InspectAnyMode(p) ==
  /\ pc[p] = "read" /\ Op(p) = "chmod"
  /\ Readable(p) /\ OnlyLink(p)
  /\ orig' = [orig EXCEPT ![p] = content[fd[p]]]
  /\ Goto(p, IF req[p].to = req[p].from THEN "release" ELSE "checked")
  /\ UNCHANGED <<fsvars, lock, req, fd, kept, temp, result>>

(* A mode that need not change ends the call here: the path is not walked again. *)
Inspect(p) ==
  /\ pc[p] = "read" /\ Op(p) = "chmod"
  /\ LET asExpected == Readable(p) /\ OnlyLink(p) /\ mode[fd[p]] = req[p].from
     IN \/ /\ asExpected
           /\ orig' = [orig EXCEPT ![p] = content[fd[p]]]
           /\ Goto(p, IF req[p].to = req[p].from THEN "release" ELSE "checked")
           /\ UNCHANGED <<fsvars, lock, req, fd, kept, temp, result>>
        \/ (~asExpected \/ IoFaults) /\ Refuse(p)

RevalidateMode(p) ==
  /\ pc[p] = "checked"
  /\ \/ /\ StillCurrent(p) /\ OnlyLink(p)
        /\ Goto(p, "fchmod")
        /\ UNCHANGED <<fsvars, lock, req, fd, kept, temp, orig, result>>
     \/ (~(StillCurrent(p) /\ OnlyLink(p)) \/ IoFaults) /\ Refuse(p)

Fchmod(p) ==
  /\ pc[p] = "fchmod"
  /\ \/ /\ mode' = [mode EXCEPT ![fd[p]] = req[p].to]
        /\ Goto(p, "verify")
        /\ UNCHANGED <<dir, content, durable, orphan, lock, req, fd, kept, temp, orig, result>>
     \/ IoFaults /\ Refuse(p)

(* The mode and the digest are read back. *)
VerifyMode(p) ==
  /\ pc[p] = "verify"
  /\ LET held == mode[fd[p]] = req[p].to /\ content[fd[p]] = orig[p]
     IN \/ /\ held
           /\ Goto(p, "release")
           /\ UNCHANGED <<fsvars, lock, req, fd, kept, temp, orig, result>>
        \/ (~held \/ IoFaults) /\ Refuse(p)

(***************************************************************************)
(* create_new_file_in_root: no lock, a no-overwrite link instead.          *)
(***************************************************************************)
Probe(p) ==
  /\ pc[p] = "probe"
  /\ \/ /\ dir[Target(p)] = None
        /\ Goto(p, "stage")
        /\ UNCHANGED <<fsvars, lock, req, fd, kept, temp, orig, result>>
     \/ (dir[Target(p)] # None \/ IoFaults) /\ Refuse(p)

(* Faulty variant of Link: a rename, which overwrites, in place of the link. *)
LinkOverwriting(p) ==
  /\ pc[p] = "link"
  /\ dir' = [dir EXCEPT ![Target(p)] = temp[p]]
  /\ Goto(p, "unlink")
  /\ UNCHANGED <<content, mode, durable, orphan, lock, req, fd, kept, temp, orig, result>>

Link(p) ==
  /\ pc[p] = "link"
  /\ \/ /\ dir[Target(p)] = None
        /\ dir' = [dir EXCEPT ![Target(p)] = temp[p]]
        /\ Goto(p, "unlink")
        /\ UNCHANGED <<content, mode, durable, orphan, lock, req, fd, kept, temp, orig, result>>
     \/ /\ dir[Target(p)] # None
        /\ Goto(p, "discard")
        /\ UNCHANGED <<fsvars, lock, req, fd, kept, temp, orig, result>>
     \/ Fault(p)

(* If the temporary name cannot be removed the call fails, although the file was published. *)
Unlink(p) ==
  /\ pc[p] = "unlink"
  /\ \/ /\ temp' = [temp EXCEPT ![p] = None]
        /\ Goto(p, "release")
        /\ UNCHANGED <<fsvars, lock, req, fd, kept, orig, result>>
     \/ /\ IoFaults
        /\ RemoveTemp(p)
        /\ Reply(p, "error")
        /\ UNCHANGED <<dir, content, mode, durable, req, orig>>

(***************************************************************************)
(* Returning, and the end of a process.                                    *)
(***************************************************************************)
Release(p) ==
  /\ pc[p] = "release"
  /\ Reply(p, "ok")
  /\ UNCHANGED <<fsvars, req, temp, orig>>

Return(p) ==
  /\ pc[p] = "done"
  /\ Goto(p, "idle")
  /\ req' = [req EXCEPT ![p] = None]
  /\ orig' = [orig EXCEPT ![p] = None]
  /\ result' = [result EXCEPT ![p] = None]
  /\ UNCHANGED <<fsvars, lock, fd, kept, temp>>

(* A killed process loses its locks and handles; its temporary files stay. *)
Gone(S) ==
  /\ pc' = [p \in Callers |-> IF p \in S THEN "idle" ELSE pc[p]]
  /\ lock' = [i \in Inodes |-> IF lock[i] \in S THEN None ELSE lock[i]]
  /\ orphan' = orphan \cup ({temp[p] : p \in S} \ {None})
  /\ req' = [p \in Callers |-> IF p \in S THEN None ELSE req[p]]
  /\ fd' = [p \in Callers |-> IF p \in S THEN None ELSE fd[p]]
  /\ kept' = [p \in Callers |-> IF p \in S THEN None ELSE kept[p]]
  /\ temp' = [p \in Callers |-> IF p \in S THEN None ELSE temp[p]]
  /\ orig' = [p \in Callers |-> IF p \in S THEN None ELSE orig[p]]
  /\ result' = [p \in Callers |-> IF p \in S THEN None ELSE result[p]]
  /\ UNCHANGED <<dir, mode>>

Kill(S) ==
  /\ MayCrash
  /\ S # {} /\ \A p \in S : pc[p] # "idle"
  /\ Gone(S)
  /\ UNCHANGED <<content, durable>>

(* Power loss: bytes that were not fsynced are gone.  Directory entries are taken as durable. *)
PowerLoss ==
  /\ MayCrash
  /\ Gone(Callers)
  /\ content' = [i \in Inodes |-> IF i \in durable THEN content[i] ELSE Torn]
  /\ durable' = Inodes

Step(p) ==
  \/ Open(p) \/ Lock(p) \/ ReadFirstPass(p) \/ ReadTarget(p)
  \/ Stage(p) \/ Write(p) \/ Sync(p) \/ CopyMode(p) \/ Revalidate(p) \/ Rename(p) \/ Discard(p)
  \/ Inspect(p) \/ RevalidateMode(p) \/ Fchmod(p) \/ VerifyMode(p)
  \/ Probe(p) \/ Link(p) \/ Unlink(p)
  \/ Release(p) \/ Return(p)

Next ==
  \/ \E p \in Callers : Start(p) \/ Step(p)
  \/ \E S \in SUBSET Callers : Kill(S)
  \/ PowerLoss

Spec == Init /\ [][Next]_vars

-----------------------------------------------------------------------------
TypeOK ==
  /\ dir \in [Paths -> Inodes \cup {None}]
  /\ content \in [Inodes -> Contents \cup {Torn}]
  /\ mode \in [Inodes -> Modes]
  /\ durable \subseteq Inodes
  /\ orphan \subseteq Inodes
  /\ lock \in [Inodes -> Callers \cup {None}]
  /\ pc \in [Callers -> PCs]
  /\ req \in [Callers -> Requests \cup {None}]
  /\ fd \in [Callers -> Inodes \cup {None}]
  /\ kept \in [Callers -> Inodes \cup {None}]
  /\ temp \in [Callers -> Inodes \cup {None}]
  /\ orig \in [Callers -> Contents \cup {None}]
  /\ result \in [Callers -> {"ok", "error", None}]

(***************************************************************************)
(* A path never names a file that is partly written, nor one that a power  *)
(* loss would leave partly written: whatever is cut short, readers find    *)
(* the old bytes or the new ones (safety-contract rule 4; the sync_all     *)
(* before renameat and linkat).                                            *)
(***************************************************************************)
NoTornFile ==
  \A q \in Paths : dir[q] # None => dir[q] \in durable /\ content[dir[q]] \in Contents

(***************************************************************************)
(* What an edit checked still holds when it acts on it.  Between the last  *)
(* revalidation and renameat (or fchmod) the path names the opened inode,  *)
(* its bytes are the verified ones, and, for a replacement, its mode is    *)
(* the one the temporary file took over, whatever other callers do.        *)
(***************************************************************************)
CheckStillHolds ==
  \A p \in Callers :
    pc[p] \in {"rename", "fchmod"} =>
      /\ StillCurrent(p)
      /\ content[fd[p]] = orig[p]
      /\ mode[fd[p]] = IF Op(p) = "chmod" THEN req[p].from ELSE mode[temp[p]]

(***************************************************************************)
(* The inductive invariant: CheckStillHolds and NoTornFile follow from the *)
(* lock on the opened inode and from the privacy of temporary files.       *)
(***************************************************************************)
Holding(p) ==
  /\ pc[p] \in {"read", "stage", "write", "sync", "mode", "current", "rename", "discard",
                "checked", "fchmod", "verify", "release"}
  /\ Op(p) # "create"
  /\ Op(p) = "hash" => SecondPass(p)

(* A caller past its try-lock owns the lock named after the inode it opened. *)
LockOnOpenedInode == \A p \in Callers : Holding(p) => fd[p] \in Inodes /\ lock[fd[p]] = p

(* Which request each step serves. *)
StepOfRequest ==
  \A p \in Callers :
    /\ pc[p] # "idle" => req[p] \in Requests
    /\ pc[p] \in {"open", "lock", "read"} => Op(p) # "create"
    /\ pc[p] \in {"lock", "read"} => fd[p] \in Inodes
    /\ pc[p] \in {"stage", "write", "sync", "discard"} => Op(p) # "chmod"
    /\ pc[p] \in {"mode", "current", "rename"} => Op(p) \in {"replace", "bulk", "hash"}
    /\ pc[p] \in {"stage", "write", "sync", "mode", "current", "rename", "discard", "release"} => ~FirstPass(p)
    /\ pc[p] \in {"checked", "fchmod", "verify"} => Op(p) = "chmod"
    /\ pc[p] \in {"probe", "link", "unlink"} => Op(p) = "create"
    /\ pc[p] = "done" => result[p] \in {"ok", "error"}

(* Until it is published, a temporary file is known to its owner alone. *)
Private(p) == pc[p] \in {"write", "sync", "mode", "current", "rename", "link", "discard"}

TempIsPrivate ==
  \A p \in Callers :
    /\ Private(p) =>
         /\ temp[p] \in Inodes
         /\ \A q \in Paths : dir[q] # temp[p]
         /\ \A r \in Callers : temp[p] \notin {fd[r], kept[r]} /\ (r # p => temp[p] # temp[r])
    /\ pc[p] = "unlink" => temp[p] \in Inodes
    /\ pc[p] \notin {"write", "sync", "mode", "current", "rename", "link", "discard", "unlink"} => temp[p] = None

(* The temporary file holds the planned bytes, on disk, under the mode it must have. *)
TempIsPlanned ==
  \A p \in Callers :
    /\ pc[p] \in {"sync", "mode", "current", "rename", "link"} => content[temp[p]] = Planned(p)
    /\ pc[p] \in {"mode", "current", "rename", "link"} => temp[p] \in durable
    /\ pc[p] \in {"current", "rename"} => mode[temp[p]] = mode[fd[p]]
    /\ pc[p] \in {"write", "sync", "link"} /\ Op(p) = "create" => mode[temp[p]] = NewMode

(* The bytes an edit was planned on are the bytes of the inode it holds. *)
VerifiedBytes ==
  \A p \in Callers :
    pc[p] \in {"stage", "write", "sync", "mode", "current", "rename", "checked", "fchmod", "verify"}
      /\ Op(p) # "create" =>
        /\ orig[p] \in DOMAIN req[p].edit
        /\ content[fd[p]] = orig[p]

(* In the commit window the path still names that inode; a mode change has it alone. *)
CommitWindow ==
  \A p \in Callers :
    /\ pc[p] \in {"rename", "fchmod", "verify"} => StillCurrent(p)
    /\ pc[p] \in {"checked", "fchmod"} => mode[fd[p]] = req[p].from
    /\ pc[p] = "fchmod" => \A q \in Paths : dir[q] = fd[p] => q = Target(p)
    /\ pc[p] = "verify" => mode[fd[p]] = req[p].to

IInv ==
  /\ TypeOK
  /\ LockOnOpenedInode
  /\ StepOfRequest
  /\ TempIsPrivate
  /\ TempIsPlanned
  /\ VerifiedBytes
  /\ CommitWindow
  /\ NoTornFile

(***************************************************************************)
(* The refinement mapping: a path holds what its inode holds; an edit is   *)
(* applied once renameat, linkat or fchmod returned.                       *)
(***************************************************************************)
FileView ==
  [q \in Paths |-> IF dir[q] = None THEN None
                    ELSE [content |-> content[dir[q]], mode |-> mode[dir[q]]]]

Progress(p) ==
  CASE pc[p] \in {"unlink", "verify", "release"} -> "applied"
    [] pc[p] = "done" -> result[p]
    [] OTHER -> "pending"

CallView ==
  [p \in Callers |-> IF pc[p] = "idle" THEN None ELSE [req |-> req[p], state |-> Progress(p)]]

Atomic == INSTANCE AtomicFile WITH file <- FileView, call <- CallView

(***************************************************************************)
(* Every guarded edit is a compare-and-swap: whatever the interleaving,    *)
(* each call takes effect at one instant on the content and the mode the   *)
(* path has at that instant, no update is lost, an "ok" reply means it was *)
(* applied, an "error" reply that it was not (with AtomicFile's exceptions).*)
(***************************************************************************)
ImplementsAtomicFile == Atomic!Spec
=============================================================================
