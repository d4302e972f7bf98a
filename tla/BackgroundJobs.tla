--------------------------- MODULE BackgroundJobs ---------------------------
(***************************************************************************)
(* Background jobs and command logs                                        *)
(* (crates/server/src/tools/process/jobs.rs and mod.rs).                   *)
(*                                                                         *)
(* A job takes one of the permits, writes an initial log and the status    *)
(* "running", and gets a thread; its log id is returned at once.  When the *)
(* work ends, the thread replaces the log, then the status, then drops the *)
(* permit.  read_command_log reads the status and then the log.  The files *)
(* outlive the server, the permits and the threads do not.                 *)
(***************************************************************************)
EXTENDS Naturals, FiniteSets

CONSTANTS
  Jobs,           \* the attempts to start a job, each with a log id of its own
  MaxJobs,        \* MAX_ACTIVE_BACKGROUND_JOBS
  MaxInstances,   \* bound on the servers that run one after the other
  WriteFaults,    \* whether a write of a log or a status may fail
  NoThreads,      \* whether a thread may fail to start
  None

VARIABLES
  instance,       \* which server is running
  active,         \* ACTIVE_BACKGROUND_JOBS
  seen,           \* seen[j]: the value of the counter that try_acquire last observed
  starter,        \* starter[j]: how far start_background_job is
  worker,         \* worker[j]: how far the job's thread is
  outcome,        \* outcome[j]: the status the work ended with
  log,            \* log[j]: what the log file holds
  status,         \* status[j]: the status file, its status and the server that wrote it
  returned,       \* jobs whose log id the client got
  poll            \* the last answer of read_command_log, perhaps half made

vars == <<instance, active, seen, starter, worker, outcome, log, status, returned, poll>>

Ends == {"completed", "failed", "timed_out"}
Logs == {"partial", "initial", "failure", "final"}
Statuses == [status: Ends \cup {"running"}, owner: 1..MaxInstances]

ASSUME ConstantsAreSane ==
  /\ MaxJobs \in Nat \ {0} /\ MaxInstances \in Nat \ {0} /\ IsFiniteSet(Jobs)
  /\ WriteFaults \in BOOLEAN /\ NoThreads \in BOOLEAN
  /\ None \notin Jobs /\ None \notin Logs /\ None \notin Statuses


Init ==
  /\ instance = 1 /\ active = 0
  /\ seen = [j \in Jobs |-> 0]
  /\ starter = [j \in Jobs |-> "idle"]
  /\ worker = [j \in Jobs |-> "none"]
  /\ outcome = [j \in Jobs |-> None]
  /\ log = [j \in Jobs |-> None]
  /\ status = [j \in Jobs |-> None]
  /\ returned = {}
  /\ poll = None

files == <<log, status>>
Starter(j, from, to) == starter[j] = from /\ starter' = [starter EXCEPT ![j] = to]
Worker(j, from, to) == worker[j] = from /\ worker' = [worker EXCEPT ![j] = to]

-----------------------------------------------------------------------------
(* start_background_job. *)

Load(j) ==
  /\ Starter(j, "idle", "acquire")
  /\ seen' = [seen EXCEPT ![j] = active]
  /\ UNCHANGED <<instance, active, worker, outcome, files, returned, poll>>

(* Faulty variant of Acquire: a plain store instead of the compare and exchange. *)
AcquireBlindly(j) ==
  /\ \/ seen[j] >= MaxJobs /\ Starter(j, "acquire", "refused") /\ UNCHANGED active
     \/ seen[j] < MaxJobs /\ Starter(j, "acquire", "open") /\ active' = seen[j] + 1
  /\ UNCHANGED <<instance, seen, worker, outcome, files, returned, poll>>

(* One turn of try_acquire's loop; an exchange that fails brings the current value. *)
Acquire(j) ==
  /\ \/ /\ seen[j] >= MaxJobs
        /\ Starter(j, "acquire", "refused")
        /\ UNCHANGED <<active, seen>>
     \/ /\ seen[j] < MaxJobs /\ active = seen[j]
        /\ Starter(j, "acquire", "open")
        /\ active' = active + 1
        /\ UNCHANGED seen
     \/ /\ seen[j] < MaxJobs /\ active # seen[j]
        /\ Starter(j, "acquire", "acquire")
        /\ seen' = [seen EXCEPT ![j] = active]
        /\ UNCHANGED active
  /\ UNCHANGED <<instance, worker, outcome, files, returned, poll>>

(* A refusal before the thread exists drops the permit. *)
Refuse(j, from) == Starter(j, from, "refused") /\ active' = active - 1

(* fs::write truncates the file and then fills it. *)
OpenInitialLog(j) ==
  /\ \/ /\ Starter(j, "open", "fill")
        /\ log' = [log EXCEPT ![j] = "partial"]
        /\ UNCHANGED active
     \/ WriteFaults /\ Refuse(j, "open") /\ UNCHANGED log
  /\ UNCHANGED <<instance, seen, worker, outcome, status, returned, poll>>

FillInitialLog(j) ==
  /\ \/ /\ Starter(j, "fill", "running")
        /\ log' = [log EXCEPT ![j] = "initial"]
        /\ UNCHANGED active
     \/ WriteFaults /\ Refuse(j, "fill") /\ UNCHANGED log
  /\ UNCHANGED <<instance, seen, worker, outcome, status, returned, poll>>

(* write_command_status renames a temporary file: the status changes at once or not at all. *)
Published(j, s) == status' = [status EXCEPT ![j] = [status |-> s, owner |-> instance]]

PublishRunning(j) ==
  /\ \/ Starter(j, "running", "spawn") /\ Published(j, "running") /\ UNCHANGED active
     \/ WriteFaults /\ Refuse(j, "running") /\ UNCHANGED status
  /\ UNCHANGED <<instance, seen, worker, outcome, log, returned, poll>>

(* A thread that cannot start drops the closure and the permit in it. *)
Spawn(j) ==
  /\ \/ /\ Starter(j, "spawn", "return")
        /\ worker' = [worker EXCEPT ![j] = "work"]
        /\ UNCHANGED active
     \/ /\ NoThreads
        /\ Starter(j, "spawn", "unspawned")
        /\ active' = active - 1
        /\ UNCHANGED worker
  /\ UNCHANGED <<instance, seen, outcome, files, returned, poll>>

(* The failure to start is logged as well as possible; errors are ignored. *)
LogSpawnFailure(j) ==
  /\ Starter(j, "unspawned", "disown")
  /\ log' \in {[log EXCEPT ![j] = t] : t \in {"failure"} \cup (IF WriteFaults THEN {log[j], "partial"} ELSE {})}
  /\ UNCHANGED <<instance, active, seen, worker, outcome, status, returned, poll>>

PublishSpawnFailure(j) ==
  /\ Starter(j, "disown", "refused")
  /\ Published(j, "failed") \/ (WriteFaults /\ UNCHANGED status)
  /\ UNCHANGED <<instance, active, seen, worker, outcome, log, returned, poll>>

ReturnLogId(j) ==
  /\ Starter(j, "return", "started")
  /\ returned' = returned \cup {j}
  /\ UNCHANGED <<instance, active, seen, worker, outcome, files, poll>>

-----------------------------------------------------------------------------
(* The job's thread. *)

(* An error and a panic of the work end as "failed". *)
Work(j) ==
  /\ Worker(j, "work", "open")
  /\ \E o \in Ends : outcome' = [outcome EXCEPT ![j] = o]
  /\ UNCHANGED <<instance, active, seen, starter, files, returned, poll>>

OpenFinalLog(j) ==
  /\ \/ Worker(j, "open", "fill") /\ log' = [log EXCEPT ![j] = "partial"]
     \/ WriteFaults /\ Worker(j, "open", "unlogged") /\ UNCHANGED log
  /\ UNCHANGED <<instance, active, seen, starter, outcome, status, returned, poll>>

(* Faulty variant of FillFinalLog: an error is ignored. *)
FillFinalLogIgnored(j) ==
  /\ Worker(j, "fill", "publish")
  /\ log' = [log EXCEPT ![j] = "final"] \/ (WriteFaults /\ UNCHANGED log)
  /\ UNCHANGED <<instance, active, seen, starter, outcome, status, returned, poll>>

FillFinalLog(j) ==
  /\ \/ Worker(j, "fill", "publish") /\ log' = [log EXCEPT ![j] = "final"]
     \/ WriteFaults /\ Worker(j, "fill", "unlogged") /\ UNCHANGED log
  /\ UNCHANGED <<instance, active, seen, starter, outcome, status, returned, poll>>

(* Faulty variant of PublishUnlogged: the thread just ends. *)
PublishUnloggedSkipped(j) ==
  /\ Worker(j, "unlogged", "drop")
  /\ UNCHANGED <<instance, active, seen, starter, outcome, files, returned, poll>>

(* Without its log the job counts as failed, whatever it did. *)
PublishUnlogged(j) ==
  /\ \/ Worker(j, "unlogged", "drop") /\ Published(j, "failed")
     \/ WriteFaults /\ Worker(j, "unlogged", "drop unpublished") /\ UNCHANGED status
  /\ UNCHANGED <<instance, active, seen, starter, outcome, log, returned, poll>>

PublishOutcome(j) ==
  /\ \/ Worker(j, "publish", "drop") /\ Published(j, outcome[j])
     \/ WriteFaults /\ Worker(j, "publish", "drop unpublished") /\ UNCHANGED status
  /\ UNCHANGED <<instance, active, seen, starter, outcome, log, returned, poll>>

(* Faulty variant of DropPermit: only a job with a published status gives its permit back. *)
DropPermitIfPublished(j) ==
  /\ Worker(j, "drop", "over")
  /\ active' = active - 1
  /\ UNCHANGED <<instance, seen, starter, outcome, files, returned, poll>>

DropPermit(j) ==
  /\ \/ Worker(j, "drop", "over")
     \/ Worker(j, "drop unpublished", "unpublished")
  /\ active' = active - 1
  /\ UNCHANGED <<instance, seen, starter, outcome, files, returned, poll>>

-----------------------------------------------------------------------------
(* read_command_log. *)

(* Faulty variant of Reported: the owner of a running job is not looked at. *)
ReportedByFile(j) == IF status[j] = None THEN "completed" ELSE status[j].status

(* command_log_status. *)
Reported(j) ==
  IF status[j] = None THEN "completed"
  ELSE IF status[j].status = "running" /\ status[j].owner # instance THEN "unknown"
  ELSE status[j].status

HalfRead == poll # None /\ poll.log = None

ReadStatus(j) ==
  /\ j \in returned /\ ~HalfRead
  /\ poll' = [job |-> j, status |-> Reported(j), log |-> None]
  /\ UNCHANGED <<instance, active, seen, starter, worker, outcome, files, returned>>

ReadLog ==
  /\ HalfRead
  /\ poll' = [poll EXCEPT !.log = log[poll.job]]
  /\ UNCHANGED <<instance, active, seen, starter, worker, outcome, files, returned>>

-----------------------------------------------------------------------------
(* The server ends, and another one is started: nothing but the files is left. *)
Restart ==
  /\ instance < MaxInstances
  /\ instance' = instance + 1
  /\ active' = 0
  /\ starter' = [j \in Jobs |-> IF starter[j] \in {"idle", "refused", "started"} THEN starter[j] ELSE "dead"]
  /\ worker' = [j \in Jobs |-> IF worker[j] \in {"none", "over", "unpublished"} THEN worker[j] ELSE "dead"]
  /\ poll' = None
  /\ UNCHANGED <<seen, outcome, files, returned>>

Starting(j) ==
  \/ Acquire(j) \/ OpenInitialLog(j) \/ FillInitialLog(j) \/ PublishRunning(j) \/ Spawn(j)
  \/ LogSpawnFailure(j) \/ PublishSpawnFailure(j) \/ ReturnLogId(j)
Running(j) ==
  \/ Work(j) \/ OpenFinalLog(j) \/ FillFinalLog(j) \/ PublishUnlogged(j) \/ PublishOutcome(j)
  \/ DropPermit(j)

Next ==
  \/ \E j \in Jobs : Load(j) \/ Starting(j) \/ Running(j) \/ ReadStatus(j)
  \/ ReadLog \/ Restart

Spec == Init /\ [][Next]_vars

(* Threads are scheduled, and the work ends: each tool runs its commands under time-outs. *)
FairSpec == Spec /\ \A j \in Jobs : WF_vars(Starting(j)) /\ WF_vars(Running(j))

-----------------------------------------------------------------------------
TypeOK ==
  /\ instance \in 1..MaxInstances /\ active \in 0..MaxJobs
  /\ seen \in [Jobs -> 0..MaxJobs]
  /\ starter \in [Jobs -> {"idle", "acquire", "open", "fill", "running", "spawn", "unspawned", "disown",
                           "return", "started", "refused", "dead"}]
  /\ worker \in [Jobs -> {"none", "work", "open", "fill", "unlogged", "publish", "drop",
                          "drop unpublished", "over", "unpublished", "dead"}]
  /\ outcome \in [Jobs -> Ends \cup {None}]
  /\ log \in [Jobs -> Logs \cup {None}]
  /\ status \in [Jobs -> Statuses \cup {None}]
  /\ returned \subseteq Jobs
  /\ poll \in [job: Jobs, status: Ends \cup {"running", "unknown"}, log: Logs \cup {None}] \cup {None}

Alive(j) == worker[j] \notin {"none", "over", "unpublished", "dead"}
Holders == {j \in Jobs : starter[j] \in {"open", "fill", "running", "spawn"} \/ Alive(j)}

(***************************************************************************)
(* The counter is the number of jobs that hold a permit, through refusals, *)
(* failed spawns, failed writes and restarts: at most MaxJobs run at once  *)
(* (tool-spec.md:1042), and no permit leaks.                               *)
(***************************************************************************)
PermitsAccounted == active = Cardinality(Holders) /\ active <= MaxJobs

(***************************************************************************)
(* What read_command_log says of a job is true, whichever write failed and *)
(* whichever server asks: a success or a time-out is the job's own, a      *)
(* failure that is not is one whose log was lost; "running" is said by the *)
(* job's own server only, and unless the last write failed the job does    *)
(* run; work that was cut off by the end of its server is "unknown"        *)
(* (safety-contract.md:266, tool-spec.md:1012).                            *)
(***************************************************************************)
HonestStatus ==
  \A j \in returned :
    /\ Reported(j) \in {"completed", "timed_out"} => outcome[j] = Reported(j)
    /\ Reported(j) = "failed" => outcome[j] = "failed" \/ log[j] # "final"
    /\ Reported(j) = "running" => Alive(j) \/ worker[j] = "unpublished"
    /\ Reported(j) = "unknown" => worker[j] \in {"dead", "unpublished"} /\ status[j].owner < instance

(***************************************************************************)
(* A poll that reports the end of a job shows its whole final log, though  *)
(* the status and the log are two files that are read and written apart.   *)
(***************************************************************************)
PollShowsFinalLog ==
  poll # None /\ poll.status \in {"completed", "timed_out"} /\ poll.log # None => poll.log = "final"

(* What a poll says of a job is true, a finished job shows its final log,  *)
(* and the permits agree with the threads that hold them (jobs.rs, mod.rs).*)
HonestJobs == TypeOK /\ PermitsAccounted /\ HonestStatus /\ PollShowsFinalLog

(***************************************************************************)
(* A job whose id was returned ends up with a status that is not           *)
(* "running", unless the write of its last status fails.                   *)
(***************************************************************************)
EveryJobIsSettled ==
  \A j \in Jobs : j \in returned ~> Reported(j) # "running" \/ worker[j] = "unpublished"

(* A permit comes back however its job ends. *)
EveryPermitReturns == \A j \in Jobs : j \in Holders ~> j \notin Holders
=============================================================================
