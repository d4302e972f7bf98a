---------------------------- MODULE ProcessProofs ----------------------------
(***************************************************************************)
(* What a poll says of a background job is true, for any number of jobs,   *)
(* permits and servers; and what a bounded run returns is true, for any    *)
(* sizes of pipes and captures and any program.  HonestStatus says nothing *)
(* of a job that is on its way, and a poll compares two files that are     *)
(* read and written apart, so the first inductive invariant follows each   *)
(* job through its steps: what its log and its status hold while its       *)
(* starter, and then its thread, is where it is, and what stays true of    *)
(* them after a restart.  The second, RunInv, says that the bytes of a     *)
(* stream are numbered: what was captured is both ends of the first so     *)
(* many, the pipe holds the next ones, and nothing else was written; and   *)
(* which of the child, its group and the readers may still be there at     *)
(* each step of the calling thread.                                        *)
(***************************************************************************)
EXTENDS MCProcesses, SequenceTheorems, FiniteSetTheorems, TLAPS

-----------------------------------------------------------------------------
(* Background jobs.                                                        *)

(* The starter and the thread of a job know of each other. *)
Starters == {"idle", "acquire", "open", "fill", "running", "spawn", "unspawned", "disown", "refused"}
Handed(j) ==
  /\ starter[j] \in Starters => worker[j] = "none"
  /\ starter[j] \in {"return", "started"} => worker[j] # "none"
  /\ Alive(j) => starter[j] \in {"return", "started"}
  /\ j \in returned => starter[j] = "started"

(* The log is whole only when the thread has filled it. *)
LogFollows(j) ==
  /\ starter[j] \in Starters => log[j] # "final"
  /\ worker[j] \in {"work", "open", "fill", "unlogged"} => log[j] # "final"
  /\ worker[j] = "publish" => log[j] = "final" /\ outcome[j] \in Ends
  /\ worker[j] \in {"open", "fill"} => outcome[j] \in Ends

(* The status of a job whose last status was written, and of one whose was not. *)
Closed(j) ==
  /\ status[j] # None /\ status[j].status \in Ends
  /\ status[j].status = "failed" => outcome[j] = "failed" \/ log[j] # "final"
  /\ status[j].status # "failed" => outcome[j] = status[j].status /\ log[j] = "final"
Left(j) == status[j] # None /\ status[j].status = "running"

StatusFollows(j) ==
  /\ starter[j] = "spawn" \/ worker[j] \in {"work", "open", "fill", "unlogged", "publish", "drop unpublished"}
       => Left(j) /\ status[j].owner = instance
  /\ worker[j] \in {"drop", "over"} => Closed(j)
  /\ worker[j] = "unpublished" => Left(j) /\ status[j].owner <= instance
  /\ worker[j] = "dead" => Closed(j) \/ (Left(j) /\ status[j].owner < instance)

Job(j) == Handed(j) /\ LogFollows(j) /\ StatusFollows(j)

(* What the last poll saw is still so. *)
PollHolds ==
  poll # None => /\ poll.job \in returned
                 /\ poll.status \in {"completed", "timed_out"} =>
                      /\ status[poll.job] # None /\ status[poll.job].status = poll.status
                      /\ poll.log # None => poll.log = "final"

IInv == TypeOK /\ PermitsAccounted /\ (\A j \in Jobs : Job(j)) /\ PollHolds

-----------------------------------------------------------------------------
LEMMA Constants ==
  /\ MaxJobs \in Nat \ {0} /\ MaxInstances \in Nat \ {0} /\ IsFiniteSet(Jobs)
  /\ WriteFaults \in BOOLEAN /\ NoThreads \in BOOLEAN
  /\ None \notin Jobs /\ None \notin Logs /\ None \notin Statuses
BY ConstantsAreSane

LEMMA HoldersAreFinite ==
  /\ IsFiniteSet(Holders) /\ Cardinality(Holders) \in Nat
  /\ IsFiniteSet(Holders') /\ Cardinality(Holders') \in Nat
<1>1. Holders \subseteq Jobs /\ Holders' \subseteq Jobs
  BY DEF Holders
<1>. QED  BY <1>1, Constants, FS_Subset, FS_CardinalityType

(* A step of one job changes nothing of the others. *)
Alone(j) ==
  \A k \in Jobs \ {j} :
    /\ starter'[k] = starter[k] /\ worker'[k] = worker[k] /\ outcome'[k] = outcome[k]
    /\ log'[k] = log[k] /\ status'[k] = status[k]
    /\ k \in returned' => k \in returned

(* A step that leaves the permit of its job where it is. *)
LEMMA KeepsPermits ==
  ASSUME IInv, NEW j \in Jobs, Alone(j), active' = active, (j \in Holders)' <=> j \in Holders
  PROVE  PermitsAccounted' /\ active' \in 0..MaxJobs
<1>1. Holders' = Holders
  BY DEF Holders, Alive, Alone
<1>. QED  BY <1>1 DEF IInv, TypeOK, PermitsAccounted

(* A step that takes a permit while one is left. *)
LEMMA TakesPermit ==
  ASSUME IInv, NEW j \in Jobs, Alone(j), active < MaxJobs, active' = active + 1, j \notin Holders, (j \in Holders)'
  PROVE  PermitsAccounted' /\ active' \in 0..MaxJobs
<1>1. Holders' = Holders \cup {j}
  BY DEF Holders, Alive, Alone
<1>2. Cardinality(Holders') = Cardinality(Holders) + 1
  BY <1>1, HoldersAreFinite, FS_AddElement
<1>3. active \in Nat /\ active = Cardinality(Holders) /\ active' = Cardinality(Holders')
  BY <1>2, HoldersAreFinite DEF IInv, PermitsAccounted
<1>. QED  BY <1>3, Constants DEF PermitsAccounted

(* A step that drops the permit of its job. *)
LEMMA DropsPermit ==
  ASSUME IInv, NEW j \in Jobs, Alone(j), active' = active - 1, j \in Holders, ~(j \in Holders)'
  PROVE  PermitsAccounted' /\ active' \in 0..MaxJobs
<1>1. Holders' = Holders \ {j}
  BY DEF Holders, Alive, Alone
<1>2. Cardinality(Holders') = Cardinality(Holders) - 1
  BY <1>1, HoldersAreFinite, FS_RemoveElement
<1>3. /\ active \in Nat /\ active <= MaxJobs
      /\ active' = Cardinality(Holders') /\ active' \in Nat
  BY <1>2, HoldersAreFinite DEF IInv, PermitsAccounted
<1>. QED  BY <1>3, Constants DEF PermitsAccounted

(* The job of the step, its permit and the types are all there is to look at. *)
LEMMA OneJobKeeps ==
  ASSUME IInv, NEW j \in Jobs, Alone(j), UNCHANGED <<instance, poll>>, TypeOK', PermitsAccounted', Job(j)',
         returned \subseteq returned', j \in returned => status'[j] = status[j] \/ Left(j)
  PROVE  IInv'
<1>1. ASSUME NEW k \in Jobs, k # j PROVE Job(k)'
  <2>1. Job(k)
    BY DEF IInv
  <2>2. /\ starter'[k] = starter[k] /\ worker'[k] = worker[k] /\ outcome'[k] = outcome[k]
        /\ log'[k] = log[k] /\ status'[k] = status[k]
        /\ k \in returned' => k \in returned
    BY <1>1 DEF Alone
  <2>3. Handed(k)' /\ LogFollows(k)'
    BY <2>1, <2>2 DEF Job, Handed, LogFollows, Alive
  <2>4. Closed(k)' = Closed(k) /\ Left(k)' = Left(k)
    BY <2>2 DEF Closed, Left
  <2>5. StatusFollows(k)'
    BY <2>1, <2>2, <2>4 DEF Job, StatusFollows
  <2>. QED  BY <2>3, <2>5 DEF Job
<1>2. PollHolds'
  <2>1. ASSUME poll # None, poll.status \in {"completed", "timed_out"}
        PROVE  status'[poll.job] = status[poll.job]
    <3>1. poll.job \in returned /\ status[poll.job].status # "running" /\ poll.job \in Jobs
      BY <2>1 DEF IInv, TypeOK, PollHolds
    <3>. QED  BY <3>1 DEF Alone, Left
  <2>. QED  BY <2>1 DEF IInv, PollHolds
<1>. QED  BY <1>1, <1>2 DEF IInv

(* A status that is published has its type and is the job's own. *)
LEMMA PublishedIsTyped ==
  ASSUME TypeOK, NEW j \in Jobs, NEW s \in Ends \cup {"running"}, Published(j, s)
  PROVE  /\ status' \in [Jobs -> Statuses \cup {None}]
         /\ status'[j] # None /\ status'[j].status = s /\ status'[j].owner = instance
         /\ \A k \in Jobs \ {j} : status'[k] = status[k]
<1>1. [status |-> s, owner |-> instance] \in Statuses
  BY DEF TypeOK, Statuses
<1>. QED  BY <1>1, Constants DEF TypeOK, Published

(* Servers are numbered. *)
LEMMA Numbers ==
  ASSUME IInv
  PROVE  /\ instance \in 1..MaxInstances /\ instance \in Nat /\ instance <= instance
         /\ \A j \in Jobs : status[j] # None => status[j].owner \in Nat
<1>1. instance \in 1..MaxInstances /\ status \in [Jobs -> Statuses \cup {None}]
  BY DEF IInv, TypeOK
<1>2. \A n \in 1..MaxInstances : n \in Nat
  BY Constants
<1>3. ASSUME NEW j \in Jobs, status[j] # None PROVE status[j].owner \in 1..MaxInstances
  BY <1>1, <1>3 DEF Statuses
<1>4. instance <= instance
  BY <1>1, <1>2
<1>. QED  BY <1>1, <1>2, <1>3, <1>4

LEMMA InitIInv == Init => IInv
<1>. SUFFICES ASSUME Init PROVE IInv
  OBVIOUS
<1>1. TypeOK
  BY Constants DEF Init, TypeOK
<1>2. PermitsAccounted
  <2>1. Holders = {}
    BY DEF Init, Holders, Alive
  <2>. QED  BY <2>1, Constants, FS_EmptySet DEF Init, PermitsAccounted
<1>3. \A j \in Jobs : Job(j)
  BY Constants DEF Init, Job, Handed, LogFollows, StatusFollows, Alive, Starters, Logs
<1>4. PollHolds
  BY DEF Init, PollHolds
<1>. QED  BY <1>1, <1>2, <1>3, <1>4 DEF IInv

-----------------------------------------------------------------------------
(* One lemma per action of the starter. *)
LEMMA LoadKeeps ==
  ASSUME IInv, NEW j \in Jobs, Load(j)
  PROVE  IInv'
<1>. USE DEF Load, Starter, files
<1>1. Alone(j)
  BY DEF IInv, TypeOK, Alone
<1>2. PermitsAccounted' /\ active' \in 0..MaxJobs
  BY <1>1, KeepsPermits DEF IInv, TypeOK, Holders, Alive
<1>3. TypeOK'
  BY <1>2 DEF IInv, TypeOK
<1>4. Job(j)'
  BY DEF IInv, TypeOK, Job, Handed, LogFollows, Closed, Left, StatusFollows, Alive, Starters
<1>. QED  BY <1>1, <1>2, <1>3, <1>4, OneJobKeeps

LEMMA AcquireKeeps ==
  ASSUME IInv, NEW j \in Jobs, Acquire(j)
  PROVE  IInv'
<1>. USE DEF Acquire, Starter, files
<1>1. Alone(j)
  BY DEF IInv, TypeOK, Alone
<1>2. PermitsAccounted' /\ active' \in 0..MaxJobs
  <2>0. Alive(j)' = FALSE /\ Alive(j) = FALSE
    BY DEF IInv, TypeOK, Job, Handed, Alive, Starters
  <2>1. CASE active' = active /\ starter'[j] \in {"acquire", "refused"}
    BY <1>1, <2>0, <2>1, KeepsPermits DEF IInv, TypeOK, Holders
  <2>2. CASE active' = active + 1 /\ active < MaxJobs /\ starter'[j] = "open"
    BY <1>1, <2>0, <2>2, TakesPermit DEF IInv, TypeOK, Holders
  <2>. QED  BY <2>1, <2>2 DEF IInv, TypeOK
<1>3. TypeOK'
  <2>1. seen' \in [Jobs -> 0..MaxJobs]
    BY DEF IInv, TypeOK
  <2>2. starter' \in [Jobs -> {"idle", "acquire", "open", "fill", "running", "spawn", "unspawned", "disown",
                              "return", "started", "refused", "dead"}]
    BY DEF IInv, TypeOK
  <2>. QED  BY <1>2, <2>1, <2>2 DEF IInv, TypeOK
<1>4. Job(j)'
  BY DEF IInv, TypeOK, Job, Handed, LogFollows, Closed, Left, StatusFollows, Alive, Starters
<1>. QED  BY <1>1, <1>2, <1>3, <1>4, OneJobKeeps

LEMMA OpenInitialLogKeeps ==
  ASSUME IInv, NEW j \in Jobs, OpenInitialLog(j)
  PROVE  IInv'
<1>. USE DEF OpenInitialLog, Starter, Refuse, files
<1>1. Alone(j)
  BY DEF IInv, TypeOK, Alone
<1>2. PermitsAccounted' /\ active' \in 0..MaxJobs
  <2>0. ~Alive(j) /\ ~Alive(j)' /\ j \in Holders
    BY DEF IInv, TypeOK, Job, Handed, Alive, Starters, Holders
  <2>1. CASE active' = active /\ starter'[j] # "refused"
    BY <1>1, <2>0, <2>1, KeepsPermits DEF IInv, TypeOK, Holders
  <2>2. CASE active' = active - 1 /\ starter'[j] = "refused"
    BY <1>1, <2>0, <2>2, DropsPermit DEF IInv, TypeOK, Holders
  <2>. QED  BY <2>1, <2>2 DEF IInv, TypeOK
<1>3. TypeOK'
  BY <1>2 DEF IInv, TypeOK, Logs
<1>4. Job(j)'
  BY Constants DEF IInv, TypeOK, Job, Handed, LogFollows, Closed, Left, StatusFollows, Alive, Starters,
     Logs, Statuses
<1>. QED  BY <1>1, <1>2, <1>3, <1>4, OneJobKeeps

LEMMA FillInitialLogKeeps ==
  ASSUME IInv, NEW j \in Jobs, FillInitialLog(j)
  PROVE  IInv'
<1>. USE DEF FillInitialLog, Starter, Refuse, files
<1>1. Alone(j)
  BY DEF IInv, TypeOK, Alone
<1>2. PermitsAccounted' /\ active' \in 0..MaxJobs
  <2>0. ~Alive(j) /\ ~Alive(j)' /\ j \in Holders
    BY DEF IInv, TypeOK, Job, Handed, Alive, Starters, Holders
  <2>1. CASE active' = active /\ starter'[j] # "refused"
    BY <1>1, <2>0, <2>1, KeepsPermits DEF IInv, TypeOK, Holders
  <2>2. CASE active' = active - 1 /\ starter'[j] = "refused"
    BY <1>1, <2>0, <2>2, DropsPermit DEF IInv, TypeOK, Holders
  <2>. QED  BY <2>1, <2>2 DEF IInv, TypeOK
<1>3. TypeOK'
  BY <1>2 DEF IInv, TypeOK, Logs
<1>4. Job(j)'
  BY Constants DEF IInv, TypeOK, Job, Handed, LogFollows, Closed, Left, StatusFollows, Alive, Starters,
     Logs, Statuses
<1>. QED  BY <1>1, <1>2, <1>3, <1>4, OneJobKeeps

LEMMA PublishRunningKeeps ==
  ASSUME IInv, NEW j \in Jobs, PublishRunning(j)
  PROVE  IInv'
<1>. USE DEF PublishRunning, Starter, Refuse, files
<1>0. /\ status' \in [Jobs -> Statuses \cup {None}] /\ \A k \in Jobs \ {j} : status'[k] = status[k]
      /\ status' = status \/ (status'[j] # None /\ status'[j].status = "running" /\ status'[j].owner = instance)
  BY PublishedIsTyped DEF IInv, TypeOK
<1>1. Alone(j)
  BY <1>0 DEF IInv, TypeOK, Alone
<1>2. PermitsAccounted' /\ active' \in 0..MaxJobs
  <2>0. ~Alive(j) /\ ~Alive(j)' /\ j \in Holders
    BY DEF IInv, TypeOK, Job, Handed, Alive, Starters, Holders
  <2>1. CASE active' = active /\ starter'[j] # "refused"
    BY <1>1, <2>0, <2>1, KeepsPermits DEF IInv, TypeOK, Holders
  <2>2. CASE active' = active - 1 /\ starter'[j] = "refused"
    BY <1>1, <2>0, <2>2, DropsPermit DEF IInv, TypeOK, Holders
  <2>. QED  BY <2>1, <2>2 DEF IInv, TypeOK
<1>3. TypeOK'
  BY <1>0, <1>2 DEF IInv, TypeOK
<1>4. Job(j)'
  <2>1. /\ starter[j] = "running" /\ worker' = worker /\ log' = log /\ UNCHANGED <<instance, outcome, returned>>
        /\ \/ starter'[j] = "spawn" /\ status'[j] # None /\ status'[j].status = "running" /\ status'[j].owner = instance
           \/ starter'[j] = "refused" /\ status' = status
    BY PublishedIsTyped DEF IInv, TypeOK
  <2>2. Handed(j)'
    BY <2>1 DEF IInv, Job, Handed, Alive, Starters
  <2>3. LogFollows(j)'
    BY <2>1 DEF IInv, Job, Handed, LogFollows, Starters
  <2>4. StatusFollows(j)'
    BY <2>1 DEF IInv, Job, Handed, LogFollows, StatusFollows, Closed, Left, Starters
  <2>. QED  BY <2>2, <2>3, <2>4 DEF Job
<1>5. j \notin returned
  BY DEF IInv, Job, Handed
<1>. QED  BY <1>1, <1>2, <1>3, <1>4, <1>5, OneJobKeeps

LEMMA SpawnKeeps ==
  ASSUME IInv, NEW j \in Jobs, Spawn(j)
  PROVE  IInv'
<1>. USE DEF Spawn, Starter, files
<1>1. Alone(j)
  BY DEF IInv, TypeOK, Alone
<1>2. PermitsAccounted' /\ active' \in 0..MaxJobs
  <2>0. ~Alive(j) /\ j \in Holders
    BY DEF IInv, TypeOK, Job, Handed, Alive, Starters, Holders
  <2>1. CASE active' = active /\ worker'[j] = "work"
    BY <1>1, <2>0, <2>1, KeepsPermits DEF IInv, TypeOK, Holders, Alive
  <2>2. CASE active' = active - 1 /\ starter'[j] = "unspawned" /\ worker' = worker
    BY <1>1, <2>0, <2>2, DropsPermit DEF IInv, TypeOK, Holders, Alive
  <2>. QED  BY <2>1, <2>2 DEF IInv, TypeOK
<1>3. TypeOK'
  BY <1>2 DEF IInv, TypeOK
<1>4. Job(j)'
  <2>1. /\ starter[j] = "spawn" /\ UNCHANGED <<instance, outcome, returned, log, status>>
        /\ \/ starter'[j] = "return" /\ worker'[j] = "work"
           \/ starter'[j] = "unspawned" /\ worker' = worker
    BY DEF IInv, TypeOK
  <2>2. Handed(j)'
    BY <2>1 DEF IInv, Job, Handed, Alive, Starters
  <2>3. LogFollows(j)'
    BY <2>1 DEF IInv, Job, Handed, LogFollows, Starters
  <2>4. StatusFollows(j)'
    BY <2>1 DEF IInv, Job, Handed, LogFollows, StatusFollows, Closed, Left, Starters
  <2>. QED  BY <2>2, <2>3, <2>4 DEF Job
<1>. QED  BY <1>1, <1>2, <1>3, <1>4, OneJobKeeps

LEMMA LogSpawnFailureKeeps ==
  ASSUME IInv, NEW j \in Jobs, LogSpawnFailure(j)
  PROVE  IInv'
<1>. USE DEF LogSpawnFailure, Starter, files
<1>1. Alone(j)
  BY DEF IInv, TypeOK, Alone
<1>2. PermitsAccounted' /\ active' \in 0..MaxJobs
  BY <1>1, KeepsPermits DEF IInv, TypeOK, Holders, Alive
<1>3. TypeOK'
  BY <1>2 DEF IInv, TypeOK, Logs
<1>4. Job(j)'
  <2>1. /\ starter[j] = "unspawned" /\ starter'[j] = "disown"
        /\ log'[j] \in {"failure", log[j], "partial"} /\ UNCHANGED <<instance, outcome, returned, worker, status>>
    BY DEF IInv, TypeOK
  <2>2. Handed(j)'
    BY <2>1 DEF IInv, Job, Handed, Alive, Starters
  <2>3. LogFollows(j)'
    BY <2>1 DEF IInv, Job, Handed, LogFollows, Starters
  <2>4. StatusFollows(j)'
    BY <2>1 DEF IInv, Job, Handed, LogFollows, StatusFollows, Closed, Left, Starters
  <2>. QED  BY <2>2, <2>3, <2>4 DEF Job
<1>. QED  BY <1>1, <1>2, <1>3, <1>4, OneJobKeeps

LEMMA PublishSpawnFailureKeeps ==
  ASSUME IInv, NEW j \in Jobs, PublishSpawnFailure(j)
  PROVE  IInv'
<1>. USE DEF PublishSpawnFailure, Starter, files
<1>0. /\ status' \in [Jobs -> Statuses \cup {None}] /\ \A k \in Jobs \ {j} : status'[k] = status[k]
      /\ status' = status \/ (status'[j] # None /\ status'[j].status = "failed" /\ status'[j].owner = instance)
  BY PublishedIsTyped DEF IInv, TypeOK, Ends
<1>1. Alone(j)
  BY <1>0 DEF IInv, TypeOK, Alone
<1>2. PermitsAccounted' /\ active' \in 0..MaxJobs
  BY <1>1, KeepsPermits DEF IInv, TypeOK, Holders, Alive
<1>3. TypeOK'
  BY <1>0, <1>2 DEF IInv, TypeOK
<1>4. Job(j)'
  <2>1. /\ starter[j] = "disown" /\ starter'[j] = "refused"
        /\ UNCHANGED <<instance, outcome, returned, worker, log>>
    BY DEF IInv, TypeOK
  <2>2. worker[j] = "none" /\ log[j] # "final" /\ j \notin returned
    BY <2>1 DEF IInv, Job, Handed, LogFollows, Starters
  <2>. QED  BY <2>1, <2>2 DEF Job, Handed, LogFollows, StatusFollows, Alive, Starters
<1>5. j \notin returned
  BY DEF IInv, Job, Handed
<1>. QED  BY <1>1, <1>2, <1>3, <1>4, <1>5, OneJobKeeps

LEMMA ReturnLogIdKeeps ==
  ASSUME IInv, NEW j \in Jobs, ReturnLogId(j)
  PROVE  IInv'
<1>. USE DEF ReturnLogId, Starter, files
<1>1. Alone(j)
  BY DEF IInv, TypeOK, Alone
<1>2. PermitsAccounted' /\ active' \in 0..MaxJobs
  BY <1>1, KeepsPermits DEF IInv, TypeOK, Holders, Alive
<1>3. TypeOK'
  BY <1>2 DEF IInv, TypeOK
<1>4. Job(j)'
  BY Constants DEF IInv, TypeOK, Job, Handed, LogFollows, Closed, Left, StatusFollows, Alive, Starters,
     Logs, Statuses
<1>. QED  BY <1>1, <1>2, <1>3, <1>4, OneJobKeeps

-----------------------------------------------------------------------------
(* One lemma per action of the job's thread. *)
LEMMA WorkKeeps ==
  ASSUME IInv, NEW j \in Jobs, Work(j)
  PROVE  IInv'
<1>. USE DEF Work, Worker, files
<1>1. Alone(j)
  BY DEF IInv, TypeOK, Alone
<1>2. PermitsAccounted' /\ active' \in 0..MaxJobs
  BY <1>1, KeepsPermits DEF IInv, TypeOK, Holders, Alive
<1>3. TypeOK'
  BY <1>2 DEF IInv, TypeOK
<1>4. Job(j)'
  BY Constants DEF IInv, TypeOK, Job, Handed, LogFollows, Closed, Left, StatusFollows, Alive, Starters,
     Logs, Statuses
<1>. QED  BY <1>1, <1>2, <1>3, <1>4, OneJobKeeps

LEMMA OpenFinalLogKeeps ==
  ASSUME IInv, NEW j \in Jobs, OpenFinalLog(j)
  PROVE  IInv'
<1>. USE DEF OpenFinalLog, Worker, files
<1>1. Alone(j)
  BY DEF IInv, TypeOK, Alone
<1>2. PermitsAccounted' /\ active' \in 0..MaxJobs
  BY <1>1, KeepsPermits DEF IInv, TypeOK, Holders, Alive
<1>3. TypeOK'
  BY <1>2 DEF IInv, TypeOK, Logs
<1>4. Job(j)'
  BY Constants DEF IInv, TypeOK, Job, Handed, LogFollows, Closed, Left, StatusFollows, Alive, Starters,
     Logs, Statuses
<1>. QED  BY <1>1, <1>2, <1>3, <1>4, OneJobKeeps

LEMMA FillFinalLogKeeps ==
  ASSUME IInv, NEW j \in Jobs, FillFinalLog(j)
  PROVE  IInv'
<1>. USE DEF FillFinalLog, Worker, files
<1>1. Alone(j)
  BY DEF IInv, TypeOK, Alone
<1>2. PermitsAccounted' /\ active' \in 0..MaxJobs
  BY <1>1, KeepsPermits DEF IInv, TypeOK, Holders, Alive
<1>3. TypeOK'
  BY <1>2 DEF IInv, TypeOK, Logs
<1>4. Job(j)'
  BY Constants DEF IInv, TypeOK, Job, Handed, LogFollows, Closed, Left, StatusFollows, Alive, Starters,
     Logs, Statuses
<1>. QED  BY <1>1, <1>2, <1>3, <1>4, OneJobKeeps

LEMMA PublishUnloggedKeeps ==
  ASSUME IInv, NEW j \in Jobs, PublishUnlogged(j)
  PROVE  IInv'
<1>. USE DEF PublishUnlogged, Worker, files
<1>0. /\ status' \in [Jobs -> Statuses \cup {None}] /\ \A k \in Jobs \ {j} : status'[k] = status[k]
      /\ status' = status \/ (status'[j] # None /\ status'[j].status = "failed" /\ status'[j].owner = instance)
  BY PublishedIsTyped DEF IInv, TypeOK, Ends
<1>1. Alone(j)
  BY <1>0 DEF IInv, TypeOK, Alone
<1>2. PermitsAccounted' /\ active' \in 0..MaxJobs
  BY <1>1, KeepsPermits DEF IInv, TypeOK, Holders, Alive
<1>3. TypeOK'
  BY <1>0, <1>2 DEF IInv, TypeOK
<1>4. Job(j)'
  <2>1. /\ worker[j] = "unlogged" /\ UNCHANGED <<instance, outcome, returned, starter, log>>
        /\ \/ worker'[j] = "drop" /\ status'[j] # None /\ status'[j].status = "failed"
           \/ worker'[j] = "drop unpublished" /\ status' = status
    BY PublishedIsTyped DEF IInv, TypeOK, Ends
  <2>2. Handed(j)'
    BY <2>1 DEF IInv, Job, Handed, Alive, Starters
  <2>3. LogFollows(j)'
    BY <2>1 DEF IInv, Job, Handed, LogFollows, Starters
  <2>4. StatusFollows(j)'
    BY <2>1 DEF IInv, Job, Handed, LogFollows, StatusFollows, Closed, Left, Starters, Ends
  <2>. QED  BY <2>2, <2>3, <2>4 DEF Job
<1>5. Left(j)
  BY DEF IInv, Job, StatusFollows
<1>. QED  BY <1>1, <1>2, <1>3, <1>4, <1>5, OneJobKeeps

LEMMA PublishOutcomeKeeps ==
  ASSUME IInv, NEW j \in Jobs, PublishOutcome(j)
  PROVE  IInv'
<1>. USE DEF PublishOutcome, Worker, files
<1>9. outcome[j] \in Ends
  BY DEF IInv, Job, LogFollows
<1>0. /\ status' \in [Jobs -> Statuses \cup {None}] /\ \A k \in Jobs \ {j} : status'[k] = status[k]
      /\ status' = status \/ (status'[j] # None /\ status'[j].status = outcome[j] /\ status'[j].owner = instance)
  BY <1>9, PublishedIsTyped DEF IInv, TypeOK
<1>1. Alone(j)
  BY <1>0 DEF IInv, TypeOK, Alone
<1>2. PermitsAccounted' /\ active' \in 0..MaxJobs
  BY <1>1, KeepsPermits DEF IInv, TypeOK, Holders, Alive
<1>3. TypeOK'
  BY <1>0, <1>2 DEF IInv, TypeOK
<1>4. Job(j)'
  <2>1. /\ worker[j] = "publish" /\ UNCHANGED <<instance, outcome, returned, starter, log>>
        /\ \/ worker'[j] = "drop" /\ status'[j] # None /\ status'[j].status = outcome[j]
           \/ worker'[j] = "drop unpublished" /\ status' = status
    BY <1>9, PublishedIsTyped DEF IInv, TypeOK
  <2>2. Handed(j)'
    BY <2>1 DEF IInv, Job, Handed, Alive, Starters
  <2>3. LogFollows(j)'
    BY <2>1 DEF IInv, Job, Handed, LogFollows, Starters
  <2>4. StatusFollows(j)'
    BY <2>1 DEF IInv, Job, Handed, LogFollows, StatusFollows, Closed, Left, Starters
  <2>. QED  BY <2>2, <2>3, <2>4 DEF Job
<1>5. Left(j)
  BY DEF IInv, Job, StatusFollows
<1>. QED  BY <1>1, <1>2, <1>3, <1>4, <1>5, OneJobKeeps

LEMMA DropPermitKeeps ==
  ASSUME IInv, NEW j \in Jobs, DropPermit(j)
  PROVE  IInv'
<1>. USE DEF DropPermit, Worker, files
<1>1. Alone(j)
  BY DEF IInv, TypeOK, Alone
<1>2. PermitsAccounted' /\ active' \in 0..MaxJobs
  <2>1. j \in Holders /\ ~(j \in Holders)'
    BY DEF IInv, TypeOK, Job, Handed, Alive, Starters, Holders
  <2>. QED  BY <1>1, <2>1, DropsPermit
<1>3. TypeOK'
  BY <1>2 DEF IInv, TypeOK
<1>4. Job(j)'
  <2>1. /\ UNCHANGED <<instance, outcome, returned, starter, log, status>>
        /\ \/ worker[j] = "drop" /\ worker'[j] = "over"
           \/ worker[j] = "drop unpublished" /\ worker'[j] = "unpublished"
    BY DEF IInv, TypeOK
  <2>2. Handed(j)'
    BY <2>1 DEF IInv, Job, Handed, Alive, Starters
  <2>3. LogFollows(j)'
    BY <2>1 DEF IInv, Job, Handed, LogFollows, Starters
  <2>4. instance <= instance
    BY Numbers
  <2>5. StatusFollows(j)'
    BY <2>1, <2>4 DEF IInv, Job, Handed, LogFollows, StatusFollows, Closed, Left, Starters
  <2>. QED  BY <2>2, <2>3, <2>5 DEF Job
<1>. QED  BY <1>1, <1>2, <1>3, <1>4, OneJobKeeps

-----------------------------------------------------------------------------
(* The two halves of a poll, and the end of the server. *)

(* A poll of an ended job has the status from the file, which will not change. *)
LEMMA ReadStatusKeeps ==
  ASSUME IInv, NEW j \in Jobs, ReadStatus(j)
  PROVE  IInv'
<1>1. /\ UNCHANGED <<instance, active, seen, starter, worker, outcome, log, status, returned>>
      /\ poll' = [job |-> j, status |-> Reported(j), log |-> None] /\ j \in returned
  BY DEF ReadStatus, files
<1>2. starter[j] = "started" /\ worker[j] # "none"
  BY <1>1 DEF IInv, Job, Handed
<1>3. status[j] # None /\ status[j].status \in Ends \cup {"running"}
  BY <1>1, <1>2 DEF IInv, TypeOK, Job, StatusFollows, Closed, Left
<1>4. Reported(j) \in Ends \cup {"running", "unknown"}
      /\ (Reported(j) \in {"completed", "timed_out"} => status[j].status = Reported(j))
  BY <1>3 DEF Reported
<1>5. TypeOK'
  <2>1. poll' \in [job: Jobs, status: Ends \cup {"running", "unknown"}, log: Logs \cup {None}]
    BY <1>1, <1>4
  <2>. QED  BY <1>1, <2>1 DEF IInv, TypeOK
<1>6. PollHolds'
  BY <1>1, <1>3, <1>4 DEF PollHolds
<1>7. PermitsAccounted' /\ \A k \in Jobs : Job(k)'
  BY <1>1 DEF IInv, PermitsAccounted, Holders, Alive, Job, Handed, LogFollows, StatusFollows, Closed,
     Left
<1>. QED  BY <1>5, <1>6, <1>7 DEF IInv

(* The log of a job whose status says that it ended is the final one. *)
LEMMA ClosedLog ==
  ASSUME IInv, NEW j \in returned, status[j] # None, status[j].status \in {"completed", "timed_out"}
  PROVE  log[j] = "final" /\ outcome[j] = status[j].status
<1>1. starter[j] = "started" /\ worker[j] # "none" /\ j \in Jobs
  BY DEF IInv, TypeOK, Job, Handed
<1>2. ~Left(j)
  BY DEF Left
<1>3. Closed(j)
  BY <1>1, <1>2 DEF IInv, TypeOK, Job, StatusFollows
<1>. QED  BY <1>3 DEF Closed

LEMMA ReadLogKeeps ==
  ASSUME IInv, ReadLog
  PROVE  IInv'
<1>1. /\ UNCHANGED <<instance, active, seen, starter, worker, outcome, log, status, returned>>
      /\ poll' = [poll EXCEPT !.log = log[poll.job]] /\ poll # None
  BY DEF ReadLog, HalfRead, files
<1>2. /\ poll \in [job: Jobs, status: Ends \cup {"running", "unknown"}, log: Logs \cup {None}]
      /\ log[poll.job] \in Logs \cup {None}
  BY <1>1 DEF IInv, TypeOK
<1>3. poll'.job = poll.job /\ poll'.status = poll.status /\ poll'.log = log[poll.job]
      /\ poll' \in [job: Jobs, status: Ends \cup {"running", "unknown"}, log: Logs \cup {None}]
  BY <1>1, <1>2
<1>4. TypeOK'
  BY <1>1, <1>3 DEF IInv, TypeOK
<1>5. PollHolds'
  <2>1. poll.status \in {"completed", "timed_out"} => log[poll.job] = "final"
    BY <1>1, ClosedLog DEF IInv, PollHolds
  <2>. QED  BY <1>1, <1>3, <2>1 DEF IInv, PollHolds
<1>6. PermitsAccounted' /\ \A k \in Jobs : Job(k)'
  BY <1>1 DEF IInv, PermitsAccounted, Holders, Alive, Job, Handed, LogFollows, StatusFollows, Closed,
     Left
<1>. QED  BY <1>4, <1>5, <1>6 DEF IInv

(* No permit outlives the server, and what it left running belongs to a server that ended. *)
LEMMA RestartKeeps ==
  ASSUME IInv, Restart
  PROVE  IInv'
<1>1. /\ instance' = instance + 1 /\ instance < MaxInstances /\ active' = 0 /\ poll' = None
      /\ UNCHANGED <<seen, outcome, log, status, returned>>
  BY DEF Restart, files
<1>2. /\ instance \in Nat /\ instance' \in 1..MaxInstances /\ active' \in 0..MaxJobs
  BY <1>1, Numbers, Constants
<1>3. TypeOK'
  <2>1. starter' \in [Jobs -> {"idle", "acquire", "open", "fill", "running", "spawn", "unspawned", "disown",
                              "return", "started", "refused", "dead"}]
    BY DEF IInv, TypeOK, Restart
  <2>2. worker' \in [Jobs -> {"none", "work", "open", "fill", "unlogged", "publish", "drop",
                             "drop unpublished", "over", "unpublished", "dead"}]
    BY DEF IInv, TypeOK, Restart
  <2>. QED  BY <1>1, <1>2, <2>1, <2>2 DEF IInv, TypeOK
<1>4. ASSUME NEW j \in Jobs
      PROVE  /\ \/ starter'[j] \in {"idle", "refused", "started"} /\ starter'[j] = starter[j]
                \/ starter'[j] = "dead"
             /\ \/ worker'[j] \in {"none", "over", "unpublished"} /\ worker'[j] = worker[j]
                \/ worker'[j] = "dead" /\ worker[j] \notin {"none", "over", "unpublished"}
             /\ starter[j] = "started" => starter'[j] = "started"
  BY DEF Restart
<1>5. PermitsAccounted'
  <2>1. Holders' = {}
    BY <1>4 DEF Holders, Alive
  <2>. QED  BY <1>1, <2>1, Constants, FS_EmptySet DEF PermitsAccounted
<1>6. ASSUME NEW j \in Jobs PROVE Job(j)'
  <2>1. Handed(j)'
    BY <1>1, <1>4 DEF IInv, Job, Handed, Alive, Starters
  <2>2. LogFollows(j)'
    BY <1>1, <1>4 DEF IInv, Job, LogFollows, Starters
  <2>3. Closed(j)' = Closed(j) /\ Left(j)' = Left(j)
    BY <1>1 DEF Closed, Left
  <2>4. Left(j) => status[j].owner \in Nat
    BY Numbers DEF Left
  <2>5. /\ Left(j) /\ status[j].owner = instance => status[j].owner < instance'
        /\ Left(j) /\ status[j].owner < instance => status[j].owner < instance'
        /\ Left(j) /\ status[j].owner <= instance => status[j].owner <= instance'
    BY <1>1, <1>2, <2>4
  <2>6. worker[j] \in {"none", "work", "open", "fill", "unlogged", "publish", "drop",
                      "drop unpublished", "over", "unpublished", "dead"}
    BY DEF IInv, TypeOK
  <2>7. StatusFollows(j)'
    BY <1>1, <1>4, <2>3, <2>5, <2>6 DEF IInv, Job, StatusFollows
  <2>. QED  BY <2>1, <2>2, <2>7 DEF Job
<1>7. PollHolds'
  BY <1>1 DEF PollHolds
<1>. QED  BY <1>3, <1>5, <1>6, <1>7 DEF IInv

-----------------------------------------------------------------------------
LEMMA StepKeepsIInv == IInv /\ [Next]_vars => IInv'
<1>. SUFFICES ASSUME IInv, [Next]_vars PROVE IInv'
  OBVIOUS
<1>1. ASSUME NEW j \in Jobs, Load(j) \/ Starting(j) PROVE IInv'
  BY <1>1, LoadKeeps, AcquireKeeps, OpenInitialLogKeeps, FillInitialLogKeeps, PublishRunningKeeps,
     SpawnKeeps,
     LogSpawnFailureKeeps, PublishSpawnFailureKeeps, ReturnLogIdKeeps DEF Starting
<1>2. ASSUME NEW j \in Jobs, Running(j) PROVE IInv'
  BY <1>2, WorkKeeps, OpenFinalLogKeeps, FillFinalLogKeeps, PublishUnloggedKeeps, PublishOutcomeKeeps,
     DropPermitKeeps DEF Running
<1>3. ASSUME NEW j \in Jobs, ReadStatus(j) PROVE IInv'
  BY <1>3, ReadStatusKeeps
<1>4. CASE ReadLog \/ Restart
  BY <1>4, ReadLogKeeps, RestartKeeps
<1>5. CASE UNCHANGED vars
  BY <1>5 DEF vars, files, IInv, TypeOK, PermitsAccounted, Holders, Alive, Job, Handed, LogFollows,
     StatusFollows,
     Closed, Left, PollHolds
<1>. QED  BY <1>1, <1>2, <1>3, <1>4, <1>5 DEF Next

(* The invariant of the jobs holds in every reachable state. *)
THEOREM Invariance == Spec => []IInv
BY InitIInv, StepKeepsIInv, PTL DEF Spec

-----------------------------------------------------------------------------
(* What the invariant says of the jobs whose id the client has. *)
LEMMA ReturnedIsHonest ==
  ASSUME IInv, NEW j \in returned
  PROVE  /\ Reported(j) \in {"completed", "timed_out"} => outcome[j] = Reported(j)
         /\ Reported(j) = "failed" => outcome[j] = "failed" \/ log[j] # "final"
         /\ Reported(j) = "running" => Alive(j) \/ worker[j] = "unpublished"
         /\ Reported(j) = "unknown" => worker[j] \in {"dead", "unpublished"} /\ status[j].owner < instance
<1>1. starter[j] = "started" /\ worker[j] # "none" /\ j \in Jobs
  BY DEF IInv, TypeOK, Job, Handed
<1>2. Closed(j) \/ Left(j)
  BY <1>1 DEF IInv, TypeOK, Job, StatusFollows
<1>3. CASE Closed(j)
  <2>1. Reported(j) = status[j].status /\ Reported(j) \in Ends
    BY <1>3 DEF Closed, Reported, Ends
  <2>. QED  BY <1>3, <2>1 DEF Closed, Ends
<1>4. CASE Left(j)
  <2>1. /\ Reported(j) = IF status[j].owner # instance THEN "unknown" ELSE "running"
        /\ status[j].owner \in Nat /\ instance \in Nat
    BY <1>1, <1>4, Numbers DEF Left, Reported
  <2>2. ~Closed(j)
    BY <1>4 DEF Left, Closed, Ends
  <2>3. worker[j] \in {"work", "open", "fill", "unlogged", "publish", "drop unpublished"}
          => status[j].owner = instance
    BY <1>1 DEF IInv, Job, StatusFollows
  <2>4. worker[j] \notin {"drop", "over", "none"}
    BY <1>1, <2>2 DEF IInv, Job, StatusFollows
  <2>5. /\ worker[j] = "unpublished" => status[j].owner <= instance
        /\ worker[j] = "dead" => status[j].owner < instance
    BY <1>1, <2>2 DEF IInv, Job, StatusFollows
  <2>6. worker[j] \in {"work", "open", "fill", "unlogged", "publish", "drop unpublished", "unpublished", "dead"}
    BY <1>1, <2>4 DEF IInv, TypeOK
  <2>7. CASE status[j].owner = instance
    <3>1. Reported(j) = "running"
      BY <2>1, <2>7
    <3>2. worker[j] # "dead"
      BY <2>1, <2>5, <2>7
    <3>. QED  BY <2>6, <3>1, <3>2 DEF Alive
  <2>8. CASE status[j].owner # instance
    <3>1. worker[j] \in {"unpublished", "dead"}
      BY <2>3, <2>6, <2>8
    <3>2. status[j].owner < instance
      BY <2>1, <2>5, <2>8, <3>1
    <3>. QED  BY <2>1, <2>8, <3>1, <3>2
  <2>. QED  BY <2>7, <2>8
<1>. QED  BY <1>2, <1>3, <1>4

(* What a poll says of a job is true, a finished job shows its final log, and the counter is the *)
(* number of jobs that hold a permit, for any number of jobs, permits and servers.               *)
THEOREM Honesty == Spec => []HonestJobs
<1>1. IInv => HonestStatus
  BY ReturnedIsHonest DEF HonestStatus
<1>2. IInv => PollShowsFinalLog
  BY DEF IInv, PollHolds, PollShowsFinalLog
<1>3. IInv => TypeOK /\ PermitsAccounted
  BY DEF IInv
<1>. QED  BY <1>1, <1>2, <1>3, Invariance, PTL DEF HonestJobs

-----------------------------------------------------------------------------
(* Bounded runs.                                                           *)

(* The numbers of the n bytes after the first so many. *)
After(m, n) == [i \in 1..n |-> m + i]

(* Concatenation and sections, kept whole for the provers. *)
Joined(a, b) == a \o b
Section(a, i, j) == SubSeq(a, i, j)

LEMMA AfterIsASequence ==
  ASSUME NEW m \in Nat, NEW n \in Nat
  PROVE  /\ After(m, n) \in Seq(Nat) /\ Len(After(m, n)) = n
         /\ \A i \in 1..n : After(m, n)[i] = m + i
BY DEF After

(* A sequence of consecutive numbers. *)
LEMMA IsAfter ==
  ASSUME NEW s \in Seq(Nat), NEW m \in Nat, NEW n \in Nat, Len(s) = n, \A i \in 1..n : s[i] = m + i
  PROVE  s = After(m, n)
<1>1. /\ After(m, n) \in Seq(Nat) /\ Len(s) = Len(After(m, n))
      /\ \A i \in 1..Len(s) : s[i] = After(m, n)[i]
  BY AfterIsASequence
<1>. QED  BY <1>1, SeqEqual

LEMMA ThenMore ==
  ASSUME NEW m, NEW n, NEW p, NEW k, m \in Nat, n \in Nat, p \in Nat, k \in Nat, p = m + n
  PROVE  Joined(After(m, n), After(p, k)) = After(m, n + k)
<1>. DEFINE a == After(m, n)
           b == After(p, k)
           l == n + k
<1>. l \in Nat
  OBVIOUS
<1>1. /\ a \in Seq(Nat) /\ Len(a) = n /\ \A i \in 1..n : a[i] = m + i
      /\ b \in Seq(Nat) /\ Len(b) = k /\ \A i \in 1..k : b[i] = m + n + i
  BY AfterIsASequence
<1>. HIDE DEF a, b
<1>2. /\ a \o b \in Seq(Nat) /\ Len(a \o b) = l
      /\ \A i \in 1..l : (a \o b)[i] = IF i <= n THEN a[i] ELSE b[i - n]
  BY <1>1, ConcatProperties
<1>3. ASSUME NEW i \in 1..l PROVE (a \o b)[i] = m + i
  <2>1. CASE i <= n
    BY <1>1, <1>2, <2>1
  <2>2. CASE i > n
    <3>1. i - n \in 1..k
      BY <2>2
    <3>. QED  BY <1>1, <1>2, <2>2, <3>1
  <2>3. i <= n \/ i > n
    OBVIOUS
  <2>. QED  BY <2>1, <2>2, <2>3, Zenon
<1>4. a \o b = After(m, l)
  BY <1>2, <1>3, IsAfter
<1>. QED  BY <1>4, Zenon DEF a, b, Joined

LEMMA AfterThenMore ==
  ASSUME NEW m, NEW n, NEW p, NEW k, m \in Nat, n \in Nat, p \in Nat, k \in Nat, p <= m + n, m + n <= p
  PROVE  Joined(After(m, n), After(p, k)) = After(m, n + k)
<1>1. m + n = p
  OBVIOUS
<1>. QED  BY <1>1, ThenMore

LEMMA PartOfAfter ==
  ASSUME NEW m, NEW n, NEW k, NEW j, NEW p, NEW l,
         m \in Nat, n \in Nat, j \in Nat, p \in Nat, l \in Nat, k \in Nat \ {0}, j <= n, p + 1 = m + k, k + l = j + 1
  PROVE  Section(After(m, n), k, j) = After(p, l)
<1>. DEFINE a == After(m, n)
           b == SubSeq(a, k, j)
<1>1. a \in Seq(Nat) /\ Len(a) = n /\ \A x \in 1..n : a[x] = m + x
  BY AfterIsASequence
<1>2. k \in Int /\ j \in Int
  OBVIOUS
<1>3. \A x \in k..j : a[x] \in Nat
  BY <1>1
<1>. HIDE DEF a
<1>4. /\ b \in Seq(Nat) /\ Len(b) = IF k <= j THEN j - k + 1 ELSE 0
      /\ \A x \in 1..(j - k + 1) : b[x] = a[k + x - 1]
  BY <1>2, <1>3, SubSeqProperties
<1>. HIDE DEF b
<1>5. Len(b) = l
  BY <1>4
<1>6. ASSUME NEW x \in 1..l PROVE b[x] = p + x
  <2>1. x \in 1..(j - k + 1) /\ k + x - 1 \in 1..n
    OBVIOUS
  <2>2. b[x] = a[k + x - 1] /\ a[k + x - 1] = m + (k + x - 1)
    BY <1>1, <1>4, <2>1
  <2>. QED  BY <2>2
<1>7. b = After(p, l)
  BY <1>4, <1>5, <1>6, IsAfter
<1>. QED  BY <1>7, Zenon DEF a, b, Section

LEMMA NoBytes ==
  ASSUME NEW m \in Nat, NEW n \in Nat
  PROVE  After(m, 0) = After(n, 0) /\ After(m, 0) = <<>>
BY DEF After

-----------------------------------------------------------------------------
(* What is retained of the first bytes of a stream. *)
HeadLen(got) == IF got < HeadCap THEN got ELSE HeadCap
TailLen(got) == IF got <= HeadCap THEN 0 ELSE IF got - HeadCap <= TailCap THEN got - HeadCap ELSE TailCap
Retained(got) == [head      |-> After(0, HeadLen(got)),
                  tail      |-> After(got - TailLen(got), TailLen(got)),
                  truncated |-> got > HeadCap]

LEMMA Sizes ==
  ASSUME NEW got \in Nat
  PROVE  /\ HeadCap \in Nat /\ TailCap \in Nat
         /\ HeadLen(got) \in Nat /\ TailLen(got) \in Nat /\ got - TailLen(got) \in Nat
BY RunnerIsSane DEF Runner!ConstantsAreSane, HeadLen, TailLen

(* Retain, piece by piece. *)
Room(c, n) == IF n < HeadCap - Len(c.head) THEN n ELSE HeadCap - Len(c.head)
Over(n) == IF n > TailCap THEN n - TailCap ELSE 0
Rest(c, bs) == Joined(c.tail, Section(bs, Room(c, Len(bs)) + 1, Len(bs)))

LEMMA RetainInPieces ==
  ASSUME NEW c, NEW bs
  PROVE  Runner!Retain(c, bs) =
           [head      |-> Joined(c.head, Section(bs, 1, Room(c, Len(bs)))),
            tail      |-> Section(Rest(c, bs), Over(Len(Rest(c, bs))) + 1, Len(Rest(c, bs))),
            truncated |-> c.truncated \/ Room(c, Len(bs)) < Len(bs)]
BY Zenon DEF Runner!Retain, Room, Over, Rest, Joined, Section

(* However the reads cut a stream, its first got + n bytes are retained as if they came at once. *)
LEMMA RetainsMore ==
  ASSUME NEW got \in Nat, NEW n \in Nat
  PROVE  Runner!Retain(Retained(got), After(got, n)) = Retained(got + n)
<1>1. PICK h \in Nat, t \in Nat, from \in Nat : h = HeadLen(got) /\ t = TailLen(got) /\ from = got - t
  BY Sizes
<1>. DEFINE r == IF n < HeadCap - h THEN n ELSE HeadCap - h
<1>2. /\ r \in Nat /\ r <= n /\ HeadLen(got + n) = h + r
      /\ r = 0 \/ (h = got /\ t = 0)
      /\ Over(t + (n - r)) \in Nat /\ Over(t + (n - r)) <= t + (n - r)
      /\ TailLen(got + n) = t + (n - r) - Over(t + (n - r))
      /\ (got + n > HeadCap) <=> (got > HeadCap \/ r < n)
  <2>1. HeadCap \in Nat /\ TailCap \in Nat
    BY Sizes
  <2>2. r \in Nat /\ r <= n
    BY <1>1, <2>1 DEF HeadLen
  <2>. QED  BY <1>1, <2>1, <2>2 DEF HeadLen, TailLen, Over
<1>3. PICK room \in Nat, more \in Nat : room = r /\ more = n - r
  BY <1>2
<1>4. PICK surplus \in Nat, len \in Nat, last \in Nat :
        surplus = Over(t + more) /\ len = TailLen(got + n) /\ last = (got + n) - len
  BY <1>2, <1>3, Sizes, got + n \in Nat
<1>5. /\ room <= n /\ HeadLen(got + n) = h + room
      /\ room = 0 \/ (h = got /\ t = 0)
      /\ surplus + len = t + more
      /\ (got + n > HeadCap) <=> (got > HeadCap \/ room < n)
  BY <1>2, <1>3, <1>4
<1>6. from + t = got /\ room + more = n /\ from + room + surplus = last
  BY <1>1, <1>2, <1>3, <1>4
<1>. DEFINE c == Retained(got)
           bs == After(got, n)
<1>7. Len(bs) = n /\ Len(After(0, h)) = h
  BY AfterIsASequence
<1>8. c.head = After(0, h) /\ c.tail = After(from, t) /\ c.truncated = (got > HeadCap)
  BY <1>1 DEF Retained
<1>. HIDE DEF c, r
<1>9. Room(c, Len(bs)) = room
  BY <1>3, <1>7, <1>8 DEF Room, r
<1>10. Joined(c.head, Section(bs, 1, room)) = After(0, h + room)
  <2>1. Section(bs, 1, room) = After(got, room)
    BY <1>5, PartOfAfter
  <2>2. After(got, room) = After(h, room)
    BY <1>5, NoBytes
  <2>3. Joined(After(0, h), After(h, room)) = After(0, h + room)
    BY AfterThenMore
  <2>. QED  BY <1>8, <2>1, <2>2, <2>3
<1>11. /\ Len(Rest(c, bs)) = t + more
       /\ Section(Rest(c, bs), surplus + 1, t + more) = After(last, len)
  <2>1. PICK all \in Nat, second \in Nat, first \in Nat : t + more = all /\ room + 1 = second /\ surplus + 1 = first
    OBVIOUS
  <2>2. PICK start \in Nat, next \in Nat : from + room = start /\ start + t = next
    OBVIOUS
  <2>3. Section(bs, second, n) = After(next, more)
    <3>1. n <= n /\ next + 1 = got + second /\ second + more = n + 1 /\ second \in Nat \ {0}
      BY <1>6, <2>1, <2>2
    <3>. QED  BY <3>1, PartOfAfter
  <2>4. After(from, t) = After(start, t)
    <3>1. CASE t = 0
      BY <3>1, NoBytes
    <3>2. CASE room = 0
      BY <2>2, <3>2
    <3>. QED  BY <1>5, <3>1, <3>2
  <2>5. Joined(After(start, t), After(next, more)) = After(start, all)
    BY <2>1, <2>2, AfterThenMore
  <2>6. Rest(c, bs) = After(start, all)
    BY <1>7, <1>8, <1>9, <2>1, <2>3, <2>4, <2>5 DEF Rest
  <2>7. Len(After(start, all)) = all
    BY AfterIsASequence
  <2>8. Section(After(start, all), first, all) = After(last, len)
    <3>1. all <= all /\ last + 1 = start + first /\ first + len = all + 1 /\ first \in Nat \ {0}
      BY <1>5, <1>6, <2>1, <2>2
    <3>. QED  BY <3>1, PartOfAfter
  <2>. QED  BY <2>1, <2>6, <2>7, <2>8
<1>. HIDE DEF bs
<1>12. Runner!Retain(c, bs) = [head |-> After(0, h + room), tail |-> After(last, len),
                               truncated |-> got + n > HeadCap]
  <2>1. surplus = Over(Len(Rest(c, bs)))
    BY <1>4, <1>11
  <2>2. Runner!Retain(c, bs) =
           [head      |-> Joined(c.head, Section(bs, 1, room)),
            tail      |-> Section(Rest(c, bs), surplus + 1, t + more),
            truncated |-> c.truncated \/ room < n]
    BY <1>7, <1>9, <1>11, <2>1, RetainInPieces
  <2>3. (c.truncated \/ room < n) = (got + n > HeadCap)
    <3>1. (got > HeadCap \/ room < n) = (got + n > HeadCap)
      BY <1>5
    <3>. QED  BY <1>8, <3>1, Zenon
  <2>. QED  BY <1>10, <1>11, <2>2, <2>3
<1>. QED  BY <1>4, <1>5, <1>12 DEF Retained, c, bs
-----------------------------------------------------------------------------
(* The bytes of a stream are retained or still in the pipe, each once and in order. *)
StreamKept(s) ==
  \E got \in Nat, n \in Nat :
    /\ got + n = written[s] /\ n <= PipeSize /\ written[s] <= MaxWritten
    /\ pipe[s] = After(got, n) /\ captured[s] = Retained(got)
StreamsKept == \A s \in Streams : StreamKept(s)

(* The plain types. *)
RunTypes ==
  /\ pc \in {"spawn", "pipes", "poll", "terminate", "direct", "reap", "sweep", "finish", "join", "return",
             "returned"}
  /\ late \in BOOLEAN /\ cancelled \in BOOLEAN
  /\ child \in {"none", "running", "killed", "zombie", "reaped"}
  /\ exit \in {None, "zero", "nonzero", "signal"}
  /\ kin \in [Kin -> {"unborn", "grouped", "escaped", "dead", "left"}]
  /\ written \in [Streams -> Nat]
  /\ DOMAIN pipe = Streams /\ DOMAIN captured = Streams
  /\ reader \in [Streams -> {"none", "check", "read", "done", "failed"}]
  /\ drain \in [Streams -> {"unset", "running", "over"}]
  /\ errors \subseteq {"spawn", "pipes", "wait", "terminate", "descendants", "read", "starved"}
  /\ result \in {None, "zero", "nonzero", "signal", "timed_out", "failed"}

(* What the calling thread has done with the child and its group, if nothing failed. *)
Ended == {"join", "return", "returned"}
ChildFollows ==
  /\ pc = "spawn" => child = "none"
  /\ pc \in {"reap", "direct"} => child # "running"
  /\ pc \in {"sweep", "finish"} \cup Ended /\ errors = {} => child = "reaped"
GroupFollows ==
  pc \in {"reap", "direct", "finish"} \cup Ended /\ errors = {} => \A k \in Kin : kin[k] # "grouped"

(* The readers run from the poll on, are cancelled before they are joined, and end for a reason. *)
ReadersFollow ==
  /\ pc \in {"spawn", "pipes"} => \A s \in Streams : reader[s] = "none"
  /\ pc \notin {"spawn", "pipes"} /\ errors = {} => \A s \in Streams : reader[s] # "none"
  /\ cancelled => pc \in Ended
  /\ \A s \in Streams : drain[s] # "unset" => cancelled
  /\ pc \in {"return", "returned"} /\ errors = {} => \A s \in Streams : reader[s] = "done"
Reached == errors = {} /\ \A k \in Kin : kin[k] \notin {"escaped", "left"}
EndsFollow ==
  \A s \in Streams : reader[s] = "done" /\ drain[s] # "over" /\ Reached => pipe[s] = <<>> /\ ~Runner!HasWriters

(* The status is the child's own, or says that its time was up. *)
ResultFollows ==
  /\ result \in {"zero", "nonzero", "signal"} => result = exit /\ child = "reaped"
  /\ result = "timed_out" => late
  /\ result = "failed" => pc = "returned"
  /\ pc = "returned" /\ errors # {} => result = "failed"

RunInv ==
  /\ RunTypes /\ StreamsKept
  /\ ChildFollows /\ GroupFollows /\ ReadersFollow /\ EndsFollow /\ ResultFollows

-----------------------------------------------------------------------------
LEMMA Limits == /\ PipeSize \in Nat /\ MaxWritten \in Nat /\ HeadCap \in Nat /\ TailCap \in Nat
                /\ None \notin {"zero", "nonzero", "signal", "timed_out", "failed"}
BY RunnerIsSane DEF Runner!ConstantsAreSane

(* A state in which the bytes did not move. *)
LEMMA StreamsStay ==
  ASSUME StreamsKept, UNCHANGED <<written, pipe, captured>>
  PROVE  StreamsKept'
BY DEF StreamsKept, StreamKept

LEMMA OneMore ==
  ASSUME NEW m \in Nat, NEW n \in Nat, NEW b, b = m + n + 1
  PROVE  Append(After(m, n), b) = After(m, n + 1)
<1>. DEFINE a == After(m, n)
           l == n + 1
<1>1. a \in Seq(Nat) /\ Len(a) = n /\ \A i \in 1..n : a[i] = m + i
  BY AfterIsASequence
<1>. HIDE DEF a
<1>2. b \in Nat /\ l \in Nat
  OBVIOUS
<1>3. /\ Append(a, b) \in Seq(Nat) /\ Len(Append(a, b)) = l
      /\ \A i \in 1..n : Append(a, b)[i] = a[i]
      /\ Append(a, b)[l] = b
  BY <1>1, <1>2, AppendProperties
<1>4. \A i \in 1..l : Append(a, b)[i] = m + i
  BY <1>1, <1>3
<1>. HIDE DEF l
<1>5. Append(a, b) = After(m, l)
  BY <1>2, <1>3, <1>4, IsAfter
<1>. QED  BY <1>5, Zenon DEF a, l

LEMMA WriteKeepsStreams ==
  ASSUME RunTypes, StreamsKept, NEW s \in Streams, Runner!Write(s)
  PROVE  StreamsKept'
<1>. SUFFICES ASSUME NEW t \in Streams PROVE StreamKept(t)'
  BY DEF StreamsKept
<1>1. /\ written[s] < MaxWritten /\ Len(pipe[s]) < PipeSize
      /\ written'[s] = written[s] + 1 /\ pipe'[s] = Append(pipe[s], written[s] + 1)
      /\ \A u \in Streams \ {s} : written'[u] = written[u] /\ pipe'[u] = pipe[u]
      /\ captured' = captured
  BY DEF RunTypes, Runner!Write
<1>2. PICK got \in Nat, n \in Nat :
        /\ got + n = written[t] /\ n <= PipeSize /\ written[t] <= MaxWritten
        /\ pipe[t] = After(got, n) /\ captured[t] = Retained(got)
  BY DEF StreamsKept, StreamKept
<1>3. CASE t # s
  <2>1. /\ got + n = written'[t] /\ n <= PipeSize /\ written'[t] <= MaxWritten
        /\ pipe'[t] = After(got, n) /\ captured'[t] = Retained(got)
    BY <1>1, <1>2, <1>3
  <2>. QED  BY <2>1 DEF StreamKept
<1>4. CASE t = s
  <2>1. PICK m \in Nat : m = n + 1
    OBVIOUS
  <2>2. Append(After(got, n), got + n + 1) = After(got, n + 1)
    BY OneMore
  <2>3. pipe'[t] = After(got, m)
    BY <1>1, <1>2, <1>4, <2>1, <2>2
  <2>4. Len(After(got, n)) = n
    BY AfterIsASequence
  <2>5. got + m = written'[t] /\ m <= PipeSize /\ written'[t] <= MaxWritten
    BY <1>1, <1>2, <1>4, <2>1, <2>4, Limits
  <2>6. captured'[t] = Retained(got)
    BY <1>1, <1>2
  <2>. QED  BY <2>3, <2>5, <2>6 DEF StreamKept
<1>. QED  BY <1>3, <1>4

(* What a read does to the bytes. *)
LEMMA ReadMoves ==
  ASSUME NEW s \in Streams, Runner!Read(s)
  PROVE  \/ \E i \in 1..Len(pipe[s]) :
              /\ captured' = [captured EXCEPT ![s] = Runner!Retain(captured[s], Section(pipe[s], 1, i))]
              /\ pipe' = [pipe EXCEPT ![s] = Section(pipe[s], i + 1, Len(pipe[s]))]
              /\ reader' = [reader EXCEPT ![s] = "check"]
              /\ written' = written
         \/ UNCHANGED <<written, pipe, captured>>
BY Zenon DEF Runner!Read, Section

LEMMA ReadKeepsStreams ==
  ASSUME RunTypes, StreamsKept, NEW s \in Streams, Runner!Read(s)
  PROVE  StreamsKept'
<1>1. CASE UNCHANGED <<written, pipe, captured>>
  BY <1>1, StreamsStay
<1>2. ASSUME NEW i \in 1..Len(pipe[s]),
             captured' = [captured EXCEPT ![s] = Runner!Retain(captured[s], Section(pipe[s], 1, i))],
             pipe' = [pipe EXCEPT ![s] = Section(pipe[s], i + 1, Len(pipe[s]))],
             written' = written
      PROVE  StreamsKept'
  <2>. SUFFICES ASSUME NEW t \in Streams PROVE StreamKept(t)'
    BY DEF StreamsKept
  <2>1. PICK got \in Nat, n \in Nat :
          /\ got + n = written[t] /\ n <= PipeSize /\ written[t] <= MaxWritten
          /\ pipe[t] = After(got, n) /\ captured[t] = Retained(got)
    BY DEF StreamsKept, StreamKept
  <2>2. CASE t # s
    <3>1. /\ got + n = written'[t] /\ n <= PipeSize /\ written'[t] <= MaxWritten
          /\ pipe'[t] = After(got, n) /\ captured'[t] = Retained(got)
      BY <1>2, <2>1, <2>2 DEF RunTypes
    <3>. QED  BY <3>1 DEF StreamKept
  <2>3. CASE t = s
    <3>1. Len(pipe[s]) = n
      BY <2>1, <2>3, AfterIsASequence
    <3>2. PICK more \in Nat, left \in Nat : i + more = n /\ got + i = left /\ i \in Nat
      BY <1>2, <3>1
    <3>3. PICK next \in Nat : i + 1 = next
      BY <3>2
    <3>4. Section(After(got, n), 1, i) = After(got, i)
      BY <3>2, PartOfAfter
    <3>5. Section(After(got, n), next, n) = After(left, more)
      <4>1. n <= n /\ left + 1 = got + next /\ next + more = n + 1 /\ next \in Nat \ {0}
        BY <3>2, <3>3
      <4>. QED  BY <4>1, PartOfAfter
    <3>6. Runner!Retain(Retained(got), After(got, i)) = Retained(left)
      BY <3>2, RetainsMore
    <3>7. captured'[t] = Retained(left)
      BY <1>2, <2>1, <2>3, <3>4, <3>6 DEF RunTypes
    <3>8. pipe'[t] = After(left, more)
      BY <1>2, <2>1, <2>3, <3>1, <3>3, <3>5 DEF RunTypes
    <3>9. left + more = written'[t] /\ more <= PipeSize /\ written'[t] <= MaxWritten
      BY <1>2, <2>1, <3>2, Limits
    <3>. QED  BY <3>7, <3>8, <3>9 DEF StreamKept
  <2>. QED  BY <2>2, <2>3
<1>. QED  BY <1>1, <1>2, ReadMoves
LEMMA WriteKeeps ==
  ASSUME RunInv, NEW s \in Streams, Runner!Write(s)
  PROVE  RunInv'
<1>. USE DEF RunInv
<1>1. RunTypes'
  BY DEF RunTypes, Runner!Write
<1>2. ChildFollows'
  BY DEF ChildFollows, Runner!Write
<1>3. GroupFollows'
  BY DEF GroupFollows, Runner!Write
<1>4. ReadersFollow'
  BY DEF ReadersFollow, Runner!Write
<1>5. EndsFollow'
  BY DEF EndsFollow, Reached, Runner!HasWriters, Runner!Write
<1>6. ResultFollows'
  BY DEF ResultFollows, Runner!Write
<1>7. StreamsKept'
  BY WriteKeepsStreams
<1>. QED  BY <1>1, <1>2, <1>3, <1>4, <1>5, <1>6, <1>7

LEMMA ForkKeeps ==
  ASSUME RunInv, NEW k \in Kin, NEW where \in {"grouped", "escaped"}, Runner!Fork(k, where)
  PROVE  RunInv'
<1>. USE DEF RunInv
<1>1. RunTypes'
  BY DEF RunTypes, Runner!Fork, Runner!streams
<1>2. ChildFollows'
  BY DEF ChildFollows, Runner!Fork
<1>3. GroupFollows'
  BY DEF ChildFollows, GroupFollows, Runner!Fork, Runner!Alive
<1>4. ReadersFollow'
  BY DEF ReadersFollow, Runner!Fork, Runner!streams
<1>5. EndsFollow'
  BY DEF EndsFollow, Reached, Runner!HasWriters, Runner!Fork, Runner!streams
<1>6. ResultFollows'
  BY DEF ResultFollows, Runner!Fork
<1>7. StreamsKept'
  BY StreamsStay DEF Runner!Fork, Runner!streams
<1>. QED  BY <1>1, <1>2, <1>3, <1>4, <1>5, <1>6, <1>7

LEMMA ExitKeeps ==
  ASSUME RunInv, NEW code \in {"zero", "nonzero", "signal"}, Runner!Exit(code)
  PROVE  RunInv'
<1>. USE DEF RunInv
<1>1. RunTypes'
  BY DEF RunTypes, Runner!Exit, Runner!streams
<1>2. ChildFollows'
  BY DEF ChildFollows, Runner!Exit
<1>3. GroupFollows'
  BY DEF GroupFollows, Runner!Exit
<1>4. ReadersFollow'
  BY DEF ReadersFollow, Runner!Exit, Runner!streams
<1>5. EndsFollow'
  BY DEF EndsFollow, Reached, Runner!HasWriters, Runner!Exit, Runner!streams
<1>6. ResultFollows'
  BY DEF ResultFollows, Runner!Exit
<1>7. StreamsKept'
  BY StreamsStay DEF Runner!Exit, Runner!streams
<1>. QED  BY <1>1, <1>2, <1>3, <1>4, <1>5, <1>6, <1>7

LEMMA DieKeeps ==
  ASSUME RunInv, Runner!Die
  PROVE  RunInv'
<1>. USE DEF RunInv
<1>1. RunTypes'
  BY DEF RunTypes, Runner!Die, Runner!streams
<1>2. ChildFollows'
  BY DEF ChildFollows, Runner!Die
<1>3. GroupFollows'
  BY DEF GroupFollows, Runner!Die
<1>4. ReadersFollow'
  BY DEF ReadersFollow, Runner!Die, Runner!streams
<1>5. EndsFollow'
  BY DEF EndsFollow, Reached, Runner!HasWriters, Runner!Die, Runner!streams
<1>6. ResultFollows'
  BY DEF ResultFollows, Runner!Die
<1>7. StreamsKept'
  BY StreamsStay DEF Runner!Die, Runner!streams
<1>. QED  BY <1>1, <1>2, <1>3, <1>4, <1>5, <1>6, <1>7

LEMMA KinExitsKeeps ==
  ASSUME RunInv, NEW k \in Kin, Runner!KinExits(k)
  PROVE  RunInv'
<1>. USE DEF RunInv
<1>1. RunTypes'
  BY DEF RunTypes, Runner!KinExits, Runner!streams
<1>2. ChildFollows'
  BY DEF ChildFollows, Runner!KinExits
<1>3. GroupFollows'
  BY DEF GroupFollows, Runner!KinExits
<1>4. ReadersFollow'
  BY DEF ReadersFollow, Runner!KinExits, Runner!streams
<1>5. EndsFollow'
  BY DEF EndsFollow, Reached, Runner!HasWriters, Runner!Alive, Runner!KinExits, Runner!streams
<1>6. ResultFollows'
  BY DEF ResultFollows, Runner!KinExits
<1>7. StreamsKept'
  BY StreamsStay DEF Runner!KinExits, Runner!streams
<1>. QED  BY <1>1, <1>2, <1>3, <1>4, <1>5, <1>6, <1>7

LEMMA CheckCancelledKeeps ==
  ASSUME RunInv, NEW s \in Streams, Runner!CheckCancelled(s)
  PROVE  RunInv'
<1>. USE DEF RunInv
<1>1. RunTypes'
  BY DEF RunTypes, Runner!CheckCancelled
<1>2. ChildFollows'
  BY DEF ChildFollows, Runner!CheckCancelled
<1>3. GroupFollows'
  BY DEF GroupFollows, Runner!CheckCancelled
<1>4. ReadersFollow'
  BY DEF ReadersFollow, Runner!CheckCancelled
<1>5. EndsFollow'
  BY DEF EndsFollow, Reached, Runner!HasWriters, Runner!Alive, Runner!CheckCancelled
<1>6. ResultFollows'
  BY DEF ResultFollows, Runner!CheckCancelled
<1>7. StreamsKept'
  BY StreamsStay DEF Runner!CheckCancelled
<1>. QED  BY <1>1, <1>2, <1>3, <1>4, <1>5, <1>6, <1>7

LEMMA ReadKeeps ==
  ASSUME RunInv, NEW s \in Streams, Runner!Read(s)
  PROVE  RunInv'
<1>. USE DEF RunInv
<1>1. RunTypes'
  <2>1. DOMAIN pipe' = Streams /\ DOMAIN captured' = Streams
    BY ReadMoves DEF RunTypes
  <2>2. /\ reader' \in [Streams -> {"none", "check", "read", "done", "failed"}]
        /\ UNCHANGED <<pc, late, child, exit, kin, written, cancelled, drain, errors, result>>
    BY DEF RunTypes, Runner!Read
  <2>. QED  BY <2>1, <2>2 DEF RunTypes
<1>2. ChildFollows'
  BY DEF ChildFollows, Runner!Read
<1>3. GroupFollows'
  BY DEF GroupFollows, Runner!Read
<1>4. ReadersFollow'
  BY DEF RunTypes, ReadersFollow, Runner!Read
<1>5. EndsFollow'
  BY DEF RunTypes, ChildFollows, GroupFollows, ReadersFollow, EndsFollow, Reached, Runner!HasWriters,
     Runner!Alive, Runner!Read, Runner!NothingMore
<1>6. ResultFollows'
  BY DEF ResultFollows, Runner!Read
<1>7. StreamsKept'
  BY ReadKeepsStreams
<1>. QED  BY <1>1, <1>2, <1>3, <1>4, <1>5, <1>6, <1>7

LEMMA DrainOverKeeps ==
  ASSUME RunInv, NEW s \in Streams, Runner!DrainOver(s)
  PROVE  RunInv'
<1>. USE DEF RunInv
<1>1. RunTypes'
  BY DEF RunTypes, Runner!DrainOver
<1>2. ChildFollows'
  BY DEF ChildFollows, Runner!DrainOver
<1>3. GroupFollows'
  BY DEF GroupFollows, Runner!DrainOver
<1>4. ReadersFollow'
  BY DEF ReadersFollow, Runner!DrainOver
<1>5. EndsFollow'
  BY DEF EndsFollow, Reached, Runner!HasWriters, Runner!Alive, Runner!DrainOver
<1>6. ResultFollows'
  BY DEF ResultFollows, Runner!DrainOver
<1>7. StreamsKept'
  BY StreamsStay DEF Runner!DrainOver
<1>. QED  BY <1>1, <1>2, <1>3, <1>4, <1>5, <1>6, <1>7

LEMMA SpawnKeepsRun ==
  ASSUME RunInv, Runner!Spawn
  PROVE  RunInv'
<1>. USE DEF RunInv
<1>1. RunTypes'
  BY DEF RunTypes, Runner!Spawn, Runner!streams, Runner!Goto, Runner!Fails
<1>2. ChildFollows'
  BY DEF ChildFollows, Ended, Runner!Spawn, Runner!Goto, Runner!Fails
<1>3. GroupFollows'
  BY DEF GroupFollows, Ended, Runner!Spawn, Runner!Goto, Runner!Fails
<1>4. ReadersFollow'
  BY DEF ReadersFollow, Ended, Runner!Spawn, Runner!streams, Runner!Goto, Runner!Fails
<1>5. EndsFollow'
  BY DEF ReadersFollow, EndsFollow, Runner!Spawn, Runner!streams, Runner!Goto
<1>6. ResultFollows'
  BY DEF ChildFollows, ResultFollows, Runner!Spawn, Runner!Goto
<1>7. StreamsKept'
  BY StreamsStay DEF Runner!Spawn, Runner!streams
<1>. QED  BY <1>1, <1>2, <1>3, <1>4, <1>5, <1>6, <1>7

LEMMA TakePipesKeeps ==
  ASSUME RunInv, Runner!TakePipes
  PROVE  RunInv'
<1>. USE DEF RunInv
<1>1. RunTypes'
  BY DEF RunTypes, Runner!TakePipes, Runner!Goto, Runner!Fails
<1>2. ChildFollows'
  BY DEF ChildFollows, Ended, Runner!TakePipes, Runner!Goto
<1>3. GroupFollows'
  BY DEF GroupFollows, Ended, Runner!TakePipes, Runner!Goto
<1>4. ReadersFollow'
  BY DEF ReadersFollow, Ended, Runner!TakePipes, Runner!Goto, Runner!Fails
<1>5. EndsFollow'
  BY DEF ReadersFollow, EndsFollow, Runner!TakePipes, Runner!Goto
<1>6. ResultFollows'
  BY DEF ResultFollows, Runner!TakePipes, Runner!Goto
<1>7. StreamsKept'
  BY StreamsStay DEF Runner!TakePipes
<1>. QED  BY <1>1, <1>2, <1>3, <1>4, <1>5, <1>6, <1>7

LEMMA TimeoutKeeps ==
  ASSUME RunInv, Runner!Timeout
  PROVE  RunInv'
<1>. USE DEF RunInv
<1>1. RunTypes'
  BY DEF RunTypes, Runner!Timeout, Runner!streams
<1>2. ChildFollows'
  BY DEF ChildFollows, Runner!Timeout
<1>3. GroupFollows'
  BY DEF GroupFollows, Runner!Timeout
<1>4. ReadersFollow'
  BY DEF ReadersFollow, Runner!Timeout, Runner!streams
<1>5. EndsFollow'
  BY DEF EndsFollow, Reached, Runner!HasWriters, Runner!Alive, Runner!Timeout, Runner!streams
<1>6. ResultFollows'
  BY DEF ResultFollows, Runner!Timeout
<1>7. StreamsKept'
  BY StreamsStay DEF Runner!Timeout, Runner!streams
<1>. QED  BY <1>1, <1>2, <1>3, <1>4, <1>5, <1>6, <1>7

LEMMA PollKeeps ==
  ASSUME RunInv, Runner!Poll
  PROVE  RunInv'
<1>. USE DEF RunInv
<1>1. RunTypes'
  BY DEF RunTypes, Runner!Poll, Runner!streams, Runner!Goto, Runner!Fails
<1>2. ChildFollows'
  BY DEF ChildFollows, Ended, Runner!Poll, Runner!Goto
<1>3. GroupFollows'
  BY DEF GroupFollows, Ended, Runner!Poll, Runner!Goto
<1>4. ReadersFollow'
  BY DEF ReadersFollow, Ended, Runner!Poll, Runner!streams, Runner!Goto, Runner!Fails
<1>5. EndsFollow'
  BY DEF EndsFollow, Reached, Runner!HasWriters, Runner!Alive, Runner!Poll, Runner!streams, Runner!Fails
<1>6. ResultFollows'
  BY Limits DEF RunTypes, ResultFollows, Runner!Poll, Runner!Goto
<1>7. StreamsKept'
  BY StreamsStay DEF Runner!Poll, Runner!streams
<1>. QED  BY <1>1, <1>2, <1>3, <1>4, <1>5, <1>6, <1>7

LEMMA KillGroupKeeps ==
  ASSUME RunInv, Runner!KillGroup
  PROVE  RunInv'
<1>. USE DEF RunInv
<1>1. RunTypes'
  BY DEF RunTypes, Runner!KillGroup, Runner!streams, Runner!Goto, Runner!GroupKilled, Runner!ChildKilled
<1>2. ChildFollows'
  BY DEF ChildFollows, Ended, Runner!KillGroup, Runner!Goto, Runner!ChildKilled
<1>3. GroupFollows'
  BY DEF GroupFollows, Runner!KillGroup, Runner!GroupKilled
<1>4. ReadersFollow'
  BY DEF ReadersFollow, Ended, Runner!KillGroup, Runner!streams, Runner!Goto
<1>5. EndsFollow'
  BY DEF EndsFollow, Reached, Runner!HasWriters, Runner!Alive, Runner!KillGroup, Runner!streams,
     Runner!GroupKilled, Runner!ChildKilled
<1>6. ResultFollows'
  BY DEF ResultFollows, Runner!KillGroup, Runner!Goto, Runner!ChildKilled
<1>7. StreamsKept'
  BY StreamsStay DEF Runner!KillGroup, Runner!streams
<1>. QED  BY <1>1, <1>2, <1>3, <1>4, <1>5, <1>6, <1>7

LEMMA KillDirectKeeps ==
  ASSUME RunInv, Runner!KillDirect
  PROVE  RunInv'
<1>. USE DEF RunInv
<1>1. RunTypes'
  BY DEF RunTypes, Runner!KillDirect, Runner!streams, Runner!Goto, Runner!Fails, Runner!Collect
<1>2. ChildFollows'
  BY DEF ChildFollows, Runner!KillDirect, Runner!Goto, Runner!Fails, Runner!Collect
<1>3. GroupFollows'
  BY DEF GroupFollows, Runner!KillDirect, Runner!Goto, Runner!Fails
<1>4. ReadersFollow'
  BY DEF ReadersFollow, Ended, Runner!KillDirect, Runner!streams, Runner!Goto, Runner!Fails,
     Runner!Collect
<1>5. EndsFollow'
  BY DEF EndsFollow, Reached, Runner!HasWriters, Runner!Alive, Runner!KillDirect, Runner!streams,
     Runner!Fails
<1>6. ResultFollows'
  BY DEF ResultFollows, Runner!KillDirect, Runner!Goto, Runner!Collect
<1>7. StreamsKept'
  BY StreamsStay DEF Runner!KillDirect, Runner!streams
<1>. QED  BY <1>1, <1>2, <1>3, <1>4, <1>5, <1>6, <1>7

LEMMA ReapKeeps ==
  ASSUME RunInv, Runner!Reap
  PROVE  RunInv'
<1>. USE DEF RunInv
<1>1. RunTypes'
  BY DEF RunTypes, Runner!Reap, Runner!streams, Runner!Goto, Runner!Fails, Runner!Collect
<1>2. ChildFollows'
  BY DEF ChildFollows, Runner!Reap, Runner!Goto, Runner!Fails, Runner!Collect
<1>3. GroupFollows'
  BY DEF GroupFollows, Runner!Reap, Runner!Goto, Runner!Fails
<1>4. ReadersFollow'
  BY DEF ReadersFollow, Ended, Runner!Reap, Runner!streams, Runner!Goto, Runner!Fails, Runner!Collect
<1>5. EndsFollow'
  BY DEF EndsFollow, Reached, Runner!HasWriters, Runner!Alive, Runner!Reap, Runner!streams, Runner!Fails
<1>6. ResultFollows'
  BY DEF ResultFollows, Runner!Reap, Runner!Goto, Runner!Collect
<1>7. StreamsKept'
  BY StreamsStay DEF Runner!Reap, Runner!streams
<1>. QED  BY <1>1, <1>2, <1>3, <1>4, <1>5, <1>6, <1>7

LEMMA SweepKeeps ==
  ASSUME RunInv, Runner!Sweep
  PROVE  RunInv'
<1>. USE DEF RunInv
<1>1. RunTypes'
  BY DEF RunTypes, Runner!Sweep, Runner!streams, Runner!Goto, Runner!Fails, Runner!GroupKilled
<1>2. ChildFollows'
  BY DEF ChildFollows, Runner!Sweep, Runner!Goto, Runner!Fails
<1>3. GroupFollows'
  BY DEF GroupFollows, Runner!Sweep, Runner!Fails, Runner!GroupKilled
<1>4. ReadersFollow'
  BY DEF ReadersFollow, Ended, Runner!Sweep, Runner!streams, Runner!Goto, Runner!Fails
<1>5. EndsFollow'
  BY DEF EndsFollow, Reached, Runner!HasWriters, Runner!Alive, Runner!Sweep, Runner!streams,
     Runner!Fails, Runner!GroupKilled
<1>6. ResultFollows'
  BY DEF ResultFollows, Runner!Sweep, Runner!Goto
<1>7. StreamsKept'
  BY StreamsStay DEF Runner!Sweep, Runner!streams
<1>. QED  BY <1>1, <1>2, <1>3, <1>4, <1>5, <1>6, <1>7

LEMMA FinishKeeps ==
  ASSUME RunInv, Runner!Finish
  PROVE  RunInv'
<1>. USE DEF RunInv
<1>1. RunTypes'
  BY DEF RunTypes, Runner!Finish, Runner!streams, Runner!Goto
<1>2. ChildFollows'
  BY DEF ChildFollows, Runner!Finish, Runner!Goto
<1>3. GroupFollows'
  BY DEF GroupFollows, Runner!Finish, Runner!Goto
<1>4. ReadersFollow'
  BY DEF ReadersFollow, Ended, Runner!Finish, Runner!streams, Runner!Goto
<1>5. EndsFollow'
  BY DEF EndsFollow, Reached, Runner!HasWriters, Runner!Alive, Runner!Finish, Runner!streams
<1>6. ResultFollows'
  BY DEF ResultFollows, Runner!Finish, Runner!Goto
<1>7. StreamsKept'
  BY StreamsStay DEF Runner!Finish, Runner!streams
<1>. QED  BY <1>1, <1>2, <1>3, <1>4, <1>5, <1>6, <1>7

LEMMA JoinKeeps ==
  ASSUME RunInv, Runner!Join
  PROVE  RunInv'
<1>. USE DEF RunInv
<1>1. RunTypes'
  BY DEF RunTypes, Runner!Join, Runner!streams, Runner!Goto
<1>2. ChildFollows'
  BY DEF ChildFollows, Ended, Runner!Join, Runner!Goto
<1>3. GroupFollows'
  BY DEF GroupFollows, Ended, Runner!Join, Runner!Goto
<1>4. ReadersFollow'
  BY DEF ReadersFollow, Ended, Runner!Join, Runner!streams, Runner!Goto
<1>5. EndsFollow'
  BY DEF EndsFollow, Reached, Runner!HasWriters, Runner!Alive, Runner!Join, Runner!streams
<1>6. ResultFollows'
  BY DEF ResultFollows, Runner!Join, Runner!Goto
<1>7. StreamsKept'
  BY StreamsStay DEF Runner!Join, Runner!streams
<1>. QED  BY <1>1, <1>2, <1>3, <1>4, <1>5, <1>6, <1>7

LEMMA GiveUpKeeps ==
  ASSUME RunInv, Runner!GiveUpJoining
  PROVE  RunInv'
<1>. USE DEF RunInv
<1>1. RunTypes'
  BY DEF RunTypes, Runner!GiveUpJoining, Runner!streams, Runner!Goto, Runner!Fails
<1>2. ChildFollows'
  BY DEF ChildFollows, Runner!GiveUpJoining, Runner!Goto, Runner!Fails
<1>3. GroupFollows'
  BY DEF GroupFollows, Runner!GiveUpJoining, Runner!Fails
<1>4. ReadersFollow'
  BY DEF ReadersFollow, Ended, Runner!GiveUpJoining, Runner!streams, Runner!Goto, Runner!Fails
<1>5. EndsFollow'
  BY DEF EndsFollow, Reached, Runner!GiveUpJoining, Runner!Fails
<1>6. ResultFollows'
  BY DEF ResultFollows, Runner!GiveUpJoining, Runner!Goto
<1>7. StreamsKept'
  BY StreamsStay DEF Runner!GiveUpJoining, Runner!streams
<1>. QED  BY <1>1, <1>2, <1>3, <1>4, <1>5, <1>6, <1>7

LEMMA ReturnKeeps ==
  ASSUME RunInv, Runner!Return
  PROVE  RunInv'
<1>. USE DEF RunInv
<1>1. RunTypes'
  BY DEF RunTypes, Runner!Return, Runner!streams, Runner!Goto
<1>2. ChildFollows'
  BY DEF ChildFollows, Ended, Runner!Return, Runner!Goto
<1>3. GroupFollows'
  BY DEF GroupFollows, Ended, Runner!Return, Runner!Goto
<1>4. ReadersFollow'
  BY DEF ReadersFollow, Ended, Runner!Return, Runner!streams, Runner!Goto
<1>5. EndsFollow'
  BY DEF EndsFollow, Reached, Runner!HasWriters, Runner!Alive, Runner!Return, Runner!streams
<1>6. ResultFollows'
  BY DEF ResultFollows, Runner!Return, Runner!Goto
<1>7. StreamsKept'
  BY StreamsStay DEF Runner!Return, Runner!streams
<1>. QED  BY <1>1, <1>2, <1>3, <1>4, <1>5, <1>6, <1>7

-----------------------------------------------------------------------------
(* Half of the behaviours are bounded runs. *)
RunsInv == part = "run" => RunInv

LEMMA RunsStart == MCInit => RunsInv
<1>. SUFFICES ASSUME MCInit, part = "run" PROVE RunInv
  BY DEF RunsInv
<1>1. pc = "spawn" /\ Runner!Unstarted
  BY DEF MCInit
<1>2. RunTypes
  BY <1>1, Limits DEF Runner!Unstarted, RunTypes
<1>3. ChildFollows /\ GroupFollows /\ ReadersFollow /\ EndsFollow /\ ResultFollows
  BY <1>1, Limits
     DEF Runner!Unstarted, Ended, ChildFollows, GroupFollows, ReadersFollow, EndsFollow, ResultFollows
<1>4. ASSUME NEW s \in Streams PROVE StreamKept(s)
  <2>1. written[s] = 0 /\ pipe[s] = <<>> /\ captured[s] = Runner!Nothing
    BY <1>1 DEF Runner!Unstarted
  <2>2. After(0, 0) = <<>> /\ 0 \in Nat
    BY DEF After
  <2>3. Retained(0) = Runner!Nothing
    <3>1. HeadLen(0) = 0 /\ TailLen(0) = 0 /\ 0 - 0 = 0 /\ (0 > HeadCap) = FALSE
      BY Limits DEF HeadLen, TailLen
    <3>. QED  BY <2>2, <3>1, Zenon DEF Retained, Runner!Nothing
  <2>4. 0 + 0 = written[s] /\ 0 <= PipeSize /\ written[s] <= MaxWritten
    BY <2>1, Limits
  <2>. QED  BY <2>1, <2>2, <2>3, <2>4 DEF StreamKept
<1>. QED  BY <1>2, <1>3, <1>4 DEF RunInv, StreamsKept

LEMMA RunStays ==
  ASSUME RunInv, UNCHANGED runner
  PROVE  RunInv'
<1>1. UNCHANGED <<written, pipe, captured>>
  BY DEF runner
<1>2. RunTypes' /\ ChildFollows'
  BY DEF RunInv, RunTypes, ChildFollows, runner
<1>3. GroupFollows' /\ ReadersFollow'
  BY DEF RunInv, GroupFollows, ReadersFollow, runner
<1>4. EndsFollow' /\ ResultFollows'
  BY DEF RunInv, EndsFollow, Reached, Runner!HasWriters, Runner!Alive, ResultFollows, runner
<1>. QED  BY <1>1, <1>2, <1>3, <1>4, StreamsStay DEF RunInv

LEMMA RunSteps ==
  ASSUME RunInv, Runner!Next
  PROVE  RunInv'
<1>1. CASE Runner!Programs
  BY <1>1, WriteKeeps, ForkKeeps, ExitKeeps, DieKeeps, KinExitsKeeps DEF Runner!Programs
<1>2. CASE Runner!Caller
  BY <1>2, SpawnKeepsRun, TakePipesKeeps, PollKeeps, KillGroupKeeps, KillDirectKeeps, ReapKeeps,
     SweepKeeps,
     FinishKeeps, JoinKeeps, ReturnKeeps DEF Runner!Caller
<1>3. CASE \E s \in Streams : Runner!CheckCancelled(s) \/ Runner!Read(s) \/ Runner!DrainOver(s)
  BY <1>3, CheckCancelledKeeps, ReadKeeps, DrainOverKeeps
<1>. QED  BY <1>1, <1>2, <1>3, GiveUpKeeps, TimeoutKeeps DEF Runner!Next

LEMMA RunsStep == RunsInv /\ [MCNext]_<<part, vars, runner>> => RunsInv'
<1>. SUFFICES ASSUME RunsInv, [MCNext]_<<part, vars, runner>>, part' = "run" PROVE RunInv'
  BY DEF RunsInv
<1>1. part = "run" /\ RunInv
  BY DEF RunsInv, MCNext
<1>2. Runner!Next \/ UNCHANGED runner
  BY <1>1 DEF MCNext
<1>. QED  BY <1>1, <1>2, RunSteps, RunStays

-----------------------------------------------------------------------------
LEMMA EmptySection ==
  ASSUME NEW a \in Seq(Nat), NEW i \in Nat, NEW j \in Nat, i > j
  PROVE  SubSeq(a, i, j) = <<>>
BY SubSeqProperties, EmptySeq

(* What is retained of the first bytes is what RetainsBothEnds asks for. *)
LEMMA BothEnds ==
  ASSUME NEW got \in Nat
  PROVE  /\ Retained(got).head = Runner!Prefix(IF got < HeadCap THEN got ELSE HeadCap)
         /\ Retained(got).truncated = (got > HeadCap)
         /\ Retained(got).tail = SubSeq(Runner!Prefix(got),
                                        IF got - TailCap > HeadCap THEN got - TailCap + 1 ELSE HeadCap + 1, got)
<1>1. ASSUME NEW n \in Nat PROVE Runner!Prefix(n) = After(0, n)
  BY DEF Runner!Prefix, After
<1>2. Retained(got).head = Runner!Prefix(HeadLen(got))
  BY <1>1, Sizes DEF Retained
<1>3. PICK from \in Nat, t \in Nat : t = TailLen(got) /\ from = got - t
  BY Sizes
<1>. DEFINE first == IF got - TailCap > HeadCap THEN got - TailCap + 1 ELSE HeadCap + 1
<1>4. After(from, t) = SubSeq(After(0, got), first, got)
  <2>1. CASE got <= HeadCap
    <3>1. t = 0 /\ first \in Nat /\ first > got
      BY <1>3, <2>1, Limits DEF TailLen
    <3>2. After(0, got) \in Seq(Nat)
      BY AfterIsASequence
    <3>3. SubSeq(After(0, got), first, got) = <<>>
      BY <3>1, <3>2, EmptySection, Zenon
    <3>. QED  BY <3>1, <3>3, NoBytes
  <2>2. CASE got > HeadCap
    <3>1. PICK next \in Nat : next = first
      <4>1. first \in Nat
        BY Limits
      <4>. QED  BY <4>1, Zenon
    <3>2. got <= got /\ from + 1 = 0 + next /\ next + t = got + 1 /\ next \in Nat \ {0}
      BY <1>3, <2>2, <3>1, Limits DEF TailLen
    <3>3. Section(After(0, got), next, got) = After(from, t)
      BY <3>2, PartOfAfter
    <3>. QED  BY <3>1, <3>3, Zenon DEF Section
  <2>. QED  BY <2>1, <2>2, Limits
<1>5. Retained(got).tail = After(from, t)
  BY <1>3 DEF Retained
<1>. QED  BY <1>1, <1>2, <1>4, <1>5, Zenon DEF Retained, HeadLen

LEMMA StreamTypes ==
  ASSUME NEW s \in Streams, StreamKept(s)
  PROVE  /\ written[s] \in 0..MaxWritten
         /\ captured[s] \in Runner!Captures
         /\ pipe[s] \in Seq(1..MaxWritten) /\ Len(pipe[s]) <= PipeSize
         /\ written[s] - Len(pipe[s]) \in Nat /\ captured[s] = Retained(written[s] - Len(pipe[s]))
<1>1. PICK got \in Nat, n \in Nat :
        /\ got + n = written[s] /\ n <= PipeSize /\ written[s] <= MaxWritten
        /\ pipe[s] = After(got, n) /\ captured[s] = Retained(got)
  BY DEF StreamKept
<1>2. Len(pipe[s]) = n
  BY <1>1, AfterIsASequence
<1>3. Retained(got) \in Runner!Captures
  <2>1. After(0, HeadLen(got)) \in Seq(Nat) /\ After(got - TailLen(got), TailLen(got)) \in Seq(Nat)
    BY Sizes, AfterIsASequence
  <2>. QED  BY <2>1, Limits DEF Retained, Runner!Captures
<1>4. After(got, n) \in Seq(1..MaxWritten)
  <2>1. \A i \in 1..n : got + i \in 1..MaxWritten
    BY <1>1, Limits
  <2>. QED  BY <2>1 DEF After
<1>5. got = written[s] - n
  BY <1>1
<1>. QED  BY <1>1, <1>2, <1>3, <1>4, <1>5, Limits

LEMMA RunIsHonest ==
  ASSUME RunInv
  PROVE  Runner!TypeOK /\ Runner!RetainsBothEnds /\ Runner!LeavesNothing /\ Runner!HonestStatus
<1>1. Runner!TypeOK
  BY StreamTypes DEF RunInv, RunTypes, StreamsKept, Runner!TypeOK
<1>2. Runner!RetainsBothEnds
  BY StreamTypes, BothEnds DEF RunInv, StreamsKept, Runner!RetainsBothEnds
<1>3. Runner!LeavesNothing
  BY DEF RunInv, ChildFollows, GroupFollows, ReadersFollow, EndsFollow, ResultFollows, Reached, Ended,
         Runner!LeavesNothing, Runner!Returned
<1>4. Runner!HonestStatus
  BY Limits DEF RunInv, ChildFollows, ResultFollows, Ended, Runner!HonestStatus, Runner!Returned
<1>. QED  BY <1>1, <1>2, <1>3, <1>4

(* However its program writes, forks, ends and keeps its pipes open, and whatever the readers and the  *)
(* kernel do to the calling thread, a bounded run retains both ends of each stream, leaves nothing of  *)
(* its group alive and reports its child's own status (run_bounded_command).                           *)
THEOREM EveryRunIsHonest == MCSpec => []HonestRuns
<1>1. RunsInv => HonestRuns
  BY RunIsHonest DEF RunsInv, HonestRuns
<1>. QED  BY <1>1, RunsStart, RunsStep, PTL DEF MCSpec
=============================================================================
