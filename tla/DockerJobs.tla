----------------------------- MODULE DockerJobs -----------------------------
(***************************************************************************)
(* The calls that drive Docker: the jobs task_image_python_run,            *)
(* artifact_build_check_run and compose_stack_run                          *)
(* (crates/core/src/process/task_image.rs, artifact_build.rs,              *)
(* compose_stack.rs), and image_cleanliness_check_run                      *)
(* (server/src/tools/process/containers.rs).                               *)
(*                                                                         *)
(* A job plans its names when it is called and then runs up to four Docker *)
(* commands, each bounded by the process runner.  The runner kills the     *)
(* docker client, not the daemon: what a killed client had asked for may   *)
(* have been made, may never be made, or may be made later.  A container   *)
(* outlives the client that started it.                                    *)
(***************************************************************************)
EXTENDS Naturals, FiniteSets

CONSTANTS Jobs,      \* calls with dry_run: false and the right phrase, in any order
          Kinds,     \* the tools called: a subset of {"task", "artifact", "compose", "find"}
          Project,   \* contextpatch-proof-<action>, for the action all compose jobs name
          Operator,  \* whoever uses Docker by hand, none of the jobs
          None       \* a command that was not run

\* Names given by hand are neither a fresh name nor the name of an action's project.
ConstantsAreSane ==
  /\ IsFiniteSet(Jobs) /\ Operator \notin Jobs
  /\ Kinds \subseteq {"task", "artifact", "compose", "find"}
  /\ None \notin {"task", "artifact", "compose", "find", "ok", "failed", "daemon", "timeout", "error",
                 "completed", "timed_out"}
  /\ Operator # Project /\ {None, Project, Operator} \cap (Nat \X Nat) = {}

VARIABLES job,     \* per call: tool, names, progress and the results of its commands
          docker,  \* what the daemon holds: [type, name, maker]
          late,    \* what the daemon may still make for clients that were killed
          plans,   \* NEXT_JOB, COUNTER: plans made by this server process
          clock    \* SystemTime::now, which may stand still between two plans

vars == <<job, docker, late, plans, clock>>

\* How a bounded command ends: exit 0, another code, the code of a daemon that
\* failed to start the container (125), the deadline, an error of the runner itself or
\* a client ended by a signal (-1).
Outcomes == {"ok", "failed", "daemon", "timeout", "error"}

\* Faulty variant of Unique: a name is unique by the clock alone.
UniqueByClock == <<clock>>
\* task_image_identity and unique_suffix: a clock reading, made unique within the
\* process by a counter.
Unique == <<clock, plans>>

\* What the calls plan: the first command, and the name all their commands use.  Compose
\* uses the project name of the action; the container of a search has no name.
TaskPlan == [kind |-> "task", name |-> Unique, first |-> "build"]
ArtifactPlan == [kind |-> "artifact", name |-> Unique, first |-> "build"]
ComposePlan == [kind |-> "compose", name |-> Project, first |-> "up"]
FindPlan == [kind |-> "find", name |-> None, first |-> "find"]

Object(t, j) == [type |-> t, name |-> job[j].name, maker |-> j]
Named(t, j) == {o \in docker : o.type = t /\ o.name = job[j].name}

\* What a command makes and what it removes.
Makes(stage) == CASE stage = "build" -> "tag"
                  [] stage \in {"run", "smoke", "find"} -> "container"
                  [] OTHER -> "stack"
Removes(stage) == CASE stage = "rm" -> "container"
                    [] stage = "rmi" -> "tag"
                    [] OTHER -> "stack"

NewJob == [kind |-> None, name |-> None, stage |-> "idle", client |-> FALSE,
           result |-> [s \in {"build", "run", "smoke", "rm", "rmi", "up", "down", "find"} |-> None],
           status |-> None, clean |-> FALSE]

TypeOK ==
  /\ \A j \in Jobs : /\ job[j].kind \in Kinds \cup {None}
                     /\ \A s \in DOMAIN job[j].result : job[j].result[s] \in Outcomes \cup {None}
                     /\ job[j].status \in {None, "completed", "failed", "timed_out"}
  /\ \A o \in docker \cup late : /\ o.type \in {"tag", "container", "stack"}
                                 /\ o.maker \in Jobs \cup {Operator}
  /\ plans \in 0..Cardinality(Jobs) /\ clock \in 0..1

Init ==
  /\ job = [j \in Jobs |-> NewJob]
  /\ docker = {[type |-> "stack", name |-> Operator, maker |-> Operator]}
  /\ late = {} /\ plans = 0 /\ clock = 0

Tick == clock = 0 /\ clock' = 1 /\ UNCHANGED <<job, docker, late, plans>>

\* The call: plan, take a permit, start the worker.  A dry run and a missing
\* confirmation end after the plan.
Plan(j, p) ==
  /\ job[j].stage = "idle" /\ p.kind \in Kinds
  /\ job' = [job EXCEPT ![j].kind = p.kind, ![j].name = p.name, ![j].stage = p.first]
  /\ plans' = plans + 1
  /\ UNCHANGED <<docker, late, clock>>

\* A command is started; a client that cannot be spawned asks for nothing.
Launch(j) ==
  /\ job[j].stage \notin {"idle", "end"} /\ ~job[j].client
  /\ job' = [job EXCEPT ![j].client = TRUE]
  /\ \/ UNCHANGED docker
     \/ job[j].stage = "up" /\ docker' = docker \cup {Object("stack", j)}
  /\ UNCHANGED <<late, plans, clock>>

\* run_task_image_python, run_artifact_build_check and run_compose_stack: the command
\* after one that ended with an outcome.
AfterTask(s, o) == CASE s = "build" -> IF o = "ok" THEN "run" ELSE "rmi"
                     [] s = "run"   -> IF o \in {"ok", "failed"} THEN "rmi" ELSE "rm"
                     [] s = "rm"    -> "rmi"
                     [] OTHER       -> "end"
AfterArtifact(s, o) == CASE s = "build" -> IF o = "ok" THEN "smoke" ELSE "rmi"
                         [] s = "smoke" -> "rmi"
                         [] OTHER       -> "end"
AfterCompose(s) == IF s = "up" THEN "down" ELSE "end"
Following(k, s, o) == CASE k = "task"     -> AfterTask(s, o)
                        [] k = "artifact" -> AfterArtifact(s, o)
                        [] k = "compose"  -> AfterCompose(s)
                        [] OTHER          -> "end"

\* Faulty variant of TaskSucceeded: the cleanups do not count.
TaskSucceededAnyway(r) == r.build = "ok" /\ r.run = "ok"
\* success(): a task image counts its cleanups, the others report them apart.
TaskSucceeded(r) == r.build = "ok" /\ r.run = "ok" /\ r.rm \in {"ok", None} /\ r.rmi \in {"ok", None}
ArtifactSucceeded(r) == r.build = "ok" /\ r.smoke = "ok"
ComposeSucceeded(r) == r.up = "ok"
FindSucceeded(r) == r.find = "ok"
Succeeded(k, r) == \/ k = "task" /\ TaskSucceeded(r)
                   \/ k = "artifact" /\ ArtifactSucceeded(r)
                   \/ k = "compose" /\ ComposeSucceeded(r)
                   \/ k = "find" /\ FindSucceeded(r)
TimedOut(k, r) ==
  \/ "timeout" \in {r.build, r.smoke, r.up, r.find}
  \/ k = "task" /\ "timeout" \in {r.run, r.rm, r.rmi}
Verdict(k, r) == IF TimedOut(k, r) THEN "timed_out"
                 ELSE IF Succeeded(k, r) THEN "completed" ELSE "failed"
\* teardown_clean and cleanup_clean; the verdict of a task image includes its cleanups.
ReportedClean(k, r) == \/ k \in {"task", "find"}
                       \/ k = "artifact" /\ r.rmi = "ok"
                       \/ k = "compose" /\ r.down = "ok"

End(j, o) ==
  LET s == job[j].stage
      r == [job[j].result EXCEPT ![s] = o]
      k == job[j].kind
      t == Following(k, s, o)
  IN job' = [job EXCEPT ![j] =
       IF t = "end" THEN [@ EXCEPT !.client = FALSE, !.stage = t, !.result = NewJob.result,
                                   !.status = Verdict(k, r), !.clean = ReportedClean(k, r)]
       ELSE [@ EXCEPT !.client = FALSE, !.stage = t, !.result = r]]

\* docker build --tag, docker run --rm, docker compose up.  The daemon tags an image
\* when the build succeeds and removes the container of a run that ends.  A client
\* that was killed leaves its request done, undone or still to be done.
EndOfMaker(j, o) ==
  LET made == Object(Makes(job[j].stage), j)
  IN
  /\ job[j].client /\ job[j].stage \in {"build", "run", "smoke", "find", "up"}
  /\ o = "daemon" => job[j].stage \in {"run", "smoke", "find"}
  /\ o = "ok" => (job[j].stage = "up" => made \in docker)   \* a stack taken down aborts `up`
  /\ End(j, o)
  /\ \/ o = "ok" /\ job[j].stage = "build" /\ docker' = docker \cup {made} /\ UNCHANGED late
     \/ (o = "ok" => job[j].stage # "build") /\ UNCHANGED <<docker, late>>
     \/ o \in {"timeout", "error", "daemon"} /\ docker' = docker \cup {made} /\ UNCHANGED late
     \/ o \in {"timeout", "error"} /\ late' = late \cup {made} /\ UNCHANGED docker
  /\ UNCHANGED <<plans, clock>>

\* docker rm --force, docker image rm --force, docker compose down: by name.
EndOfCleanup(j, o) ==
  /\ job[j].client /\ job[j].stage \in {"rm", "rmi", "down"}
  /\ o # "daemon"
  /\ End(j, o)
  /\ docker' \in IF o = "ok" THEN {docker \ Named(Removes(job[j].stage), j)}
                 ELSE {docker, docker \ Named(Removes(job[j].stage), j)}
  /\ UNCHANGED <<late, plans, clock>>

\* The daemon completes what a killed client had asked for, and containers end.
DaemonCatchesUp == \E o \in late : /\ late' = late \ {o} /\ docker' \in {docker, docker \cup {o}}
                                   /\ UNCHANGED <<job, plans, clock>>
ContainerEnds == \E o \in docker : /\ o.type = "container" /\ docker' = docker \ {o}
                                   /\ UNCHANGED <<job, late, plans, clock>>

Command(j) == \/ Launch(j)
              \/ \E o \in Outcomes : EndOfMaker(j, o) \/ EndOfCleanup(j, o)

Next == \/ Tick \/ DaemonCatchesUp \/ ContainerEnds
        \/ \E j \in Jobs : Command(j) \/ \E p \in {TaskPlan, ArtifactPlan, ComposePlan, FindPlan} : Plan(j, p)

Spec == Init /\ [][Next]_vars

-----------------------------------------------------------------------------
(* Properties *)

\* A job's commands remove no image and no container another job made, and nothing
\* the operator runs by hand.  (Two compose jobs of one action do share a project:
\* the teardown of one takes down the stack of the other.)
LeavesOthersAlone ==
  \A j \in Jobs : Command(j) =>
    \A o \in docker \ docker' : o.maker = j \/ (job[j].kind = "compose" /\ o.maker \in Jobs)

\* A task-image job reported completed, a search that succeeded, and an artifact or
\* compose job that also reports a clean removal, have left nothing they made: no
\* container, no execution image, no stack; nor will the daemon make any of it later.
CompletedIsClean ==
  \A j \in Jobs : job[j].status = "completed" /\ job[j].clean =>
     \A o \in docker \cup late : o.maker # j
=============================================================================
