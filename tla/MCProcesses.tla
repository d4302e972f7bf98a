----------------------------- MODULE MCProcesses -----------------------------
(***************************************************************************)
(* What outlives a handler: two attempts to start a job for one permit     *)
(* (BackgroundJobs), or one bounded run of a program that may leave a      *)
(* process behind (ProcessRunner), one of them in each behaviour.          *)
(***************************************************************************)
EXTENDS BackgroundJobs

CONSTANTS j1, j2, Streams, Kin, PipeSize, MaxWritten, HeadCap, TailCap, Faults

VARIABLES part, pc, late, child, exit, kin, pipe, written, reader, cancelled, drain, captured, errors, result

runner == <<pc, late, child, exit, kin, pipe, written, reader, cancelled, drain, captured, errors, result>>

Runner == INSTANCE ProcessRunner

ASSUME RunnerIsSane == Runner!ConstantsAreSane

MCInit ==
  /\ Init /\ Runner!Unstarted
  /\ \/ part = "job" /\ pc = "returned"
     \/ part = "run" /\ pc = "spawn"

MCNext ==
  \/ part = "job" /\ Next /\ UNCHANGED <<part, runner>>
  \/ part = "run" /\ Runner!Next /\ UNCHANGED <<part, vars>>

MCSpec ==
  /\ MCInit /\ [][MCNext]_<<part, vars, runner>>
  /\ \A j \in Jobs : WF_vars(Starting(j)) /\ WF_vars(Running(j))
  /\ Runner!Fairness

-----------------------------------------------------------------------------
(* Every job that got its permit ends with a final status and gives the   *)
(* permit back, however its work and its writes end (BackgroundJobs).      *)
EveryJobEnds == EveryJobIsSettled /\ EveryPermitReturns

(* A bounded run retains both ends of what the program wrote, reports the  *)
(* status it ended with, and leaves nothing of its group alive             *)
(* (ProcessRunner).                                                        *)
HonestRuns ==
  part = "run" => Runner!TypeOK /\ Runner!RetainsBothEnds /\ Runner!LeavesNothing /\ Runner!HonestStatus

(* Every bounded run returns, whatever the program does (ProcessRunner).   *)
EveryRunReturns == Runner!EveryRunReturns
=============================================================================
