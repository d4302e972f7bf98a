--------------------------- MODULE ProcessRunner ---------------------------
(***************************************************************************)
(* One bounded run of an external program                                  *)
(* (crates/core/src/process/runner.rs, run_bounded_command).               *)
(*                                                                         *)
(* The calling thread spawns a child in a process group of its own, polls  *)
(* it, kills the group at the deadline or after the child has exited, and  *)
(* collects what two reader threads captured.  The child may start other   *)
(* processes, in its group or in a session of their own; all of them hold  *)
(* the write ends of the two pipes.                                        *)
(***************************************************************************)
EXTENDS Naturals, Sequences

CONSTANTS
  Streams,      \* stdout and stderr
  Kin,          \* the processes that the child or its descendants may start
  PipeSize,     \* bytes a pipe holds, at least one
  MaxWritten,   \* bound on the bytes written to a stream
  HeadCap,      \* CAPTURE_HEAD_BYTES
  TailCap,      \* CAPTURE_TAIL_BYTES
  Faults,       \* whether system calls may fail and reader threads may starve
  None          \* none of the strings below

ConstantsAreSane ==
  /\ PipeSize \in Nat \ {0} /\ {MaxWritten, HeadCap, TailCap} \subseteq Nat
  /\ Faults \in BOOLEAN
  /\ None \notin {"zero", "nonzero", "signal", "timed_out", "failed"}

VARIABLES
  pc,           \* where the calling thread is
  late,         \* the timeout has passed
  child,        \* "none", "running", "killed" (SIGKILL is pending), "zombie" or "reaped"
  exit,         \* the status the child ended with
  kin,          \* kin[k]: "unborn", "grouped", "escaped" (own session), "dead" or, once escaped, "left"
  pipe,         \* pipe[s]: the bytes in the pipe; the n-th byte written is n
  written,      \* written[s]: how many bytes were written
  reader,       \* reader[s]: where the reader thread is
  cancelled,    \* the shared cancellation flag
  drain,        \* drain[s]: the reader's cancellation_deadline is "unset", "running" or "over"
  captured,     \* captured[s]: what the reader retained
  errors,       \* the steps of the run that failed
  result        \* what the call returned

vars == <<pc, late, child, exit, kin, pipe, written, reader, cancelled, drain, captured, errors, result>>

Captures == [head : Seq(Nat), tail : Seq(Nat), truncated : BOOLEAN]
Nothing == [head |-> <<>>, tail |-> <<>>, truncated |-> FALSE]

Unstarted ==
  /\ late = FALSE
  /\ child = "none" /\ exit = None
  /\ kin = [k \in Kin |-> "unborn"]
  /\ pipe = [s \in Streams |-> <<>>]
  /\ written = [s \in Streams |-> 0]
  /\ reader = [s \in Streams |-> "none"]
  /\ cancelled = FALSE
  /\ drain = [s \in Streams |-> "unset"]
  /\ captured = [s \in Streams |-> Nothing]
  /\ errors = {}
  /\ result = None

Init == pc = "spawn" /\ Unstarted

streams == <<pipe, written, reader, drain, captured>>

-----------------------------------------------------------------------------
(* The program and what it starts. *)

Alive == {k \in Kin : kin[k] \in {"grouped", "escaped"}}
HasWriters == child \in {"running", "killed"} \/ Alive # {}

Write(s) ==
  /\ child = "running" \/ Alive # {}
  /\ written[s] < MaxWritten /\ Len(pipe[s]) < PipeSize
  /\ written' = [written EXCEPT ![s] = @ + 1]
  /\ pipe' = [pipe EXCEPT ![s] = Append(@, written'[s])]
  /\ UNCHANGED <<pc, late, child, exit, kin, reader, cancelled, drain, captured, errors, result>>

(* A process in the group starts one in the group; anyone starts one in a session of its own. *)
Fork(k, where) ==
  /\ kin[k] = "unborn"
  /\ child = "running" \/ \E j \in Alive : where = "grouped" => kin[j] = "grouped"
  /\ kin' = [kin EXCEPT ![k] = where]
  /\ UNCHANGED <<pc, late, child, exit, streams, cancelled, errors, result>>

Exit(code) ==
  /\ child = "running"
  /\ child' = "zombie" /\ exit' = code
  /\ UNCHANGED <<pc, late, kin, streams, cancelled, errors, result>>

(* SIGKILL takes effect. *)
Die ==
  /\ child = "killed"
  /\ child' = "zombie" /\ exit' = "signal"
  /\ UNCHANGED <<pc, late, kin, streams, cancelled, errors, result>>

KinExits(k) ==
  /\ k \in Alive
  /\ kin' = [kin EXCEPT ![k] = IF @ = "escaped" THEN "left" ELSE "dead"]
  /\ UNCHANGED <<pc, late, child, exit, streams, cancelled, errors, result>>

Programs ==
  \/ \E s \in Streams : Write(s)
  \/ \E k \in Kin, where \in {"grouped", "escaped"} : Fork(k, where)
  \/ \E code \in {"zero", "nonzero", "signal"} : Exit(code)
  \/ Die
  \/ \E k \in Kin : KinExits(k)

-----------------------------------------------------------------------------
(* A reader thread: capture_stream_with_cancellation. *)

(* Faulty variant of Retain: what does not fit the head is dropped without a word. *)
RetainHead(c, bs) ==
  LET room == IF Len(bs) < HeadCap - Len(c.head) THEN Len(bs) ELSE HeadCap - Len(c.head)
  IN [c EXCEPT !.head = @ \o SubSeq(bs, 1, room)]

(* The bytes bs after what c retained: the first HeadCap bytes, and the last TailCap of the rest. *)
Retain(c, bs) ==
  LET room == IF Len(bs) < HeadCap - Len(c.head) THEN Len(bs) ELSE HeadCap - Len(c.head)
      rest == c.tail \o SubSeq(bs, room + 1, Len(bs))
      surplus == IF Len(rest) > TailCap THEN Len(rest) - TailCap ELSE 0
  IN [head      |-> c.head \o SubSeq(bs, 1, room),
      tail      |-> SubSeq(rest, surplus + 1, Len(rest)),
      truncated |-> c.truncated \/ room < Len(bs)]

(* The flag is read before each attempt to read; the first time it is seen starts the drain limit. *)
CheckCancelled(s) ==
  /\ reader[s] = "check"
  /\ drain' = [drain EXCEPT ![s] = IF cancelled /\ @ = "unset" THEN "running" ELSE @]
  /\ reader' = [reader EXCEPT ![s] = IF drain'[s] = "over" THEN "done" ELSE "read"]
  /\ UNCHANGED <<pc, late, child, exit, kin, pipe, written, cancelled, captured, errors, result>>

NothingMore(s) == ~HasWriters \/ drain[s] # "unset"

(* A nonblocking read: some bytes, the end of the stream, nothing yet, or an error. *)
Read(s) ==
  /\ reader[s] = "read"
  /\ \/ \E n \in 1..Len(pipe[s]) :
          /\ captured' = [captured EXCEPT ![s] = Retain(@, SubSeq(pipe[s], 1, n))]
          /\ pipe' = [pipe EXCEPT ![s] = SubSeq(@, n + 1, Len(@))]
          /\ reader' = [reader EXCEPT ![s] = "check"]
     \/ /\ pipe[s] = <<>>
        /\ reader' = [reader EXCEPT ![s] = IF NothingMore(s) THEN "done" ELSE "check"]
        /\ UNCHANGED <<pipe, captured>>
     \/ /\ Faults
        /\ reader' = [reader EXCEPT ![s] = "failed"]
        /\ UNCHANGED <<pipe, captured>>
  /\ UNCHANGED <<pc, late, child, exit, kin, written, cancelled, drain, errors, result>>

(* STREAM_CANCEL_DRAIN_LIMIT has passed. *)
DrainOver(s) ==
  /\ drain[s] = "running" /\ reader[s] \in {"check", "read"}
  /\ drain' = [drain EXCEPT ![s] = "over"]
  /\ UNCHANGED <<pc, late, child, exit, kin, pipe, written, reader, cancelled, captured, errors, result>>

-----------------------------------------------------------------------------
(* The calling thread: run_bounded_command_with_wait. *)

Goto(from, to) == pc = from /\ pc' = to
Fails(step) == Faults /\ errors' = errors \cup {step}

Spawn ==
  /\ \/ Goto("spawn", "pipes") /\ child' = "running" /\ UNCHANGED errors
     \/ Goto("spawn", "return") /\ Fails("spawn") /\ UNCHANGED child
  /\ UNCHANGED <<late, exit, kin, streams, cancelled, result>>

(* Both ends are taken and made nonblocking before the reader threads start. *)
TakePipes ==
  /\ \/ /\ Goto("pipes", "poll")
        /\ reader' = [s \in Streams |-> "check"]
        /\ UNCHANGED errors
     \/ Goto("pipes", "terminate") /\ Fails("pipes") /\ UNCHANGED reader
  /\ UNCHANGED <<late, child, exit, kin, pipe, written, drain, captured, cancelled, result>>

Timeout ==
  /\ pc = "poll" /\ ~late
  /\ late' = TRUE
  /\ UNCHANGED <<pc, child, exit, kin, streams, cancelled, errors, result>>

(* try_wait and the clock.  A child that exits after try_wait looked is still reported as timed out. *)
Poll ==
  /\ \/ /\ Goto("poll", "sweep") /\ child = "zombie"
        /\ child' = "reaped" /\ result' = exit
        /\ UNCHANGED errors
     \/ /\ Goto("poll", "terminate") /\ child = "running" /\ late
        /\ result' = "timed_out"
        /\ UNCHANGED <<child, errors>>
     \/ Goto("poll", "terminate") /\ Fails("wait") /\ UNCHANGED <<child, result>>
  /\ UNCHANGED <<late, exit, kin, streams, cancelled>>

GroupKilled == [k \in Kin |-> IF kin[k] = "grouped" THEN "dead" ELSE kin[k]]
ChildKilled == IF child = "running" THEN "killed" ELSE child
Collect == IF \E s \in Streams : reader[s] # "none" THEN "finish" ELSE "return"

(* terminate_child.  The child leads its group and stays in it, so kill fails only when all are dead *)
(* and the system does not count the child that nobody has reaped.                                   *)
KillGroup ==
  /\ \/ /\ Goto("terminate", "reap")
        /\ kin' = GroupKilled /\ child' = ChildKilled
     \/ /\ Goto("terminate", "direct") /\ Faults
        /\ child = "zombie" /\ \A k \in Kin : kin[k] # "grouped"
        /\ UNCHANGED <<kin, child>>
  /\ UNCHANGED <<late, exit, streams, cancelled, errors, result>>

(* kill_direct_child_if_running, which finds the child ended: with a child that runs, kill succeeded. *)
KillDirect ==
  /\ \/ Goto("direct", Collect) /\ child = "zombie" /\ child' = "reaped" /\ UNCHANGED errors
     \/ Goto("direct", Collect) /\ Fails("terminate") /\ UNCHANGED child
  /\ UNCHANGED <<late, exit, kin, streams, cancelled, result>>

Reap ==
  /\ \/ Goto("reap", Collect) /\ child = "zombie" /\ child' = "reaped" /\ UNCHANGED errors
     \/ Goto("reap", Collect) /\ Fails("terminate") /\ UNCHANGED child
  /\ UNCHANGED <<late, exit, kin, streams, cancelled, result>>

(* Faulty variant of Sweep: what the child started in its group outlives it. *)
SweepNothing ==
  /\ Goto("sweep", "finish")
  /\ UNCHANGED <<late, child, exit, kin, streams, cancelled, errors, result>>

(* terminate_remaining_process_group. *)
Sweep ==
  /\ \/ Goto("sweep", "finish") /\ kin' = GroupKilled /\ UNCHANGED errors
     \/ Goto("sweep", "finish") /\ Fails("descendants") /\ UNCHANGED kin
  /\ UNCHANGED <<late, child, exit, streams, cancelled, result>>

(* Faulty variant of Finish: the readers are joined without being cancelled. *)
FinishUncancelled ==
  /\ Goto("finish", "join")
  /\ UNCHANGED <<late, child, exit, kin, streams, cancelled, errors, result>>

(* cancel, before the readers are joined. *)
Finish ==
  /\ Goto("finish", "join")
  /\ cancelled' = TRUE
  /\ UNCHANGED <<late, child, exit, kin, streams, errors, result>>

(* join_stream_reader, for both: a reader that failed, or that does not end within its five seconds. *)
Join ==
  /\ Goto("join", "return")
  /\ \A s \in Streams : reader[s] \in {"done", "failed"}
  /\ errors' = errors \cup {"read" : s \in {t \in Streams : reader[t] = "failed"}}
  /\ UNCHANGED <<late, child, exit, kin, streams, cancelled, result>>

GiveUpJoining ==
  /\ Goto("join", "return")
  /\ \E s \in Streams : reader[s] \notin {"done", "failed"}
  /\ Fails("starved")
  /\ UNCHANGED <<late, child, exit, kin, streams, cancelled, result>>

Return ==
  /\ Goto("return", "returned")
  /\ result' = IF errors = {} THEN result ELSE "failed"
  /\ UNCHANGED <<late, child, exit, kin, streams, cancelled, errors>>

Caller == Spawn \/ TakePipes \/ Poll \/ KillGroup \/ KillDirect \/ Reap \/ Sweep \/ Finish \/ Join \/ Return

Next ==
  \/ Programs \/ Caller \/ GiveUpJoining \/ Timeout
  \/ \E s \in Streams : CheckCancelled(s) \/ Read(s) \/ DrainOver(s)

Spec == Init /\ [][Next]_vars

(***************************************************************************)
(* The threads of the server are scheduled, time passes and SIGKILL kills. *)
(* Nothing is assumed of the program: it may write, fork and run for ever. *)
(***************************************************************************)
Fairness ==
  /\ WF_vars(Caller) /\ WF_vars(Timeout) /\ WF_vars(Die)
  /\ \A s \in Streams : WF_vars(CheckCancelled(s)) /\ WF_vars(Read(s)) /\ WF_vars(DrainOver(s))
FairSpec == Spec /\ Fairness

-----------------------------------------------------------------------------
Returned == pc = "returned"
Prefix(n) == [i \in 1..n |-> i]

TypeOK ==
  /\ pc \in {"spawn", "pipes", "poll", "terminate", "direct", "reap", "sweep", "finish", "join", "return",
             "returned"}
  /\ {late, cancelled} \subseteq BOOLEAN
  /\ child \in {"none", "running", "killed", "zombie", "reaped"}
  /\ exit \in {None, "zero", "nonzero", "signal"}
  /\ kin \in [Kin -> {"unborn", "grouped", "escaped", "dead", "left"}]
  /\ written \in [Streams -> 0..MaxWritten]
  /\ \A s \in Streams : captured[s] \in Captures /\ pipe[s] \in Seq(1..MaxWritten) /\ Len(pipe[s]) <= PipeSize
  /\ reader \in [Streams -> {"none", "check", "read", "done", "failed"}]
  /\ drain \in [Streams -> {"unset", "running", "over"}]
  /\ errors \subseteq {"spawn", "pipes", "wait", "terminate", "descendants", "read", "starved"}
  /\ result \in {None, "zero", "nonzero", "signal", "timed_out", "failed"}

(***************************************************************************)
(* What is retained is the beginning of the stream and, after the omission *)
(* marker, the end of it: without the marker not one byte is missing in    *)
(* front of what is still in the pipe, and with it the retained ends are   *)
(* as long as their limits allow, however the reads were cut up.           *)
(***************************************************************************)
RetainsBothEnds ==
  \A s \in Streams :
    LET c == captured[s]
        got == written[s] - Len(pipe[s])
    IN /\ c.head = Prefix(IF got < HeadCap THEN got ELSE HeadCap)
       /\ c.truncated = (got > HeadCap)
       /\ c.tail = SubSeq(Prefix(got), IF got - TailCap > HeadCap THEN got - TailCap + 1 ELSE HeadCap + 1, got)

(***************************************************************************)
(* A run that reports no failure has reaped its child, left nothing alive  *)
(* in the child's group and, unless a process escaped into a session of    *)
(* its own or the drain limit passed, left no byte behind in the pipes.    *)
(***************************************************************************)
LeavesNothing ==
  Returned /\ result # "failed" =>
    /\ child = "reaped"
    /\ \A k \in Kin : kin[k] # "grouped"
    /\ \A s \in Streams :
         drain[s] # "over" /\ (\A k \in Kin : kin[k] \notin {"escaped", "left"}) => pipe[s] = <<>>

(***************************************************************************)
(* A status is the one the child ended with by itself, "signal" included   *)
(* when a stranger killed it; a run is called timed out only when its      *)
(* time was up, and then the child is not left running.                    *)
(***************************************************************************)
HonestStatus ==
  Returned =>
    /\ result \in {"zero", "nonzero", "signal"} => result = exit /\ errors = {}
    /\ result = "timed_out" => late /\ child = "reaped"

(***************************************************************************)
(* Whatever the program does, and whoever keeps its pipes open, the call   *)
(* returns (run_bounded_command: "a hard child-process timeout").          *)
(***************************************************************************)
EveryRunReturns == <>Returned
=============================================================================
