--------------------------- MODULE StdioServer ---------------------------
(***************************************************************************)
(* The MCP server process (crates/server/src/server.rs), the dispatch of a *)
(* tool call (crates/server/src/tools/dispatch.rs) and the reply deadline  *)
(* (crates/core/src/process/deadline.rs).                                  *)
(*                                                                         *)
(* A reader thread feeds a bounded queue.  The main thread answers light   *)
(* requests itself and gives each tool call a thread, up to a maximum.     *)
(* That thread runs the tool's handler, or lends it to a second, detached  *)
(* thread and waits for it no longer than the tool's deadline.  Handlers   *)
(* of mutating tools hold the repository mutation lock while they run.     *)
(***************************************************************************)
EXTENDS Naturals, Sequences, FiniteSets

CONSTANTS
  Requests,     \* the lines a client may send
  Kind,         \* Kind[r]: "call", "light" (answered at once), "silent" (no answer) or
                \* "unreadable" (a line that cannot be read, for which the reader reports an error)
  HasDeadline,  \* calls whose tool has a reply deadline
  Mutates,      \* calls whose tool serializes repository mutations
  MaxActive,    \* MAX_ACTIVE_TOOL_CALLS
  MaxWorkers,   \* MAX_ACTIVE_WORKERS
  MaxQueued,    \* MAX_BUFFERED_STDIN_LINES
  Panics,       \* whether a handler may panic
  NoThreads,    \* whether a thread may fail to start
  MayHangUp,    \* whether the client may close its end of stdout
  None

VARIABLES
  queue,        \* lines read from stdin and not yet taken by the main thread
  eof,          \* stdin is closed
  main,         \* the main thread: "check", "take", "drain", or how it "exited"
  active,       \* tool-call permits in use
  thread,       \* thread[r]: how far the call's own thread is
  handler,      \* handler[r]: how far the tool's handler is
  outcome,      \* outcome[r]: what the handler ended with
  workers,      \* deadline-worker permits in use
  lent,         \* calls whose handler runs on a detached thread that holds a permit
  repo,         \* the call that holds the repository mutation lock
  answer,       \* answer[r]: the reply the call's thread is about to write
  reply,        \* reply[r]: the reply the client got
  hungup,       \* the client no longer reads stdout
  writeFailed   \* a call's thread could not write its reply

vars == <<queue, eof, main, active, thread, handler, outcome, workers, lent, repo, answer, reply,
          hungup, writeFailed>>

ToolCalls == {r \in Requests : Kind[r] = "call"}

NotStarted == {"busy", "rejected", "saturated", "locked", "unavailable"}
Replies == NotStarted \cup {"result", "panicked", "expired", "light"}

ASSUME ConstantsAreSane ==
  /\ Kind \in [Requests -> {"call", "light", "silent", "unreadable"}]
  /\ HasDeadline \subseteq ToolCalls /\ Mutates \subseteq ToolCalls
  /\ {MaxActive, MaxWorkers, MaxQueued} \subseteq Nat \ {0}
  /\ {Panics, NoThreads, MayHangUp} \subseteq BOOLEAN
  /\ None \notin Requests \cup Replies /\ IsFiniteSet(Requests)

Running == main \in {"check", "take", "drain"}

Init ==
  /\ queue = <<>> /\ eof = FALSE
  /\ main = "check"
  /\ active = 0 /\ workers = 0
  /\ thread = [r \in Requests |-> "unsent"]
  /\ handler = [r \in Requests |-> "none"]
  /\ outcome = [r \in Requests |-> None]
  /\ lent = {}
  /\ repo = None
  /\ answer = [r \in Requests |-> None]
  /\ reply = [r \in Requests |-> None]
  /\ hungup = FALSE /\ writeFailed = FALSE

-----------------------------------------------------------------------------
(* The client, and the reader thread that waits when the queue is full. *)

Send(r) ==
  /\ Running /\ ~eof
  /\ thread[r] = "unsent" /\ Len(queue) < MaxQueued
  /\ queue' = Append(queue, r)
  /\ thread' = [thread EXCEPT ![r] = "queued"]
  /\ UNCHANGED <<eof, main, active, handler, outcome, workers, lent, repo, answer, reply, hungup, writeFailed>>

CloseStdin ==
  /\ Running /\ ~eof
  /\ eof' = TRUE
  /\ UNCHANGED <<queue, main, active, thread, handler, outcome, workers, lent, repo, answer, reply,
                 hungup, writeFailed>>

HangUp ==
  /\ Running /\ MayHangUp /\ ~hungup
  /\ hungup' = TRUE
  /\ UNCHANGED <<queue, eof, main, active, thread, handler, outcome, workers, lent, repo, answer, reply,
                 writeFailed>>

-----------------------------------------------------------------------------
(* The main thread: run_stdio_server. *)

(* Faulty variant of Check: a failed write is noticed only at the end of stdin. *)
CheckNothing ==
  /\ main = "check" /\ main' = "take"
  /\ UNCHANGED <<queue, eof, active, thread, handler, outcome, workers, lent, repo, answer, reply,
                 hungup, writeFailed>>

Check ==
  /\ main = "check"
  /\ main' = IF writeFailed THEN "failed" ELSE "take"
  /\ UNCHANGED <<queue, eof, active, thread, handler, outcome, workers, lent, repo, answer, reply,
                 hungup, writeFailed>>

(* recv_timeout returns without a line after a poll interval, or because stdin has ended. *)
Idle ==
  /\ main = "take" /\ queue = <<>>
  /\ main' = IF eof THEN "drain" ELSE "check"
  /\ UNCHANGED <<queue, eof, active, thread, handler, outcome, workers, lent, repo, answer, reply,
                 hungup, writeFailed>>

(* The main thread writes a reply itself; a write that fails ends the process. *)
MainReply(r, a) ==
  /\ thread' = [thread EXCEPT ![r] = "over"]
  /\ reply' = IF hungup THEN reply ELSE [reply EXCEPT ![r] = a]
  /\ main' = IF hungup THEN "failed" ELSE "check"

Busy == active >= MaxActive

Take ==
  /\ main = "take" /\ queue # <<>>
  /\ queue' = Tail(queue)
  /\ LET r == Head(queue)
     IN \/ /\ Kind[r] = "silent"
           /\ thread' = [thread EXCEPT ![r] = "over"]
           /\ main' = "check"
           /\ UNCHANGED <<active, reply>>
        \/ /\ Kind[r] = "unreadable"
           /\ thread' = [thread EXCEPT ![r] = "over"]
           /\ main' = "failed"
           /\ UNCHANGED <<active, reply>>
        \/ /\ Kind[r] = "light"
           /\ MainReply(r, "light")
           /\ UNCHANGED active
        \/ /\ Kind[r] = "call" /\ ~Busy
           /\ thread' = [thread EXCEPT ![r] = "start"]
           /\ active' = active + 1
           /\ main' = "check"
           /\ UNCHANGED reply
        \/ /\ Kind[r] = "call" /\ (Busy \/ NoThreads)
           /\ MainReply(r, IF Busy THEN "busy" ELSE "unavailable")
           /\ UNCHANGED active
  /\ UNCHANGED <<eof, handler, outcome, workers, lent, repo, answer, hungup, writeFailed>>

(* Faulty variant of Drain: detached handlers are waited for. *)
DrainAll ==
  /\ main = "drain"
  /\ lent = {}
  /\ \A r \in Requests : thread[r] \in {"unsent", "over"}
  /\ main' = IF writeFailed THEN "failed" ELSE "finished"
  /\ UNCHANGED <<queue, eof, active, thread, handler, outcome, workers, lent, repo, answer, reply,
                 hungup, writeFailed>>

(* At the end of stdin every accepted call is joined; detached handlers are not. *)
Drain ==
  /\ main = "drain"
  /\ \A r \in Requests : thread[r] \in {"unsent", "over"}
  /\ main' = IF writeFailed THEN "failed" ELSE "finished"
  /\ UNCHANGED <<queue, eof, active, thread, handler, outcome, workers, lent, repo, answer, reply,
                 hungup, writeFailed>>

-----------------------------------------------------------------------------
(* A call's own thread: execute_tool, with_deadline, and the reply. *)

WillAnswer(r, a) ==
  /\ answer' = [answer EXCEPT ![r] = a]
  /\ thread' = [thread EXCEPT ![r] = "write"]

(* Bad parameters, an unknown tool or repository, arguments outside the tool's schema. *)
Reject(r) ==
  /\ Running
  /\ thread[r] = "start"
  /\ WillAnswer(r, "rejected")
  /\ UNCHANGED <<queue, eof, main, active, handler, outcome, workers, lent, repo, reply, hungup, writeFailed>>

StartDirect(r) ==
  /\ Running
  /\ thread[r] = "start" /\ r \notin HasDeadline
  /\ thread' = [thread EXCEPT ![r] = "wait"]
  /\ handler' = [handler EXCEPT ![r] = "enter"]
  /\ UNCHANGED <<queue, eof, main, active, outcome, workers, lent, repo, answer, reply, hungup, writeFailed>>

StartWithDeadline(r) ==
  /\ Running
  /\ thread[r] = "start" /\ r \in HasDeadline
  /\ \/ /\ workers < MaxWorkers
        /\ workers' = workers + 1
        /\ lent' = lent \cup {r}
        /\ thread' = [thread EXCEPT ![r] = "wait"]
        /\ handler' = [handler EXCEPT ![r] = "enter"]
        /\ UNCHANGED answer
     \/ /\ workers >= MaxWorkers \/ NoThreads
        /\ WillAnswer(r, IF workers >= MaxWorkers THEN "saturated" ELSE "unavailable")
        /\ UNCHANGED <<workers, lent, handler>>
  /\ UNCHANGED <<queue, eof, main, active, outcome, repo, reply, hungup, writeFailed>>

(* The handler's result arrives; a detached handler that panicked only closes the channel. *)
Receive(r) ==
  /\ Running
  /\ thread[r] = "wait" /\ handler[r] = "ended"
  /\ WillAnswer(r, IF outcome[r] = "panicked" /\ r \in HasDeadline THEN "expired" ELSE outcome[r])
  /\ UNCHANGED <<queue, eof, main, active, handler, outcome, workers, lent, repo, reply, hungup, writeFailed>>

(* Faulty variants of Expire: reported as a refusal; never. *)
ExpireAsRefusal(r) ==
  /\ Running
  /\ thread[r] = "wait" /\ r \in HasDeadline
  /\ WillAnswer(r, "unavailable")
  /\ UNCHANGED <<queue, eof, main, active, handler, outcome, workers, lent, repo, reply, hungup, writeFailed>>

ExpireNever(r) == ExpireAsRefusal(r) /\ handler[r] = "ended"

Expire(r) ==
  /\ Running
  /\ thread[r] = "wait" /\ r \in HasDeadline
  /\ WillAnswer(r, "expired")
  /\ UNCHANGED <<queue, eof, main, active, handler, outcome, workers, lent, repo, reply, hungup, writeFailed>>

WriteReply(r) ==
  /\ Running
  /\ thread[r] = "write"
  /\ thread' = [thread EXCEPT ![r] = "release"]
  /\ reply' = IF hungup THEN reply ELSE [reply EXCEPT ![r] = answer[r]]
  /\ writeFailed' = (writeFailed \/ hungup)
  /\ UNCHANGED <<queue, eof, main, active, handler, outcome, workers, lent, repo, answer, hungup>>

(* The permit is dropped when the thread ends, after the reply. *)
EndCall(r) ==
  /\ Running
  /\ thread[r] = "release"
  /\ thread' = [thread EXCEPT ![r] = "over"]
  /\ active' = active - 1
  /\ UNCHANGED <<queue, eof, main, handler, outcome, workers, lent, repo, answer, reply, hungup, writeFailed>>

-----------------------------------------------------------------------------
(* The handler: call_tool_with_mutation_lock. *)

(* Faulty variant of Enter: contention for the repository lock is overlooked. *)
EnterOverlooked(r) ==
  /\ Running
  /\ handler[r] = "enter"
  /\ handler' = [handler EXCEPT ![r] = "running"]
  /\ repo' = IF r \in Mutates THEN r ELSE repo
  /\ UNCHANGED <<queue, eof, main, active, thread, outcome, workers, lent, answer, reply, hungup, writeFailed>>

Enter(r) ==
  /\ Running
  /\ handler[r] = "enter"
  /\ \/ /\ r \in Mutates /\ repo # None
        /\ handler' = [handler EXCEPT ![r] = "ended"]
        /\ outcome' = [outcome EXCEPT ![r] = "locked"]
        /\ UNCHANGED repo
     \/ /\ r \in Mutates => repo = None
        /\ handler' = [handler EXCEPT ![r] = "running"]
        /\ repo' = IF r \in Mutates THEN r ELSE repo
        /\ UNCHANGED outcome
  /\ UNCHANGED <<queue, eof, main, active, thread, workers, lent, answer, reply, hungup, writeFailed>>

(* Faulty variant of End: unwinding from a panic leaves the lock held. *)
EndPoisoned(r) ==
  /\ Running
  /\ handler[r] = "running"
  /\ handler' = [handler EXCEPT ![r] = "ended"]
  /\ \E o \in {"result"} \cup (IF Panics THEN {"panicked"} ELSE {}) :
       /\ outcome' = [outcome EXCEPT ![r] = o]
       /\ repo' = IF repo = r /\ o = "result" THEN None ELSE repo
  /\ UNCHANGED <<queue, eof, main, active, thread, workers, lent, answer, reply, hungup, writeFailed>>

(* The lock goes when the handler returns or unwinds, before its result is sent. *)
End(r) ==
  /\ Running
  /\ handler[r] = "running"
  /\ handler' = [handler EXCEPT ![r] = "ended"]
  /\ \E o \in {"result"} \cup (IF Panics THEN {"panicked"} ELSE {}) : outcome' = [outcome EXCEPT ![r] = o]
  /\ repo' = IF repo = r THEN None ELSE repo
  /\ UNCHANGED <<queue, eof, main, active, thread, workers, lent, answer, reply, hungup, writeFailed>>

(* Faulty variant of EndDetached: the permit of a handler nobody waits for is not returned. *)
EndDetachedAbandoned(r) ==
  /\ Running
  /\ r \in lent /\ handler[r] = "ended"
  /\ lent' = lent \ {r}
  /\ workers' = IF thread[r] = "wait" THEN workers - 1 ELSE workers
  /\ UNCHANGED <<queue, eof, main, active, thread, handler, outcome, repo, answer, reply, hungup, writeFailed>>

(* A detached thread drops its permit when it ends, whether or not anybody waited for it. *)
EndDetached(r) ==
  /\ Running
  /\ r \in lent /\ handler[r] = "ended"
  /\ lent' = lent \ {r}
  /\ workers' = workers - 1
  /\ UNCHANGED <<queue, eof, main, active, thread, handler, outcome, repo, answer, reply, hungup, writeFailed>>

-----------------------------------------------------------------------------
MainThread == Check \/ Idle \/ Take \/ Drain
CallThread(r) ==
  Reject(r) \/ StartDirect(r) \/ StartWithDeadline(r) \/ Receive(r) \/ Expire(r) \/ WriteReply(r) \/ EndCall(r)
Handler(r) == Enter(r) \/ End(r) \/ EndDetached(r)

Next ==
  \/ CloseStdin \/ HangUp \/ MainThread
  \/ \E r \in Requests : Send(r) \/ CallThread(r) \/ Handler(r)

Spec == Init /\ [][Next]_vars

(***************************************************************************)
(* Threads are scheduled and deadlines expire.  Nothing is assumed of the  *)
(* handlers: a tool may hang for ever.                                     *)
(***************************************************************************)
FairSpec ==
  /\ Spec
  /\ WF_vars(MainThread)
  /\ \A r \in Requests : WF_vars(CallThread(r))

-----------------------------------------------------------------------------
TypeOK ==
  /\ queue \in Seq(Requests) /\ Len(queue) <= MaxQueued
  /\ main \in {"check", "take", "drain", "failed", "finished"}
  /\ active \in 0..MaxActive /\ workers \in 0..MaxWorkers
  /\ thread \in [Requests -> {"unsent", "queued", "start", "wait", "write", "release", "over"}]
  /\ handler \in [Requests -> {"none", "enter", "running", "ended"}]
  /\ outcome \in [Requests -> {None, "result", "panicked", "locked"}]
  /\ lent \subseteq HasDeadline
  /\ repo \in Mutates \cup {None}
  /\ answer \in [Requests -> Replies \cup {None}]
  /\ reply \in [Requests -> Replies \cup {None}]
  /\ {eof, hungup, writeFailed} \subseteq BOOLEAN

(* The handler has begun to do its work. *)
Started(r) == handler[r] = "running" \/ (handler[r] = "ended" /\ outcome[r] # "locked")

(***************************************************************************)
(* A reply never misreports: a call that was refused as busy, saturated,   *)
(* locked or unavailable does not run, then or later; one that is answered *)
(* with a result has ended; only an expiry leaves the outcome open         *)
(* (safety-contract rules 23, 26).                                         *)
(***************************************************************************)
HonestReplies ==
  \A r \in ToolCalls :
    /\ reply[r] \in NotStarted => ~Started(r) /\ handler[r] \notin {"enter", "running"}
    /\ reply[r] \in {"result", "panicked"} => handler[r] = "ended" /\ outcome[r] = reply[r]

(***************************************************************************)
(* Mutating handlers never overlap, expired ones included: the lock stays  *)
(* with a detached handler for as long as it runs (rule 25, the detached   *)
(* workers of rule 26).                                                    *)
(***************************************************************************)
MutatorsExclude ==
  \A r \in Mutates : handler[r] = "running" => repo = r

(***************************************************************************)
(* A client that waits for each answer is never refused because of itself: *)
(* when it has a result the call's lock is free again, so its next call    *)
(* can only be refused because of another, or of one that expired.         *)
(***************************************************************************)
LockFreeOnReply == \A r \in Mutates : reply[r] \in {"result", "panicked", "locked"} => repo # r

(***************************************************************************)
(* Permits are neither lost nor invented: the counters agree with the      *)
(* threads alive, through panics, expiries and failed spawns, so capacity  *)
(* comes back (rules 26 and 29).                                           *)
(***************************************************************************)
PermitsAccounted ==
  /\ active = Cardinality({r \in ToolCalls : thread[r] \in {"start", "wait", "write", "release"}})
  /\ workers = Cardinality(lent)
  /\ \A r \in HasDeadline : handler[r] \in {"enter", "running"} => r \in lent

(***************************************************************************)
(* No tool call blocks another request: while any handler may hang, every  *)
(* line the server accepted is answered if it is light, refused or has a   *)
(* deadline, unless the client hangs up or the server ends.                *)
(***************************************************************************)
EveryBoundedCallAnswered ==
  \A r \in Requests :
    Kind[r] = "light" \/ r \in HasDeadline =>
      (thread[r] = "queued" ~> reply[r] # None \/ hungup \/ ~Running)

(***************************************************************************)
(* A failed write ends the server although the client leaves stdin open    *)
(* and a handler hangs (rule 29).  Once stdin has ended the main thread    *)
(* waits for the calls it accepted, so there it ends only with them.       *)
(***************************************************************************)
WriteFailureEndsServer == writeFailed ~> ~Running \/ eof

(***************************************************************************)
(* When stdin ends the server ends, even though a handler with a deadline  *)
(* hangs.  The handlers without a deadline must end, which their own       *)
(* process timeouts see to.                                                *)
(***************************************************************************)
DirectHandlersEnd == \A r \in Requests \ HasDeadline : handler[r] \in {"enter", "running"} ~> handler[r] = "ended"
EndOfInputEndsServer == DirectHandlersEnd => (eof ~> ~Running)
=============================================================================
