---------------------------- MODULE BracketedRuns ----------------------------
(***************************************************************************)
(* Calls that run other people's programs between two looks at Git status: *)
(* fixture_generator_run (server/src/tools/fixtures.rs), setup_profile_run *)
(* (core/src/setup/profile.rs), native_build_run (native_build.rs); and    *)
(* base_image_check_run (fixtures.rs) and native_device_run                *)
(* (native_device.rs), which look at nothing.  The programs write what     *)
(* they like; meanwhile an editor, and a user's own commits, that know     *)
(* nothing of the call's mutation lock.                                    *)
(***************************************************************************)
EXTENDS Naturals, Sequences, FiniteSets

CONSTANTS Paths,      \* repository-relative files that Git does not ignore
          Contents,
          None,       \* no file
          MaxOthers   \* bound on what the editor and the user do

VARIABLES file, head,   \* the worktree, and the commit at HEAD
          call,         \* the call
          exits,        \* how its programs ended
          start,        \* the worktree at the look before, and the text of its status
          reply,
          committed,    \* paths the user committed since that look
          others

vars == <<file, head, call, exits, start, reply, committed, others>>
tree == <<file, head, committed, others>>

Files == [Paths -> Contents \cup {None}]

\* git_status_paths_for_tool, dirty_paths; and status_short, a line of code and path for
\* each of them.
StatusPaths == {p \in Paths : file[p] # head[p]}
Code(f, h) == IF f = h THEN None
              ELSE IF h = None THEN "untracked" ELSE IF f = None THEN "deleted" ELSE "modified"
StatusShort == [p \in Paths |-> Code(file[p], head[p])]

\* The arguments.  "declared" are the paths a call may change: the expected output paths
\* and prefixes of a generator, the paths of a setup action's expected classes.  "allowed"
\* are those that may be dirty before.  What looks at nothing allows and declares all.
Generations == [tool : {"generate"}, commands : {1}, allowed : SUBSET Paths,
                declared : (SUBSET Paths) \ {{}}, dry : BOOLEAN, confirm : BOOLEAN]
\* A setup action has a plan of one or two commands.
Setups == [tool : {"setup"}, commands : 1..2, allowed : {{}}, declared : SUBSET Paths,
           dry : BOOLEAN, confirm : BOOLEAN]
Builds == {c \in [tool : {"build"}, commands : {1}, allowed : {Paths}, declared : {{}},
                  dry : BOOLEAN, confirm : BOOLEAN] : c.confirm}
ImageChecks == [tool : {"check"}, commands : {1}, allowed : {Paths}, declared : {Paths},
                dry : BOOLEAN, confirm : BOOLEAN]
Device == {"observe", "change"}   \* changes_device_state
DeviceCalls == [tool : Device, commands : {1}, allowed : {Paths}, declared : {Paths},
                dry : BOOLEAN, confirm : BOOLEAN]
BracketedCalls == Generations \cup Setups \cup Builds \cup ImageChecks \cup DeviceCalls
Steps == [pc : {"gate", "before", "run", "after", "done"}, args : BracketedCalls]
Unbracketed == Device \cup {"check"}

ConstantsAreSane == /\ None \notin Steps
                    /\ None \notin {"untracked", "deleted", "modified", "plan", "refused", "failed", "ok"}

\* Confirmed is needed before anything runs, but by a native build and by a look at a device.
Unconfirmed(c) == ~c.dry /\ ~c.confirm /\ c.tool \in {"generate", "setup", "check", "change"}

TypeOK ==
  /\ file \in Files /\ head \in Files /\ start.file \in Files
  /\ call = None \/ call \in Steps
  /\ Len(exits) <= (IF call = None THEN 0 ELSE call.args.commands)
  /\ reply \in {None, "plan", "refused", "failed", "ok"}
  /\ committed \subseteq Paths

Init ==
  /\ file \in Files /\ head \in Files /\ start = [file |-> head, status |-> None]
  /\ call = None /\ exits = <<>> /\ reply = None /\ committed = {} /\ others = 0

Begin == \E c \in BracketedCalls :
  /\ call = None
  /\ call' = [pc |-> "gate", args |-> c]
  /\ UNCHANGED <<exits, start, reply, tree>>

At(tools, step) == call # None /\ call.pc = step /\ call.args.tool \in tools
Step(s) == call' = [call EXCEPT !.pc = s]
Reply(r) == Step("done") /\ reply' = r /\ UNCHANGED <<exits, start, tree>>
Tools == {"generate", "setup", "build"} \cup Unbracketed

\* The arguments are planned or refused.  A generator's confirmation is looked at after
\* the first status, which a dry run of it takes too.
Gate ==
  /\ At(Tools, "gate")
  /\ \/ Reply("refused")
     \/ call.args.tool # "generate" /\ call.args.dry /\ Reply("plan")
     \/ /\ call.args.tool # "generate" => ~call.args.dry /\ ~Unconfirmed(call.args)
        /\ Step(IF call.args.tool \in Unbracketed THEN "run" ELSE "before")
        /\ UNCHANGED <<exits, start, reply, tree>>

\* A generator and a setup plan look at the dirty paths, a native build at status_short
\* (what setup_profile_run reads of that is only shown).
\* Faulty variant of UnexpectedBefore: nobody looks before the program runs.
UnlookedBefore == {}
UnexpectedBefore == StatusPaths \ call.args.allowed
LookBefore ==
  /\ At(Tools, "before")
  /\ IF UnexpectedBefore # {} THEN Reply("refused")
     ELSE IF call.args.dry THEN Reply("plan")
     ELSE IF Unconfirmed(call.args) THEN Reply("refused")
     ELSE /\ Step("run") /\ start' = [file |-> file, status |-> StatusShort]
          /\ committed' = {}
          /\ UNCHANGED <<exits, reply, file, head, others>>

\* The program writes, or removes, what it likes.
ProgramWrites == \E p \in Paths, c \in Contents \cup {None} :
  /\ At(Tools, "run") /\ file[p] # c
  /\ file' = [file EXCEPT ![p] = c]
  /\ UNCHANGED <<head, committed, others, call, exits, start, reply>>

\* It ends with status zero or not (or is stopped at its deadline), having printed the
\* line `exit_code: 0` or not.
Ends == [zero : BOOLEAN, prints : BOOLEAN]
\* guarded_output_succeeded looks for that line in a text that ends with what was printed.
GuardedOutputSucceeded(e) == e.zero \/ e.prints
ByOutput == {"generate", "check"}

ProgramEnds == \E e \in Ends :
  /\ At(Tools, "run")
  /\ exits' = Append(exits, e)
  /\ IF call.args.tool \in ByOutput /\ ~GuardedOutputSucceeded(e)
     THEN Step("done") /\ reply' = "refused"
     ELSE /\ Step(IF Len(exits') < call.args.commands THEN "run" ELSE "after")
          /\ UNCHANGED reply
  /\ UNCHANGED <<start, tree>>
\* It cannot be started, or its output cannot be had: nothing is looked at after that,
\* though an earlier command of the plan may have run.
CannotRun == At(Tools, "run") /\ Reply("refused")

\* Faulty variant of Succeeded: the last command alone counts.
LastSucceeded == exits[Len(exits)].zero
Succeeded == \A n \in DOMAIN exits : exits[n].zero

\* The look after: the paths outside the declared ones first, a failed program after them.
Unauthorized == StatusPaths \ (call.args.allowed \cup call.args.declared)
LookAfter ==
  /\ At({"generate", "setup"}, "after")
  /\ Reply(IF Unauthorized # {} THEN "refused"
           ELSE IF call.args.tool = "setup" /\ ~Succeeded THEN "failed" ELSE "ok")
BuildEnds ==
  /\ At({"build"}, "after")
  /\ Reply(IF StatusShort # start.status THEN "refused" ELSE IF ~Succeeded THEN "failed" ELSE "ok")
CheckEnds == At({"check"}, "after") /\ Reply("ok")
DeviceEnds == At(Device, "after") /\ Reply(IF Succeeded THEN "ok" ELSE "failed")

Others == /\ call # None /\ call.pc # "done" /\ others < MaxOthers /\ others' = others + 1
          /\ UNCHANGED <<call, exits, start, reply>>
UserEdits == \E p \in Paths, c \in Contents \cup {None} :
  Others /\ file[p] # c /\ file' = [file EXCEPT ![p] = c] /\ UNCHANGED <<head, committed>>
UserCommits == \E p \in StatusPaths :
  Others /\ head' = [head EXCEPT ![p] = file[p]] /\ committed' = committed \cup {p} /\ UNCHANGED file

Next == \/ Begin \/ Gate \/ LookBefore \/ ProgramWrites \/ ProgramEnds \/ CannotRun
        \/ LookAfter \/ BuildEnds \/ CheckEnds \/ DeviceEnds \/ UserEdits \/ UserCommits
Spec == Init /\ [][Next]_vars

-----------------------------------------------------------------------------
Ok == reply = "ok" /\ call.args.tool \notin Unbracketed
Changed == {p \in Paths \ committed : file[p] # start.file[p]}

\* A call that reports success has left, compared with the look before it, only declared
\* and allowed paths different, a build only paths that were dirty already; leaving aside
\* what the user committed meanwhile.  A program that puts an undeclared file back to what
\* HEAD holds is caught too, which the look after does not show.  And every command of a
\* setup plan ended with status zero, not only the last.
SuccessIsConfined ==
  /\ Ok => \A p \in Changed :
       IF call.args.tool = "build" THEN start.status[p] # None
       ELSE p \in call.args.allowed \cup call.args.declared
  /\ reply = "ok" /\ call.args.tool \notin ByOutput => \A n \in DOMAIN exits : exits[n].zero
=============================================================================
