---------------------------- MODULE GuardedCommands ----------------------------
(***************************************************************************)
(* Admission of guarded commands (crates/core/src/process/                 *)
(* guarded_command.rs, run_guarded_command in server/src/tools/process).   *)
(* A fixed list decides first; a bash script it does not name may be       *)
(* declared by the repository's own manifest, which its owner edits in     *)
(* place or replaces while the call reads it.  The working directory is    *)
(* resolved as in RootedPaths, the child runs as in ProcessRunner.         *)
(***************************************************************************)
EXTENDS Naturals, FiniteSets

CONSTANTS Scripts,   \* scripts of the repository, none of them on the fixed list
          Inodes,    \* files the manifest's name is given to
          None,
          MaxEdits   \* bound on the owner's edits

ConstantsAreSane == /\ None \notin Inodes /\ MaxEdits \in Nat
                    /\ None \notin [whole : BOOLEAN, scripts : SUBSET Scripts, large : BOOLEAN]
                    /\ None \notin {"running", "not_allowlisted", "refused"}

VARIABLES at,        \* the file that bears the manifest's name
          holds,     \* what every file contains
          edits,
          call,      \* the request
          pc, fd,    \* where the call is, and the file it opened
          outcome,   \* "running", "not_allowlisted" or "refused"
          since      \* the manifests there were since the call began: contents, or None

vars == <<at, holds, edits, call, pc, fd, outcome, since>>

\* A manifest is broken while it is no JSON object with a shell_scripts array of paths,
\* and large beyond MAX_MANIFEST_BYTES.
Contents == {c \in [whole : BOOLEAN, scripts : SUBSET Scripts, large : BOOLEAN] :
               c.whole \/ c.scripts = {}}
Manifest == IF at = None THEN None ELSE holds[at]

\* What validate_command tells apart.  A typed call is one of harbor_run_start,
\* azure_deployment_start and azure_containerapp_op, which name their own programs.
Requests ==
  [program : {"listed", "bash", "other"}, typed : BOOLEAN, owned : BOOLEAN, script : Scripts \cup {None},
   args : {1, 2}, limit : {600, 3600}, secs : {0, 600, 3600}]
\* Only harbor run and the Azure writes may be given an hour.
IsRequest(r) ==
  /\ r.owned <=> r.limit = 3600
  /\ r.typed => r.owned
  /\ r.owned => r.program = "listed"
  /\ r.program = "bash" <=> r.script # None
  /\ r.program # "bash" => r.args = 1
  /\ r.program # "listed" => r.secs = 600

TypeOK == /\ at \in Inodes \cup {None} /\ holds \in [Inodes -> Contents] /\ edits \in 0..MaxEdits
          /\ call \in Requests /\ fd \in Inodes \cup {None} /\ since \subseteq Contents \cup {None}
          /\ pc \in {"begin", "validate", "exists", "open", "length", "read", "timeout", "end"}
          /\ outcome \in {None, "running", "not_allowlisted", "refused"}

InitOf(contents) ==
  /\ at \in Inodes \cup {None} /\ holds \in [Inodes -> contents] /\ edits = 0
  /\ call \in {r \in Requests : IsRequest(r)}
  /\ pc = "begin" /\ fd = None /\ outcome = None /\ since = {}
Init == InitOf(Contents)

Go(next) == pc' = next /\ UNCHANGED <<outcome, fd>>
End(o) == pc' = "end" /\ outcome' = o /\ UNCHANGED fd

\* call_run_guarded_command sends harbor run and the Azure writes to their own tools.
Begin == /\ pc = "begin" /\ since' = {Manifest}
         /\ IF call.owned /\ ~call.typed THEN End("refused") ELSE Go("validate")

\* validate_command, then the manifest for a bash call it refused.
Validate == /\ pc = "validate" /\ UNCHANGED since
            /\ CASE call.program = "listed" -> Go("timeout")
                 [] call.program = "bash" /\ call.args = 1 -> Go("exists")
                 [] OTHER -> End("not_allowlisted")

\* repo_declared_shell_scripts: no manifest declares nothing.
Exists == /\ pc = "exists" /\ UNCHANGED since
          /\ IF at = None THEN End("not_allowlisted") ELSE Go("open")

Open == /\ pc = "open" /\ UNCHANGED since
        /\ IF at = None THEN End("refused") ELSE pc' = "length" /\ fd' = at /\ UNCHANGED outcome

Length == /\ pc = "length" /\ UNCHANGED since
          /\ IF holds[fd].large THEN End("refused") ELSE Go("read")

\* Faulty variant of Broken: a manifest that does not parse declares nothing.
BrokenIsEmpty(c) == FALSE
\* A present, malformed manifest is refused, not taken for an empty one.
Broken(c) == ~c.whole
Read == /\ pc = "read" /\ UNCHANGED since
        /\ CASE Broken(holds[fd]) -> End("refused")
             [] ~Broken(holds[fd]) /\ call.script \in holds[fd].scripts -> Go("timeout")
             [] OTHER -> End("not_allowlisted")

\* checked_command_timeout, expand_scratch_tokens (which may fail), and the child starts.
Allowed == call.secs \in 1..call.limit
Start == /\ pc = "timeout" /\ UNCHANGED since
         /\ \E o \in {"running", "refused"} : (o = "running" => Allowed) /\ End(o)

\* The owner truncates and writes in place, renames a file over the name, or removes it.
Edited(a, h) == /\ edits < MaxEdits /\ edits' = edits + 1 /\ at' = a /\ holds' = h
                /\ since' = IF pc = "begin" THEN {}
                            ELSE since \cup {IF a = None THEN None ELSE h[a]}
                /\ UNCHANGED <<call, pc, fd, outcome>>
Write(c)      == at # None /\ Edited(at, [holds EXCEPT ![at] = c])
Replace(i, c) == i # at /\ i # fd /\ Edited(i, [holds EXCEPT ![i] = c])
Remove        == at # None /\ Edited(None, holds)

Call == Begin \/ Validate \/ Exists \/ Open \/ Length \/ Read \/ Start
NextOf(contents) == \/ Call /\ UNCHANGED <<at, holds, edits, call>>
                    \/ \E c \in contents : Write(c)
                    \/ \E c \in contents, i \in Inodes : Replace(i, c)
                    \/ Remove
Next == NextOf(Contents)
Spec == Init /\ [][Next]_vars

\* However its owner edits the manifest meanwhile, a script off the fixed list runs only if
\* one whole manifest declared it during the call, and is called not allowlisted only if
\* during the call there was no manifest or a whole one without it: never because a broken
\* or half-written manifest was read as an empty one (is_repo_declared_shell_script).
\* Nothing runs longer than its own kind may.
JudgedByTheManifest ==
  /\ outcome = "running" /\ call.program = "bash" =>
       \E m \in since \ {None} : m.whole /\ call.script \in m.scripts
  /\ outcome = "not_allowlisted" /\ call.program = "bash" /\ call.args = 1 =>
       None \in since \/ \E m \in since \ {None} : m.whole /\ call.script \notin m.scripts
  /\ outcome = "running" /\ call.secs > 600 => call.owned
=============================================================================
