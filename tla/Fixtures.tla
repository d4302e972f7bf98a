------------------------------- MODULE Fixtures -------------------------------
(***************************************************************************)
(* Fixture manifests (crates/server/src/tools/fixtures.rs): a call         *)
(* verifies the listed digests against the files, or lists them anew.  The *)
(* files are found first and hashed one by one, while an editor changes    *)
(* them.  The mutation lock leaves one call at a time.                     *)
(***************************************************************************)
EXTENDS Naturals, FiniteSets

CONSTANTS Paths,      \* fixture files; the manifest is none of them
          Contents,   \* contents of a file, which stand for their digests too
          None,       \* no file
          Odd,        \* a manifest no reader accepts
          MaxEdits, MaxCalls

ConstantsAreSane == /\ None \notin Contents /\ None \notin {"verified", "mismatch"} /\ None # Odd
                    /\ \A S \in SUBSET Paths : None \notin [S -> Contents] /\ Odd \notin [S -> Contents]
                    /\ None \notin [paths : SUBSET Paths, beneath : SUBSET Paths]

VARIABLES file,
          manifest,   \* None, Odd, or the digests it lists
          call,       \* the running call: its arguments and what it has read
          result,
          since,      \* contents every file has had since the call began
          fresh,      \* fixture arguments of the last refresh, while nothing changed since
                      \* it began
          edits, calls

vars == <<file, manifest, call, result, since, fresh, edits, calls>>

Digests == UNION {[S -> Contents] : S \in (SUBSET Paths) \ {{}}}
Present(S) == {p \in S : file[p] # None}

\* fixture_paths, each a file that must be there, and fixture_prefixes, whose files are
\* taken as they are found.
Scopes == {s \in [paths : SUBSET Paths, beneath : SUBSET Paths] :
             s.paths \cap s.beneath = {} /\ s.paths \cup s.beneath # {}}

Idle == [pc |-> "none"]
TypeOK ==
  /\ file \in [Paths -> Contents \cup {None}]
  /\ manifest = None \/ manifest = Odd \/ manifest \in Digests
  /\ result \in {None, "verified", "mismatch"} /\ fresh \in Scopes \cup {None}
  /\ \A p \in Paths : file[p] \in since[p]

Init ==
  /\ file \in [Paths -> Contents \cup {None}] /\ manifest \in {None, Odd}
  /\ call = Idle /\ result = None /\ fresh = None
  /\ since = [p \in Paths |-> {file[p]}] /\ edits = 0 /\ calls = 0

Begin == \E s \in Scopes, t \in {"verify", "refresh"} :
  /\ call = Idle /\ calls < MaxCalls
  /\ calls' = calls + 1
  /\ call' = [tool |-> t, pc |-> "open", scope |-> s, expected |-> None, todo |-> {}, got |-> <<>>]
  /\ UNCHANGED <<file, manifest, result, since, fresh, edits>>

At(step) == call.pc = step
Go(step, c) ==
  call' = [c EXCEPT !.pc = step] /\ UNCHANGED <<file, manifest, result, since, fresh, edits, calls>>
Over == /\ call' = Idle /\ result' = None /\ since' = [p \in Paths |-> {file[p]}]
        /\ UNCHANGED <<file, edits, calls>>
Refuse == Over /\ UNCHANGED <<manifest, fresh>>

\* The manifest is read once.  To overwrite one takes its digest.
Open ==
  /\ At("open")
  /\ \/ Refuse
     \/ /\ call.tool = "verify" => manifest \in Digests
        /\ Go("list", [call EXCEPT !.expected = manifest])

\* collect_fixture_files_from_args: the listing, then one digest after the other, in the
\* order of names: in any order here.
List ==
  /\ At("list")
  /\ IF Present(call.scope.paths) # call.scope.paths THEN Refuse
     ELSE Go("hash", [call EXCEPT !.todo = Present(call.scope.paths \cup call.scope.beneath)])
Hash == \E p \in Paths :
  /\ At("hash") /\ p \in call.todo
  /\ IF file[p] = None THEN Refuse
     ELSE Go("hash", [call EXCEPT !.todo = @ \ {p},
                                  !.got = [q \in DOMAIN call.got \cup {p} |->
                                             IF q = p THEN file[p] ELSE call.got[q]]])
Collected(t) == At("hash") /\ call.tool = t /\ call.todo = {}

Missing == DOMAIN call.expected \ DOMAIN call.got
Unlisted == DOMAIN call.got \ DOMAIN call.expected
\* Faulty variant of Modified: the digests are not compared.
ModifiedUnseen == {}
Modified == {p \in DOMAIN call.got \cap DOMAIN call.expected : call.got[p] # call.expected[p]}

Verify ==
  /\ Collected("verify")
  /\ call' = [call EXCEPT !.pc = "done"]
  /\ result' = IF Missing \cup Unlisted \cup Modified = {} THEN "verified" ELSE "mismatch"
  /\ UNCHANGED <<file, manifest, since, fresh, edits, calls>>
Forget == At("done") /\ Refuse

\* The text of the new manifest.  (One that lists nothing is no manifest to its reader.)
Listing == IF call.got = <<>> THEN Odd ELSE call.got

\* replace_atomic on the handle, or create-only where no manifest was: both refuse when
\* the name has come to mean another file, and a dry run writes nothing.
Unchanged == \A p \in Paths : since[p] = {file[p]}
Refresh == /\ Collected("refresh")
           /\ Refuse \/ (manifest' = Listing /\ fresh' = (IF Unchanged THEN call.scope ELSE None) /\ Over)

\* (Between the end of a verification and the look at its report nothing happens.)
UserEdits == \E p \in Paths, c \in Contents \cup {None} :
  /\ ~At("done") /\ edits < MaxEdits /\ file[p] # c
  /\ edits' = edits + 1 /\ file' = [file EXCEPT ![p] = c]
  /\ since' = [since EXCEPT ![p] = IF call = Idle THEN {c} ELSE @ \cup {c}]
  /\ fresh' = None /\ UNCHANGED <<manifest, call, result, calls>>

Next == Begin \/ Open \/ List \/ Hash \/ Verify \/ Forget \/ Refresh \/ UserEdits
Spec == Init /\ [][Next]_vars

-----------------------------------------------------------------------------
\* A verification passes only when every listed fixture had, during the call, the content
\* listed and every fixture found was listed; and after a refresh from the same arguments
\* with no change since, it does pass.
HonestVerdict ==
  At("done") =>
    /\ result = "verified" =>
         /\ \A p \in DOMAIN call.expected : call.expected[p] \in since[p]
         /\ DOMAIN call.got = DOMAIN call.expected
    /\ result = "mismatch" => fresh # call.scope
=============================================================================
