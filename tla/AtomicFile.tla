---------------------------- MODULE AtomicFile ----------------------------
(***************************************************************************)
(* What ContextPatch promises a caller about one repository file: a        *)
(* guarded edit is a compare-and-swap on the file.  It takes effect at one *)
(* instant, against the content the file has at that instant, or not at    *)
(* all; the reply says which.  This is docs/safety-contract.md rules 2, 4, *)
(* 25 and 28 read as a state machine; GuardedFile is shown to implement it.*)
(***************************************************************************)
EXTENDS EditRequests

VARIABLES
  file,         \* file[q]: content and mode of path q, or None when absent
  call          \* call[p]: the request p is serving and how far it is

vars == <<file, call>>

States == {"pending", "applied", "ok", "error"}

TypeOK ==
  /\ file \in [Paths -> FileState \cup {None}]
  /\ call \in [Callers -> [req: Requests, state: States] \cup {None}]

Init ==
  /\ file \in [Paths -> FileState \cup {None}]
  /\ call = [p \in Callers |-> None]

Become(p, s) == call' = [call EXCEPT ![p] = [req |-> call[p].req, state |-> s]]

Invoke(p) ==
  /\ call[p] = None
  /\ \E r \in Requests : call' = [call EXCEPT ![p] = [req |-> r, state |-> "pending"]]
  /\ UNCHANGED file

(* The edit happens: the only step that changes a file. *)
Commit(p) ==
  /\ call[p] # None /\ call[p].state = "pending"
  /\ LET r == call[p].req
     IN /\ Accepts(r, file[r.path])
        /\ file' = [file EXCEPT ![r.path] = After(r, file[r.path])]
  /\ Become(p, "applied")

(* A chmod that changes nothing may be confirmed although the path has moved on to another file. *)
Confirm(p) ==
  /\ call[p] # None /\ call[p].state = "pending"
  /\ call[p].req.op = "chmod" /\ call[p].req.from = call[p].req.to
  /\ Become(p, "applied")
  /\ UNCHANGED file

Succeed(p) ==
  /\ call[p] # None /\ call[p].state = "applied"
  /\ Become(p, "ok")
  /\ UNCHANGED file

(***************************************************************************)
(* An error reply means nothing was changed, with two exceptions the code  *)
(* makes: a created file whose staging name could not be removed, and a    *)
(* mode that was set but could not be read back, are reported as errors.   *)
(***************************************************************************)
Refuse(p) ==
  /\ call[p] # None
  /\ \/ call[p].state = "pending"
     \/ call[p].state = "applied" /\ call[p].req.op \in {"create", "chmod"}
  /\ Become(p, "error")
  /\ UNCHANGED file

Return(p) ==
  /\ call[p] # None /\ call[p].state \in {"ok", "error"}
  /\ call' = [call EXCEPT ![p] = None]
  /\ UNCHANGED file

(* Processes die, with whatever they had already done. *)
Die(S) ==
  /\ call' = [p \in Callers |-> IF p \in S THEN None ELSE call[p]]
  /\ UNCHANGED file

Next ==
  \/ \E p \in Callers : Invoke(p) \/ Commit(p) \/ Confirm(p) \/ Succeed(p) \/ Refuse(p) \/ Return(p)
  \/ \E S \in SUBSET Callers : Die(S)

Spec == Init /\ [][Next]_vars
=============================================================================
