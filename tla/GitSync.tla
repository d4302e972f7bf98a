------------------------------ MODULE GitSync ------------------------------
(***************************************************************************)
(* The tools that synchronise with a remote                                *)
(* (crates/core/src/git/sync.rs, crates/server/src/tools/git/handlers/     *)
(* sync.rs): push, preparation of a branch, merge readiness, remote check. *)
(*                                                                         *)
(* A commit is the sequence of changes that lead to it, so one commit is   *)
(* an ancestor of another when it is a prefix of it.  Others push to the   *)
(* remote and editors change the worktree at any time.  A user's own Git   *)
(* runs before a call, and during merge readiness, whose report must agree *)
(* with itself even then.                                                  *)
(***************************************************************************)
EXTENDS Naturals, FiniteSets, SequencesExt

CONSTANTS
  Branches,   \* the names of branches, the same here and at the remote
  MaxLen,     \* bound on the length of a history
  MaxMoves,   \* bound on what others push while a call runs
  None

VARIABLES
  remote,     \* remote[b]: the commit at the remote, or None
  tracking,   \* tracking[b]: refs/remotes/<remote>/<b>
  local,      \* local[b]: refs/heads/<b>
  current,    \* the branch that HEAD names
  edit,       \* an uncommitted change: "none", "fresh", or "known" to be there by the last look
  call,       \* the running call, or None
  pc,         \* the next step of the call
  read,       \* what the call has read so far
  reply,      \* the report, with which the behaviour ends
  moves       \* how often others pushed

vars == <<remote, tracking, local, current, edit, call, pc, read, reply, moves>>
refs == <<remote, tracking, local, current>>

Commits == UNION {[1..n -> {"ours", "theirs"}] : n \in 0..MaxLen}
Exists(c) == c # None
Op == IF call = None THEN None ELSE call.op
HEAD == local[current]

(* git merge-base --is-ancestor; it also says no when one of the refs is missing. *)
IsAncestor(a, b) == Exists(a) /\ Exists(b) /\ IsPrefix(a, b)

(* git rev-list --count: how many commits of a are not b's.  (A commit that both have is one *)
(* that their merge base has.)                                                               *)
Ahead(a, b) == Cardinality({n \in DOMAIN a : ~IsPrefix(SubSeq(a, 1, n), b)})

(* The file the client requires came with the work of others. *)
HasRequiredFile(c) == \E i \in DOMAIN c : c[i] = "theirs"

SyncRequests ==
  [op : {"push"}, branch : Branches, expected : Commits]
    \cup [op : {"prepare"}, branch : Branches, base : Branches, reset : BOOLEAN, required : BOOLEAN]
    \cup [op : {"readiness"}, branch : Branches, base : Branches, fetch : BOOLEAN]
    \cup [op : {"check"}, branch : Branches]

ConstantsAreSane ==
  /\ MaxLen \in Nat /\ MaxMoves \in Nat
  /\ None \notin Commits \cup SyncRequests \cup {"push", "prepare", "readiness", "check"}

(* What a call notes: whether the worktree was dirty, HEAD, what it will do to the branch, *)
(* the commits it resolved.                                                                *)
Reads == [dirty : BOOLEAN \cup {None}, head : Commits \cup {None}, action : {None, "create", "reset", "switch"},
          base : Commits \cup {None}, target : Commits \cup {None}]
Unread == [dirty |-> None, head |-> None, action |-> None, base |-> None, target |-> None]

Init ==
  /\ remote \in [Branches -> Commits \cup {None}]
  /\ tracking = remote
  /\ local \in [Branches -> Commits \cup {None}]
  /\ current \in {b \in Branches : Exists(local[b])}
  /\ edit = "none" /\ moves = 0
  /\ call = None /\ pc = "idle" /\ read = None /\ reply = None

-----------------------------------------------------------------------------
(* The others, until the reply; a user's own Git before the call is in the initial states. *)

Pushed(b) ==
  /\ remote' \in {[remote EXCEPT ![b] = c] : c \in Commits}
  /\ remote' # remote
  /\ reply = None /\ moves < MaxMoves /\ moves' = moves + 1
  /\ Exists(remote[b]) => \/ remote'[b] = Append(remote[b], "theirs")
                          \/ IsPrefix(remote'[b], remote[b])
  /\ ~Exists(remote[b]) => remote'[b] = <<>>
  /\ UNCHANGED <<tracking, local, current, edit, call, pc, read, reply>>

Edited ==
  /\ reply = None /\ edit = "none" /\ edit' = "fresh"
  /\ UNCHANGED <<refs, call, pc, read, reply>>

UserGit ==
  /\ Op = "readiness"
  /\ \/ /\ Len(HEAD) < MaxLen
        /\ local' = [local EXCEPT ![current] = Append(@, "ours")]
        /\ edit' = "none"
        /\ UNCHANGED <<tracking, current>>
     \/ \E b \in Branches : /\ Exists(local[b]) /\ current' = b /\ b # current
                            /\ UNCHANGED <<tracking, local, edit>>
     \/ \E b \in Branches : /\ tracking # remote /\ tracking' = [tracking EXCEPT ![b] = remote[b]]
                            /\ UNCHANGED <<local, current, edit>>
  /\ UNCHANGED <<remote, call, pc, read, reply>>

-----------------------------------------------------------------------------
(* The calls. *)

Goto(from, to) == pc = from /\ pc' = to /\ UNCHANGED call
Finish(r) == pc' = "idle" /\ call' = None /\ read' = None /\ reply' = r
Refuse == Finish([op |-> "refused"])
Looks == edit' = IF edit = "none" THEN "none" ELSE "known"

(* Any command may fail, also after it took effect when it runs out of time. *)
Fails == call # None /\ Refuse /\ UNCHANGED <<refs, edit>>

Start(r) ==
  /\ call = None /\ reply = None /\ call' = r /\ pc' = "clean"
  /\ read' = Unread
  /\ Looks
  /\ UNCHANGED <<refs, reply, moves>>

Strict == Op \in {"push", "prepare"}

(* git status, and ensure_worktree_clean where it applies. *)
Clean ==
  /\ pc = "clean"
  /\ \/ /\ ~(Strict /\ edit # "none")
        /\ read' = [read EXCEPT !.dirty = (edit # "none")]
        /\ Goto("clean", IF Op = "push" THEN "head"
                         ELSE IF Op = "readiness" /\ ~call.fetch THEN "base" ELSE "fetch")
        /\ UNCHANGED reply
     \/ Strict /\ edit # "none" /\ Refuse
  /\ UNCHANGED <<refs, edit>>

(* Faulty variant of CheckHead: the branch is checked, the commit is not. *)
CheckHeadLoosely ==
  /\ pc = "head" /\ current = call.branch
  /\ read' = [read EXCEPT !.head = HEAD] /\ Goto("head", "fetch")
  /\ UNCHANGED <<refs, edit, reply>>

CheckHead ==
  /\ pc = "head"
  /\ \/ /\ current = call.branch /\ HEAD = call.expected
        /\ read' = [read EXCEPT !.head = HEAD] /\ Goto("head", "fetch")
        /\ UNCHANGED reply
     \/ (current # call.branch \/ HEAD # call.expected) /\ Refuse
  /\ UNCHANGED <<refs, edit>>

FetchedBranch == IF Op = "prepare" THEN call.base ELSE call.branch

Fetch ==
  /\ pc = "fetch"
  /\ tracking' = [tracking EXCEPT ![FetchedBranch] = remote[FetchedBranch]]
  /\ Looks
  /\ \/ Exists(remote[FetchedBranch]) /\ Goto("fetch", "same") /\ UNCHANGED <<read, reply>>
     \/ Refuse
  /\ UNCHANGED <<remote, local, current>>

(* ensure_status_unchanged; push asks for a clean worktree again. *)
AfterFetch ==
  /\ pc = "same"
  /\ \/ /\ (edit # "none") = read.dirty
        /\ \/ Goto("same", IF Op = "push" THEN "push" ELSE "plan") /\ Strict
           \/ Goto("same", IF Op = "check" THEN "done" ELSE "base") /\ ~Strict
        /\ UNCHANGED <<read, reply>>
     \/ (edit # "none") # read.dirty /\ Refuse
  /\ UNCHANGED <<refs, edit>>

(* divergence, then git push HEAD:refs/heads/<branch>, which the remote takes only as a fast-forward. *)
Push ==
  /\ pc = "push"
  /\ LET b == call.branch IN
     \/ /\ Ahead(tracking[b], HEAD) = 0 /\ IsAncestor(tracking[b], HEAD)
        /\ ~Exists(remote[b]) \/ IsAncestor(remote[b], HEAD)
        /\ remote' = [remote EXCEPT ![b] = HEAD]
        /\ tracking' = [tracking EXCEPT ![b] = HEAD]
        /\ Finish([op |-> "push", commit |-> read.head]) \/ Refuse
     \/ /\ ~IsAncestor(tracking[b], HEAD) \/ (Exists(remote[b]) /\ ~IsAncestor(remote[b], HEAD))
        /\ Refuse
        /\ UNCHANGED <<remote, tracking>>
  /\ UNCHANGED <<local, current, edit>>

(* Faulty variant of SelectAction: a branch that exists is always reset. *)
SelectReset(existed, reset) == IF existed THEN "reset" ELSE "create"

(* select_branch_action. *)
SelectAction(existed, reset) == IF existed THEN (IF reset THEN "reset" ELSE "switch") ELSE "create"

(* The commit that the branch is to be at: where required files are looked for before anything moves. *)
Target(action) == IF action = "switch" THEN local[call.branch] ELSE tracking[call.base]

Plan ==
  /\ pc = "plan"
  /\ LET action == SelectAction(Exists(local[call.branch]), call.reset)
         allowed == /\ call.required => HasRequiredFile(Target(action))
                    /\ action = "switch" => IsAncestor(tracking[call.base], local[call.branch])
     IN \/ /\ allowed
           /\ read' = [read EXCEPT !.action = action, !.base = tracking[call.base]]
           /\ Goto("plan", IF action = "reset" /\ current # call.branch THEN "force" ELSE "move")
           /\ UNCHANGED reply
        \/ ~allowed /\ Refuse
  /\ UNCHANGED <<refs, edit>>

(* git branch -f, the first of the two commands that reset a branch that is not checked out. *)
ForceBranch ==
  /\ pc = "force"
  /\ local' = [local EXCEPT ![call.branch] = tracking[call.base]]
  /\ (Goto("force", "move") /\ UNCHANGED <<read, reply>>) \/ Refuse
  /\ UNCHANGED <<remote, tracking, current, edit>>

(* git reset --hard drops uncommitted changes; git switch keeps them, or refuses. *)
Move ==
  /\ pc = "move"
  /\ LET b == call.branch IN
     \/ /\ read.action = "reset" /\ current = b
        /\ local' = [local EXCEPT ![b] = tracking[call.base]]
        /\ edit' = "none"
     \/ /\ read.action # "reset" \/ current # b
        /\ local' = [local EXCEPT ![b] = IF read.action = "create" THEN tracking[call.base] ELSE @]
        /\ UNCHANGED edit
  /\ current' = call.branch
  /\ (Goto("move", "verify") /\ UNCHANGED <<read, reply>>) \/ Refuse
  /\ UNCHANGED <<remote, tracking>>

(* What the branch looks like afterwards; a required file may have been removed by an editor. *)
Verify ==
  /\ pc = "verify"
  /\ \/ /\ current = call.branch /\ IsAncestor(tracking[call.base], HEAD)
        /\ Finish([op |-> "prepare", base |-> read.base, branch |-> current, head |-> HEAD,
                   required |-> call.required])
     \/ /\ current # call.branch \/ ~IsAncestor(tracking[call.base], HEAD) \/ (call.required /\ edit # "none")
        /\ Refuse
  /\ UNCHANGED <<refs, edit>>

(* Merge readiness resolves both refs first and compares the commits, not the refs. *)
ResolveBase ==
  /\ Goto("base", "target")
  /\ Exists(local[call.base])
  /\ read' = [read EXCEPT !.base = local[call.base]]
  /\ UNCHANGED <<refs, edit, reply>>

ResolveTarget ==
  /\ Goto("target", "compare")
  /\ Exists(tracking[call.branch])
  /\ read' = [read EXCEPT !.target = tracking[call.branch]]
  /\ UNCHANGED <<refs, edit, reply>>

(* Faulty variant of Compare: the refs are resolved again. *)
CompareRefs ==
  /\ pc = "compare"
  /\ Finish([op |-> "readiness", base |-> read.base, target |-> read.target,
             baseAhead |-> Ahead(local[call.base], tracking[call.branch]),
             targetAhead |-> Ahead(tracking[call.branch], local[call.base])])
  /\ UNCHANGED <<refs, edit>>

Compare ==
  /\ pc = "compare"
  /\ Finish([op |-> "readiness", base |-> read.base, target |-> read.target,
             baseAhead |-> Ahead(read.base, read.target), targetAhead |-> Ahead(read.target, read.base)])
  /\ UNCHANGED <<refs, edit>>

(* The divergence that git_remote_check reports. *)
Report ==
  /\ pc = "done"
  /\ LET t == tracking[call.branch] IN
       Finish([op |-> "check", head |-> HEAD, remoteHead |-> t, remoteAhead |-> Ahead(t, HEAD),
               localAhead |-> Ahead(HEAD, t), fastForward |-> IsAncestor(t, HEAD)])
  /\ UNCHANGED <<refs, edit>>

Tool ==
  \/ Fails \/ Clean \/ CheckHead \/ Fetch \/ AfterFetch \/ Push
  \/ Plan \/ ForceBranch \/ Move \/ Verify
  \/ ResolveBase \/ ResolveTarget \/ Compare \/ Report

Next ==
  \/ \E b \in Branches : Pushed(b)
  \/ (Edited \/ UserGit) /\ UNCHANGED moves
  \/ \E r \in SyncRequests : Start(r)
  \/ Tool /\ UNCHANGED moves

Spec == Init /\ [][Next]_vars

-----------------------------------------------------------------------------
TypeOK ==
  /\ {remote, tracking, local} \subseteq [Branches -> Commits \cup {None}]
  /\ current \in Branches /\ Exists(HEAD)
  /\ edit \in {"none", "fresh", "known"}
  /\ moves \in 0..MaxMoves
  /\ call \in SyncRequests \cup {None} /\ read \in Reads \cup {None}
  /\ pc \in {"idle", "clean", "head", "fetch", "same", "push", "plan", "force", "move", "verify", "base",
             "target", "compare", "done"}

(***************************************************************************)
(* A push moves exactly the branch it was asked to push, forward, to the   *)
(* commit the client expected, which is that branch's own, whatever others *)
(* push at the same time (git_push_exact: "push exact commit").            *)
(***************************************************************************)
PushesTheExpected ==
  pc' # pc /\ remote' # remote =>
    LET target == call.branch IN
      /\ Op = "push"
      /\ remote' = [remote EXCEPT ![target] = call.expected] /\ local[target] = call.expected
      /\ Exists(remote[target]) => IsPrefix(remote[target], call.expected)

(***************************************************************************)
(* Nobody's work is dropped: a local branch loses commits only by a reset  *)
(* that the client confirmed, and uncommitted changes made before the last *)
(* look at the worktree survive every tool (a change made after that look  *)
(* is lost by git reset --hard).                                           *)
(***************************************************************************)
DropsNothing ==
  /\ \A b \in Branches :
       Exists(local[b]) /\ ~IsAncestor(local[b], local'[b]) =>
         Op = "prepare" /\ call.reset /\ b = call.branch
  /\ edit = "known" /\ Op \notin {None, "readiness"} => edit' = "known"

(***************************************************************************)
(* Reports agree with themselves and with the repository: a prepared       *)
(* branch is based on the fetched commit and holds the required file; the  *)
(* counts of a readiness report are those of the two commits it names,     *)
(* although the refs move while it is made.                                *)
(***************************************************************************)
HonestReports ==
  Exists(reply) =>
    /\ reply.op = "prepare" => /\ IsPrefix(reply.base, reply.head)
                               /\ reply.required => HasRequiredFile(reply.head)
    /\ reply.op = "readiness" => /\ (reply.baseAhead = 0) = IsPrefix(reply.base, reply.target)
                                 /\ (reply.targetAhead = 0) = IsPrefix(reply.target, reply.base)
=============================================================================
