-------------------------- MODULE GitCommitProofs --------------------------
(***************************************************************************)
(* Proofs of the safety of GitCommit, for any number of paths, requests    *)
(* and commits, with editors, other people's Git, failing or late Git      *)
(* commands and kills: a commit holds the planned paths, and receipts and  *)
(* replies are true of the call's own commit.                              *)
(***************************************************************************)
EXTENDS GitCommit, TLAPS

Early == {"status", "index", "head", "sources", "add", "verify", "dirty", "commit"}
Receipting == {"head", "dirty", "commit", "clean", "identity", "settle"}
Begun == {"sources", "add", "verify", "dirty", "commit", "clean", "identity", "settle"}

(* What a step and the reply of a call say of its kind and of its commit. *)
Fits(kind, pc, made, reply) ==
  /\ pc \in Receipting => kind # "stage"
  /\ pc = "dirty" => kind = "exact"
  /\ pc \in Early => ~made
  /\ pc \in {"clean", "identity"} => made
  /\ pc \in Early \cup {"clean", "identity"} => reply = None
  /\ reply = "ok" => (made <=> kind # "stage")
  /\ reply \in {"refused", "after staging"} => ~made
  /\ reply = "after commit" => made

Progress == call # None => Fits(call.kind, call.pc, call.made, call.reply)

(* The HEAD that the begin record names precedes the call's own commit. *)
Truth ==
  call # None =>
    /\ Receipted /\ call.pc \in Begun => call.before <= commits /\ (call.made => call.before < commits)
    /\ call.outcome # None => call.pc = "done"
    /\ call.outcome = "applied" => call.made
    /\ call.outcome = "refused" => ~call.made

(* The index of a call that nobody's Git disturbs. *)
Alone ==
  call # None /\ call.alone =>
    /\ call.pc \in {"dirty", "commit"} => Staged = call.planned
    /\ call.made => call.committed = call.planned
    /\ call.kind # "exact" => /\ call.pc \in {"head", "sources"} => Staged = {}
                              /\ call.left = {}

Bounds == commits <= MaxCommits + 1 /\ (call # None /\ ~call.made => commits <= MaxCommits)

IInv == TypeOK /\ Progress /\ Truth /\ Alone /\ Bounds

-----------------------------------------------------------------------------
LEMMA Constants ==
  /\ None \notin Contents /\ Ignored \subseteq Paths /\ MaxCommits \in Nat
  /\ Requests \subseteq [kind: Kinds, paths: SUBSET Paths]
  /\ None \notin Nat /\ None \notin Replies /\ None \notin Outcomes
BY TreesAreSane, ConstantsAreSane

LEMMA InitIInv == Init => IInv
BY Constants DEF Init, TreesInit, IInv, TypeOK, TreesOK, File, Progress, Truth, Alone, Bounds

LEMMA StartKeeps ==
  ASSUME IInv, Start
  PROVE  IInv'
<1>1. PICK r \in Requests :
        call' = [kind |-> r.kind, asked |-> r.paths, pc |-> "status", planned |-> {}, seen |-> None, alone |-> TRUE,
                 sources |-> {}, left |-> {}, moved |-> {}, before |-> 0, made |-> FALSE,
                 committed |-> {}, outcome |-> None, reply |-> None]
  BY DEF Start
<1>2. r.kind \in Kinds /\ r.paths \in SUBSET Paths
  BY Constants
<1>3. TypeOK'
  <2>1. call' \in CallType
    BY <1>1, <1>2 DEF CallType, Steps
  <2>. QED  BY <2>1 DEF IInv, TypeOK, TreesOK, Start, trees
<1>4. Progress' /\ Truth' /\ Alone'
  BY <1>1, Constants DEF Progress, Fits, Truth, Alone, Receipting, Early, Begun, Replies, Outcomes
<1>5. Bounds'
  BY Constants DEF Start, IInv, TypeOK, Bounds
<1>. QED  BY <1>3, <1>4, <1>5 DEF IInv

(* A step that changes neither the index nor what the call has noted. *)
MayGo(l, r) ==
  /\ Fits(call.kind, l, call.made, r)
  /\ l \in Begun /\ Receipted => call.pc \in Begun
  /\ call.alone /\ l \in {"dirty", "commit"} => Staged = call.planned
  /\ call.alone /\ l \in {"head", "sources"} /\ call.kind # "exact" => Staged = {}

LEMMA GoingKeeps ==
  ASSUME IInv, call # None, call.pc # "done", UNCHANGED <<trees, commits>>,
         NEW l \in Steps, NEW r \in Replies \cup {None}, MayGo(l, r),
         call' = [call EXCEPT !.pc = l, !.reply = r]
  PROVE  IInv'
<1>. USE DEF IInv
<1>1. TypeOK'
  <2>1. call' \in CallType
    BY DEF TypeOK, CallType
  <2>. QED  BY <2>1 DEF TypeOK, TreesOK, trees
<1>2. /\ call'.kind = call.kind /\ call'.pc = l /\ call'.reply = r /\ call'.made = call.made
      /\ call'.planned = call.planned /\ call'.before = call.before /\ call'.outcome = call.outcome
      /\ call'.alone = call.alone /\ call'.left = call.left /\ call'.committed = call.committed
  BY DEF TypeOK, CallType
<1>3. Progress' /\ Truth' /\ Bounds'
  BY <1>2 DEF MayGo, Progress, Truth, Bounds, Receipted
<1>4. Staged' = Staged
  BY DEF Staged, trees
<1>5. Alone'
  BY <1>2, <1>4 DEF MayGo, Alone
<1>. QED  BY <1>1, <1>3, <1>5

LEMMA GotoKeeps ==
  ASSUME IInv, call # None, call.pc # "done", UNCHANGED <<trees, commits>>,
         NEW l \in Steps, Goto(l), MayGo(l, call.reply)
  PROVE  IInv'
<1>1. call' = [call EXCEPT !.pc = l, !.reply = call.reply] /\ call.reply \in Replies \cup {None}
  BY DEF Goto, IInv, TypeOK, CallType
<1>. QED  BY <1>1, GoingKeeps

(* An answer, of a call with a receipt by way of its settlement. *)
LEMMA AnswerKeeps ==
  ASSUME IInv, call # None, call.pc # "done", UNCHANGED <<trees, commits>>, NEW r \in Replies,
         \/ Reply(r) /\ (r = "ok" => ~Receipted)
         \/ Fail(r) /\ r # "ok" /\ call.pc \in Begun,
         r \in {"ok", "refused", "after staging"} => ~call.made,
         r = "after commit" => call.made
  PROVE  IInv'
<1>1. MayGo("done", r)
  BY DEF MayGo, Fits, Receipting, Early, Begun, Receipted, IInv, TypeOK, CallType
<1>2. call.pc \in Begun /\ Receipted /\ r # "ok" => MayGo("settle", r)
  BY DEF MayGo, Fits, Receipting, Early, Begun, Receipted, IInv, TypeOK, CallType
<1>3. "done" \in Steps /\ "settle" \in Steps /\ r \in Replies \cup {None}
  BY DEF Steps
<1>. QED  BY <1>1, <1>2, <1>3, GoingKeeps DEF Reply, Fail

-----------------------------------------------------------------------------
(* Planning. *)
LEMMA PlanKeeps ==
  ASSUME IInv, Plan
  PROVE  IInv'
<1>1. call # None /\ call.pc = "status" /\ UNCHANGED <<trees, commits>>
  BY DEF Plan, At
<1>2. CASE Reply("refused")
  <2>1. ~call.made
    BY <1>1 DEF IInv, Progress, Fits, Early
  <2>. QED  BY <1>1, <1>2, <2>1, AnswerKeeps DEF Replies
<1>3. CASE /\ call' = [call EXCEPT !.planned = Selected, !.seen = work,
                                   !.pc = IF call.kind = "exact" THEN "head" ELSE "index"]
  <2>1. Selected \subseteq Paths /\ work \in [Paths -> File]
    BY <1>1 DEF Selected, IInv, TypeOK, TreesOK, CallType
  <2>2. PICK l \in {"head", "index"} :
          /\ call' = [call EXCEPT !.planned = Selected, !.seen = work, !.pc = l]
          /\ l = "head" => call.kind = "exact"
    BY <1>3
  <2>3. TypeOK'
    <3>1. call' \in CallType
      BY <1>1, <2>1, <2>2 DEF IInv, TypeOK, CallType, Steps
    <3>. QED  BY <1>1, <3>1 DEF IInv, TypeOK, TreesOK, trees
  <2>4. /\ call'.kind = call.kind /\ call'.pc = l /\ call'.reply = call.reply /\ call'.made = call.made
        /\ call'.before = call.before /\ call'.outcome = call.outcome
        /\ call'.alone = call.alone /\ call'.left = call.left /\ call'.committed = call.committed
    BY <1>1, <2>2 DEF IInv, TypeOK, CallType
  <2>5. ~call.made /\ call.reply = None
    BY <1>1 DEF IInv, Progress, Fits, Early
  <2>6. Progress' /\ Truth' /\ Bounds'
    BY <1>1, <2>2, <2>4, <2>5, Constants
    DEF IInv, Progress, Fits, Truth, Bounds, Early, Receipting, Begun, Receipted, Replies
  <2>7. Alone'
    BY <1>1, <2>2, <2>4, <2>5 DEF IInv, Alone
  <2>. QED  BY <2>3, <2>6, <2>7 DEF IInv
<1>. QED  BY <1>2, <1>3 DEF Plan

LEMMA CheckIndexKeeps ==
  ASSUME IInv, CheckIndex
  PROVE  IInv'
<1>1. /\ call # None /\ call.pc = "index" /\ UNCHANGED <<trees, commits>>
      /\ ~call.made /\ call.reply = None
  BY DEF CheckIndex, At, IInv, Progress, Fits, Early
<1>2. CASE Reply("refused")
  BY <1>1, <1>2, AnswerKeeps DEF Replies
<1>3. CASE Staged = {} /\ Goto(IF Receipted THEN "head" ELSE "sources")
  <2>1. PICK l \in {"head", "sources"} : Goto(l) /\ (l = "head" <=> Receipted)
    BY <1>3
  <2>2. MayGo(l, call.reply) /\ l \in Steps
    BY <1>1, <1>3, <2>1, Constants DEF MayGo, Fits, Receipting, Early, Begun, Receipted, Replies, Steps
  <2>. QED  BY <1>1, <2>1, <2>2, GotoKeeps
<1>. QED  BY <1>2, <1>3 DEF CheckIndex

LEMMA BeginKeeps ==
  ASSUME IInv, Begin
  PROVE  IInv'
<1>1. /\ call # None /\ call.pc = "head" /\ UNCHANGED <<trees, commits>>
      /\ ~call.made /\ call.reply = None
  BY DEF Begin, At, IInv, Progress, Fits, Early
<1>2. CASE Reply("refused")
  BY <1>1, <1>2, AnswerKeeps DEF Replies
<1>3. CASE call' = [call EXCEPT !.before = commits, !.pc = "sources"]
  <2>1. commits \in Nat
    BY Constants DEF IInv, TypeOK
  <2>2. TypeOK'
    <3>1. call' \in CallType
      BY <1>1, <1>3, <2>1 DEF IInv, TypeOK, CallType, Steps
    <3>. QED  BY <1>1, <3>1 DEF IInv, TypeOK, TreesOK, trees
  <2>3. /\ call'.kind = call.kind /\ call'.pc = "sources" /\ call'.reply = call.reply /\ call'.made = call.made
        /\ call'.before = commits /\ call'.outcome = call.outcome
        /\ call'.alone = call.alone /\ call'.left = call.left /\ call'.committed = call.committed
    BY <1>1, <1>3 DEF IInv, TypeOK, CallType
  <2>4. Truth'
    <3>1. commits' = commits /\ call'.before <= commits'
      BY <1>1, <2>1, <2>3
    <3>. QED  BY <1>1, <2>3, <3>1 DEF IInv, Truth
  <2>5. Progress' /\ Bounds'
    BY <1>1, <2>3, Constants DEF IInv, Progress, Fits, Bounds, Early, Receipting, Receipted, Replies
  <2>6. Staged' = Staged
    BY <1>1 DEF Staged, trees
  <2>7. Alone'
    BY <1>1, <2>3, <2>6 DEF IInv, Alone
  <2>. QED  BY <2>2, <2>4, <2>5, <2>7 DEF IInv
<1>. QED  BY <1>2, <1>3 DEF Begin

-----------------------------------------------------------------------------
(* Staging. *)

(* A path that the index lost is a staged change: with a clean index there is no rename to leave out. *)
LEMMA CleanHasNoRenames == Staged = {} => RenameSources = {}
BY DEF Staged, RenameSources

LEMMA ReadSourcesKeeps ==
  ASSUME IInv, ReadSources
  PROVE  IInv'
<1>1. /\ call # None /\ call.pc = "sources" /\ UNCHANGED <<trees, commits>>
      /\ ~call.made /\ call.reply = None
  BY DEF ReadSources, At, IInv, Progress, Fits, Early
<1>2. CASE Fail("failed")
  BY <1>1, <1>2, AnswerKeeps DEF Replies, Begun
<1>3. CASE ~Fail("failed")
  <2>. DEFINE left == {q \in call.planned \cap RenameSources : work[q] # None}
  <2>1. PICK l \in {"verify", "add"} :
          call' = [call EXCEPT !.sources = RenameSources, !.left = left, !.pc = l]
    BY <1>3 DEF ReadSources
  <2>2. RenameSources \subseteq Paths /\ left \subseteq Paths /\ (Staged = {} => left = {})
    BY CleanHasNoRenames DEF RenameSources
  <2>. HIDE DEF left
  <2>3. TypeOK'
    <3>1. call' \in CallType
      BY <1>1, <2>1, <2>2 DEF IInv, TypeOK, CallType, Steps
    <3>. QED  BY <1>1, <3>1 DEF IInv, TypeOK, TreesOK, trees
  <2>4. /\ call'.kind = call.kind /\ call'.pc = l /\ call'.reply = call.reply /\ call'.made = call.made
        /\ call'.before = call.before /\ call'.outcome = call.outcome
        /\ call'.alone = call.alone /\ call'.left = left /\ call'.committed = call.committed
    BY <1>1, <2>1 DEF IInv, TypeOK, CallType
  <2>5. Progress' /\ Truth' /\ Bounds'
    BY <1>1, <2>1, <2>4, Constants
    DEF IInv, Progress, Fits, Truth, Bounds, Early, Receipting, Begun, Receipted, Replies
  <2>6. Alone'
    BY <1>1, <2>1, <2>2, <2>4 DEF IInv, Alone
  <2>. QED  BY <2>3, <2>5, <2>6 DEF IInv
<1>. QED  BY <1>2, <1>3

LEMMA AddKeeps ==
  ASSUME IInv, Add
  PROVE  IInv'
<1>1. /\ call # None /\ call.pc = "add" /\ UNCHANGED <<head, work, commits>>
      /\ ~call.made /\ call.reply = None
  BY DEF Add, At, IInv, Progress, Fits, Early
<1>2. index' = Added \/ index' = index
  BY DEF Add
<1>3. TreesOK'
  BY <1>1, <1>2 DEF IInv, TypeOK, TreesOK, Added
<1>4. CASE call' = [call EXCEPT !.moved = {q \in Stageable : work[q] # call.seen[q]},
                               !.seen = None, !.pc = "verify"]
  <2>1. PICK moved \in SUBSET Paths : call' = [call EXCEPT !.moved = moved, !.seen = None, !.pc = "verify"]
    <3>1. call.planned \subseteq Paths
      BY <1>1 DEF IInv, TypeOK, CallType
    <3>. QED  BY <1>4, <3>1 DEF Stageable
  <2>2. TypeOK'
    <3>1. call' \in CallType
      BY <1>1, <2>1 DEF IInv, TypeOK, CallType, Steps
    <3>. QED  BY <1>1, <1>3, <3>1 DEF IInv, TypeOK
  <2>3. /\ call'.kind = call.kind /\ call'.pc = "verify" /\ call'.reply = call.reply /\ call'.made = call.made
        /\ call'.before = call.before /\ call'.outcome = call.outcome
        /\ call'.alone = call.alone /\ call'.left = call.left /\ call'.committed = call.committed
    BY <1>1, <2>1 DEF IInv, TypeOK, CallType
  <2>4. Progress' /\ Truth' /\ Bounds' /\ Alone'
    BY <1>1, <2>3, Constants
    DEF IInv, Progress, Fits, Truth, Bounds, Alone, Early, Receipting, Begun, Receipted, Replies
  <2>. QED  BY <2>2, <2>4 DEF IInv
<1>5. CASE Fail("failed")
  <2>1. PICK l \in {"settle", "done"} :
          call' = [call EXCEPT !.pc = l, !.reply = "failed"] /\ (l = "settle" => Receipted)
    BY <1>5 DEF Fail
  <2>2. TypeOK'
    <3>1. call' \in CallType
      BY <1>1, <2>1 DEF IInv, TypeOK, CallType, Steps, Replies
    <3>. QED  BY <1>1, <1>3, <3>1 DEF IInv, TypeOK
  <2>3. /\ call'.kind = call.kind /\ call'.pc = l /\ call'.reply = "failed" /\ call'.made = call.made
        /\ call'.before = call.before /\ call'.outcome = call.outcome
        /\ call'.alone = call.alone /\ call'.left = call.left /\ call'.committed = call.committed
    BY <1>1, <2>1 DEF IInv, TypeOK, CallType
  <2>4. Progress' /\ Truth' /\ Bounds' /\ Alone'
    BY <1>1, <2>1, <2>3, Constants
    DEF IInv, Progress, Fits, Truth, Bounds, Alone, Early, Receipting, Begun, Receipted, Replies
  <2>. QED  BY <2>2, <2>4 DEF IInv
<1>. QED  BY <1>4, <1>5 DEF Add

(* What is verified is what is staged, until somebody else runs Git. *)
LEMMA VerificationsKeep ==
  ASSUME IInv, Verify \/ VerifyDirty
  PROVE  IInv'
<1>1. /\ call # None /\ call.pc \in {"verify", "dirty"} /\ UNCHANGED <<trees, commits>>
      /\ ~call.made /\ call.reply = None
  BY DEF Verify, VerifyDirty, At, IInv, Progress, Fits, Early
<1>2. CASE Fail("after staging") \/ Fail("failed")
  BY <1>1, <1>2, AnswerKeeps DEF Replies, Begun
<1>3. CASE Verify /\ call.kind = "stage" /\ Reply("ok")
  BY <1>1, <1>3, AnswerKeeps DEF Replies, Receipted
<1>4. CASE \/ Verify /\ Staged = call.planned /\ call.kind = "exact" /\ Goto("dirty")
           \/ Verify /\ Staged = call.planned /\ call.kind \notin {"exact", "stage"} /\ Goto("commit")
           \/ VerifyDirty /\ Goto("commit")
  <2>1. PICK l \in {"dirty", "commit"} :
          /\ Goto(l) /\ (l = "dirty" => call.kind = "exact") /\ call.kind # "stage"
          /\ call.alone => Staged = call.planned
    BY <1>1, <1>4 DEF VerifyDirty, At, IInv, Alone, Progress, Fits
  <2>2. MayGo(l, call.reply) /\ l \in Steps
    BY <1>1, <2>1, Constants DEF MayGo, Fits, Receipting, Early, Begun, Receipted, Replies, Steps
  <2>. QED  BY <1>1, <2>1, <2>2, GotoKeeps
<1>. QED  BY <1>2, <1>3, <1>4 DEF Verify, VerifyDirty

-----------------------------------------------------------------------------
(* Committing. *)

(* A commit of the call's own, whether or not the answer to it comes in time. *)
Notes(l, r) == call' = [call EXCEPT !.made = TRUE, !.committed = Staged, !.pc = l, !.reply = r]

LEMMA CommitKeeps ==
  ASSUME IInv, call # None, call.pc = "commit", Commit, UNCHANGED <<index, work>>,
         NEW l \in {"identity", "clean", "settle"}, NEW r \in Replies \cup {None}, Fits(call.kind, l, TRUE, r),
         Notes(l, r)
  PROVE  IInv'
<1>. USE DEF IInv
<1>1. ~call.made /\ call.kind # "stage" /\ head' = index /\ Staged \subseteq Paths
  BY DEF Progress, Fits, Early, Receipting, Commit, CommitIndex, Staged
<1>2. commits \in Nat /\ commits <= MaxCommits /\ commits' = commits + 1
  BY <1>1, Constants DEF TypeOK, Bounds, Commit
<1>3. call.before \in Nat /\ call.before <= commits
  BY <1>1 DEF TypeOK, CallType, Truth, Receipted, Begun
<1>4. TypeOK'
  <2>1. call' \in CallType
    BY <1>1 DEF Notes, TypeOK, CallType, Steps, Replies
  <2>2. TreesOK'
    BY <1>1 DEF TypeOK, TreesOK
  <2>. QED  BY <1>2, <2>1, <2>2, Constants DEF TypeOK
<1>5. /\ call'.kind = call.kind /\ call'.pc = l /\ call'.reply = r /\ call'.made
      /\ call'.planned = call.planned /\ call'.before = call.before /\ call'.outcome = call.outcome
      /\ call'.alone = call.alone /\ call'.left = call.left /\ call'.committed = Staged
  BY DEF Notes, TypeOK, CallType
<1>6. Progress'
  BY <1>5 DEF Progress, Fits
<1>7. Truth'
  <2>1. call'.before < commits' /\ call'.before <= commits'
    BY <1>2, <1>3, <1>5
  <2>2. call'.outcome = None
    BY <1>5 DEF Truth
  <2>. QED  BY <1>5, <2>1, <2>2, Constants DEF Truth, Outcomes
<1>8. Bounds'
  BY <1>2, <1>5, Constants DEF Bounds
<1>9. Alone'
  BY <1>1, <1>5 DEF Alone
<1>. QED  BY <1>4, <1>6, <1>7, <1>8, <1>9

LEMMA CommitStagedKeeps ==
  ASSUME IInv, CommitStaged
  PROVE  IInv'
<1>1. /\ call # None /\ call.pc = "commit" /\ UNCHANGED <<index, work>>
      /\ ~call.made /\ call.reply = None
  BY DEF CommitStaged, At, IInv, Progress, Fits, Early
<1>2. CASE UNCHANGED <<head, commits>> /\ Fail("commit failed")
  BY <1>1, <1>2, AnswerKeeps DEF Replies, Begun, trees
<1>3. CASE Commit /\ \E l \in {"identity", "clean"} :
                       call' = [call EXCEPT !.made = TRUE, !.committed = Staged, !.pc = l]
  <2>1. PICK l \in {"identity", "clean"} :
          call' = [call EXCEPT !.made = TRUE, !.committed = Staged, !.pc = l]
    BY <1>3
  <2>2. Notes(l, None)
    BY <1>1, <2>1 DEF Notes, IInv, TypeOK, CallType
  <2>3. call.kind # "stage"
    BY <1>1 DEF IInv, Progress, Fits, Receipting
  <2>4. Fits(call.kind, l, TRUE, None)
    BY <2>3, Constants DEF Fits, Receipting, Early, Replies
  <2>. QED  BY <1>1, <1>3, <2>2, <2>4, CommitKeeps
<1>4. CASE Commit /\ call' = [call EXCEPT !.made = TRUE, !.committed = Staged, !.pc = "settle",
                                          !.reply = "commit failed"]
  <2>1. call.kind # "stage"
    BY <1>1 DEF IInv, Progress, Fits, Receipting
  <2>2. Fits(call.kind, "settle", TRUE, "commit failed") /\ "commit failed" \in Replies \cup {None}
    BY <2>1 DEF Fits, Receipting, Early, Replies
  <2>. QED  BY <1>1, <1>4, <2>2, CommitKeeps DEF Notes
<1>. QED  BY <1>2, <1>3, <1>4 DEF CommitStaged

LEMMA ChecksAfterCommitKeep ==
  ASSUME IInv, CheckClean \/ ReadIdentity
  PROVE  IInv'
<1>1. /\ call # None /\ call.pc \in {"clean", "identity"} /\ UNCHANGED <<trees, commits>>
      /\ call.made /\ call.reply = None /\ Receipted
  BY DEF CheckClean, ReadIdentity, At, IInv, Progress, Fits, Receipting, Receipted
<1>2. CASE Fail("after commit") \/ Fail("failed")
  BY <1>1, <1>2, AnswerKeeps DEF Replies, Begun
<1>3. CASE Goto("identity")
  <2>1. MayGo("identity", call.reply) /\ "identity" \in Steps
    BY <1>1, Constants DEF MayGo, Fits, Receipting, Early, Begun, Receipted, Replies, Steps
  <2>. QED  BY <1>1, <1>3, <2>1, GotoKeeps
<1>4. CASE call' = [call EXCEPT !.pc = "settle", !.reply = "ok"]
  <2>1. MayGo("settle", "ok") /\ "settle" \in Steps /\ "ok" \in Replies \cup {None}
    BY <1>1 DEF MayGo, Fits, Receipting, Early, Begun, Receipted, Replies, Steps
  <2>. QED  BY <1>1, <1>4, <2>1, GoingKeeps
<1>. QED  BY <1>2, <1>3, <1>4 DEF CheckClean, ReadIdentity

(* A HEAD that is the one of the begin record was not moved by this call. *)
LEMMA OutcomeIsTrue ==
  ASSUME IInv, call # None, call.pc = "settle", NEW after \in {commits, None}
  PROVE  /\ Outcome(after) \in Outcomes
         /\ Outcome(after) = "applied" => call.made
         /\ Outcome(after) = "refused" => ~call.made
<1>1. call.kind # "stage" /\ (call.reply = "ok" => call.made)
  BY DEF IInv, Progress, Fits, Receipting
<1>2. call.before \in Nat /\ commits \in Nat /\ (call.made => call.before < commits)
  BY <1>1, Constants DEF IInv, TypeOK, CallType, Truth, Receipted, Begun
<1>3. call.made => after # call.before
  BY <1>2, Constants
<1>. QED  BY <1>1, <1>3 DEF Outcome, Outcomes

LEMMA SettleKeeps ==
  ASSUME IInv, Settle
  PROVE  IInv'
<1>. USE DEF IInv
<1>1. call # None /\ call.pc = "settle" /\ UNCHANGED <<trees, commits>>
  BY DEF Settle, At
<1>2. PICK after \in {commits, None}, r \in {call.reply, "failed"} :
        call' = [call EXCEPT !.pc = "done", !.outcome = Outcome(after), !.reply = r]
  <2>1. CASE call' = [call EXCEPT !.pc = "done", !.outcome = Outcome(commits)]
    <3>1. call' = [call EXCEPT !.pc = "done", !.outcome = Outcome(commits), !.reply = call.reply]
      BY <1>1, <2>1 DEF TypeOK, CallType
    <3>. QED  BY <3>1
  <2>2. CASE call' = [call EXCEPT !.pc = "done", !.outcome = Outcome(None),
                                  !.reply = IF call.reply = "ok" THEN "failed" ELSE @]
    BY <1>1, <2>2 DEF TypeOK, CallType
  <2>. QED  BY <2>1, <2>2 DEF Settle
<1>3. /\ Outcome(after) \in Outcomes
      /\ Outcome(after) = "applied" => call.made
      /\ Outcome(after) = "refused" => ~call.made
  BY <1>1, OutcomeIsTrue
<1>4. TypeOK'
  <2>1. call' \in CallType
    BY <1>1, <1>2, <1>3 DEF TypeOK, CallType, Steps, Replies
  <2>. QED  BY <1>1, <2>1 DEF TypeOK, TreesOK, trees
<1>5. /\ call'.kind = call.kind /\ call'.pc = "done" /\ call'.reply = r /\ call'.made = call.made
      /\ call'.planned = call.planned /\ call'.outcome = Outcome(after)
      /\ call'.alone = call.alone /\ call'.left = call.left /\ call'.committed = call.committed
  BY <1>1, <1>2 DEF TypeOK, CallType
<1>6. Progress' /\ Truth'
  BY <1>1, <1>3, <1>5 DEF Progress, Fits, Truth, Receipted, Receipting, Early, Begun
<1>7. Alone' /\ Bounds'
  BY <1>1, <1>5 DEF Alone, Bounds
<1>. QED  BY <1>4, <1>6, <1>7

-----------------------------------------------------------------------------
(* The end of a call, and everybody else. *)
LEMMA EndsKeep ==
  ASSUME IInv, Return \/ Kill
  PROVE  IInv'
BY DEF Return, Kill, IInv, TypeOK, TreesOK, trees, Progress, Truth, Alone, Bounds

LEMMA EditKeeps ==
  ASSUME IInv, Edit
  PROVE  IInv'
<1>1. UNCHANGED <<head, index, commits, call>> /\ TreesOK'
  BY DEF Edit, EditAnywhere, IInv, TypeOK, TreesOK
<1>2. Staged' = Staged
  BY <1>1 DEF Staged
<1>. QED  BY <1>1, <1>2 DEF IInv, TypeOK, Progress, Truth, Receipted, Alone, Bounds

LEMMA OthersGitKeeps ==
  ASSUME IInv, OtherIndex \/ OtherCommit
  PROVE  IInv'
<1>. USE DEF IInv
<1>1. Meddled /\ TreesOK'
  BY DEF OtherIndex, OtherCommit, Commit, CommitIndex, ChangeIndex, TypeOK, TreesOK, File
<1>2. /\ commits \in Nat /\ commits' \in Nat /\ commits <= commits' /\ commits' <= MaxCommits + 1
      /\ commits <= MaxCommits => commits' <= MaxCommits
  BY Constants DEF OtherIndex, OtherCommit, Commit, TypeOK, Bounds
<1>3. CASE call = None
  BY <1>1, <1>2, <1>3, Constants DEF Meddled, TypeOK, Progress, Truth, Alone, Bounds
<1>4. CASE call # None
  <2>1. call' = [call EXCEPT !.alone = FALSE] /\ call' \in CallType
    BY <1>1, <1>4 DEF Meddled, TypeOK, CallType
  <2>2. /\ call'.kind = call.kind /\ call'.pc = call.pc /\ call'.reply = call.reply /\ call'.made = call.made
        /\ call'.before = call.before /\ call'.outcome = call.outcome /\ ~call'.alone /\ call.before \in Nat
    BY <1>4, <2>1 DEF TypeOK, CallType
  <2>3. TypeOK' /\ Progress' /\ Alone'
    BY <1>1, <1>2, <1>4, <2>1, <2>2, Constants DEF TypeOK, Progress, Alone
  <2>4. Truth' /\ Bounds'
    BY <1>2, <1>4, <2>2 DEF Truth, Receipted, Bounds
  <2>. QED  BY <2>3, <2>4
<1>. QED  BY <1>3, <1>4

LEMMA NextKeeps == IInv /\ [Next]_vars => IInv'
<1>. SUFFICES ASSUME IInv, [Next]_vars PROVE IInv'
  OBVIOUS
<1>1. CASE UNCHANGED vars
  <2>1. Staged' = Staged
    BY <1>1 DEF vars, Staged
  <2>. QED  BY <1>1, <2>1 DEF vars, IInv, TypeOK, TreesOK, Progress, Truth, Receipted, Alone, Bounds
<1>. QED  BY <1>1, StartKeeps, PlanKeeps, CheckIndexKeeps, BeginKeeps, ReadSourcesKeeps, AddKeeps,
             VerificationsKeep, CommitStagedKeeps, ChecksAfterCommitKeep, SettleKeeps, EndsKeep, EditKeeps,
             OthersGitKeeps DEF Next

THEOREM Invariance == Spec => []IInv
BY InitIInv, NextKeeps, PTL DEF Spec

(***************************************************************************)
(* As long as nobody else runs Git during the call, what it commits is     *)
(* what it planned, no unrelated staged work and nothing less, and a       *)
(* partial commit leaves no planned rename source out, although editors    *)
(* write all the time.                                                     *)
(***************************************************************************)
THEOREM CommitsThePlan == Spec => []CommitsHoldThePlan
<1>1. IInv => CommitsHoldThePlan
  BY DEF IInv, Alone, CommitsHoldThePlan, OnlyPlannedPaths, PartialCommitsAreWhole, HasCommitted
<1>. QED  BY <1>1, Invariance, PTL

(***************************************************************************)
(* The receipt and the reply of a call tell the truth about its own        *)
(* commit, although Git commands fail, or time out after they took effect, *)
(* and others commit meanwhile.                                            *)
(***************************************************************************)
THEOREM Honesty == Spec => []HonestReceipt
<1>1. IInv => HonestReceipt
  BY DEF IInv, Progress, Fits, Truth, HonestReceipt, At, Receipted
<1>. QED  BY <1>1, Invariance, PTL
=============================================================================
