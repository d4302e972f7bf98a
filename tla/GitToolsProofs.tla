---------------------------- MODULE GitToolsProofs ----------------------------
(***************************************************************************)
(* What four of the parts around a Git repository promise, for any         *)
(* branches and pushes of others, any answer of Git, any spelling of a     *)
(* path, any trials and rewards.  The parts share no variable              *)
(* (EachPartAlone), so each has an inductive invariant of its own:         *)
(*   SyncInv      what a call that synchronises has established of HEAD,   *)
(*                the branches and the worktree by each of its steps;      *)
(*   OutputInv    that what a parser made of an answer is fair;            *)
(*   SpellingInv  that an answer is the one the rule gives;                *)
(*   HarborInv    that each reward a profile has gathered agrees with what *)
(*                the run it came from showed, in the order of the runs,   *)
(*                and that the commands went as what is noted says.        *)
(* The rules of paths, the parsers and the readings of rewards are         *)
(* computed over sequences.  What is shown of them by induction is shown   *)
(* by Induction and SeqInduction, in which the property is a set of        *)
(* numbers or of sequences; the folds by FoldExists and FoldSteps, from    *)
(* which each fold has a lemma ...Grows: what one more element does.       *)
(***************************************************************************)
EXTENDS MCGitTools, SequenceTheorems, FiniteSetTheorems, WellFoundedInduction, TLAPS

(* Each part is alone: what a step does to the variables of a part is a step of that part. *)
LEMMA EachPartAlone ==
  ASSUME [MCNext]_everything
  PROVE  /\ part' = part
         /\ part = "sync" => Sync!Next \/ UNCHANGED syncs
         /\ part = "output" => Output!Next \/ UNCHANGED outputs
         /\ part = "spelling" => Spelling!Next \/ UNCHANGED spellings
         /\ part = "read" => Reading!Next \/ UNCHANGED reads
         /\ part = "list" => Listing!Next \/ UNCHANGED listings
         /\ part = "harbor" => Harbor!Next \/ UNCHANGED harbors
         /\ part = "report" => Report!Next \/ UNCHANGED reports
         /\ part = "text" => Text!Next \/ UNCHANGED texts
<1>1. CASE MCNext
  BY <1>1 DEF MCNext
<1>2. CASE UNCHANGED everything
  <2>1. UNCHANGED <<part, syncs, outputs, spellings, reads, listings, harbors, reports, texts>>
    BY <1>2 DEF everything
  <2> QED
    BY <2>1
<1> QED
  BY <1>1, <1>2

-----------------------------------------------------------------------------
(* Which call is at which step. *)
InCall ==
  /\ next = "idle" => task = None /\ noted = None
  /\ next # "idle" => task \in Sync!SyncRequests /\ noted \in Sync!Reads
  /\ next \in {"head", "push"} => task.op = "push"
  /\ next \in {"plan", "force", "move", "verify"} => task.op = "prepare"
  /\ next \in {"base", "target", "compare"} => task.op = "readiness"
  /\ next = "done" => task.op = "check"

(* A call that insists on a clean worktree saw one. *)
SawClean ==
  /\ next \in {"head", "fetch", "same"} /\ Sync!Op \in {"push", "prepare"} => noted.dirty = FALSE
  /\ next \in {"plan", "force", "move"} => edit # "known"

(* What is to be pushed is what the client expects. *)
ToBePushed ==
  next \in {"fetch", "same", "push"} /\ Sync!Op = "push" => current = task.branch /\ Sync!HEAD = task.expected

(* What a preparation rests on. *)
Based ==
  /\ next \in {"same", "plan", "force", "move", "verify"} /\ Sync!Op = "prepare" => Sync!Exists(tracking[task.base])
  /\ next \in {"force", "move", "verify"} => noted.base = tracking[task.base]
  /\ next = "force" => noted.action = "reset"
  /\ next \in {"force", "move"} => noted.action \in {"create", "reset", "switch"}
  /\ next \in {"force", "move"} /\ noted.action = "reset" => task.reset
  /\ next = "move" /\ noted.action = "reset" /\ current # task.branch => local[task.branch] = tracking[task.base]
  /\ next = "move" /\ noted.action = "create" => ~Sync!Exists(local[task.branch])
  /\ next = "move" /\ noted.action = "switch" => Sync!Exists(local[task.branch])
  /\ next \in {"force", "move"} /\ task.required => Sync!HasRequiredFile(Sync!Target(noted.action))
  /\ next = "verify" /\ task.required => Sync!HasRequiredFile(local[task.branch])

(* The commits that a readiness report compares. *)
Resolved ==
  /\ next \in {"target", "compare"} => noted.base \in Sync!Commits
  /\ next = "compare" => noted.target \in Sync!Commits

SyncInv == Sync!TypeOK /\ InCall /\ SawClean /\ ToBePushed /\ Based /\ Resolved /\ Sync!HonestReports

-----------------------------------------------------------------------------
(* A commit is a sequence. *)
LEMMA CommitIsSeq ==
  ASSUME MaxLen \in Nat, NEW y
  PROVE  y \in Sync!Commits <=> y \in Seq({"ours", "theirs"}) /\ Len(y) <= MaxLen
<1>1. ASSUME y \in Sync!Commits PROVE y \in Seq({"ours", "theirs"}) /\ Len(y) <= MaxLen
  <2>1. PICK n \in 0..MaxLen : y \in [1..n -> {"ours", "theirs"}]
    BY <1>1 DEF Sync!Commits
  <2> QED
    BY <2>1, IsASeq
<1>2. ASSUME y \in Seq({"ours", "theirs"}), Len(y) <= MaxLen PROVE y \in Sync!Commits
  <2>1. Len(y) \in 0..MaxLen /\ y \in [1..Len(y) -> {"ours", "theirs"}]
    BY <1>2, LenProperties
  <2> QED
    BY <2>1 DEF Sync!Commits
<1> QED
  BY <1>1, <1>2

(* One more change. *)
LEMMA AppendToCommit ==
  ASSUME MaxLen \in Nat, NEW y \in Sync!Commits, NEW w \in {"ours", "theirs"}
  PROVE  /\ Len(y) < MaxLen => Append(y, w) \in Sync!Commits
         /\ Sync!IsPrefix(y, Append(y, w))
<1>1. y \in Seq({"ours", "theirs"}) /\ Len(y) \in Nat
  BY CommitIsSeq, LenProperties
<1>2. /\ Append(y, w) \in Seq({"ours", "theirs"}) /\ Len(Append(y, w)) = Len(y) + 1
      /\ \A k \in 1..Len(y) : Append(y, w)[k] = y[k]
  BY <1>1, AppendProperties
<1>3. Len(y) < MaxLen => Append(y, w) \in Sync!Commits
  <2> DEFINE z == Append(y, w)
  <2>1. z \in Seq({"ours", "theirs"}) /\ Len(z) = Len(y) + 1
    BY <1>2
  <2> HIDE DEF z
  <2>2. Len(y) < MaxLen => Len(z) <= MaxLen
    BY <1>1, <2>1
  <2>3. Len(y) < MaxLen => z \in Sync!Commits
    BY <2>1, <2>2, CommitIsSeq
  <2> QED
    BY <2>3 DEF z
<1>4. SubSeq(y, 1, Len(y)) = y
  BY <1>1, SubSeqFull
<1>5. SubSeq(Append(y, w), 1, Len(y)) = y
  <2>1. \A k \in 1..Len(y) : Append(y, w)[k] \in {"ours", "theirs"}
    BY <1>1, <1>2, ElementOfSeq
  <2>2. /\ SubSeq(Append(y, w), 1, Len(y)) \in Seq({"ours", "theirs"})
        /\ Len(SubSeq(Append(y, w), 1, Len(y))) = Len(y)
        /\ \A k \in 1..Len(y) : SubSeq(Append(y, w), 1, Len(y))[k] = Append(y, w)[k]
    <3>1. 1 \in Int /\ Len(y) \in Int /\ Len(y) - 1 + 1 = Len(y)
          /\ (IF 1 <= Len(y) THEN Len(y) - 1 + 1 ELSE 0) = Len(y)
      BY <1>1
    <3>2. \A k \in 1..Len(y) : 1 + k - 1 = k
      BY <1>1
    <3> QED
      BY <3>1, <3>2, <2>1, SubSeqProperties
  <2> QED
    BY <1>1, <1>2, <2>2, SeqEqual
<1>6. Sync!IsPrefix(y, Append(y, w))
  <2> DEFINE z == Append(y, w)
  <2>1. Len(y) <= Len(z) /\ SubSeq(z, 1, Len(y)) = SubSeq(y, 1, Len(y))
    BY <1>1, <1>2, <1>4, <1>5
  <2> HIDE DEF z
  <2>2. Sync!IsPrefix(y, z)
    BY <2>1 DEF Sync!IsPrefix
  <2> QED
    BY <2>2 DEF z
<1> QED
  BY <1>3, <1>6

(* Every commit descends from itself. *)
LEMMA Reflexive ==
  ASSUME MaxLen \in Nat, NEW y \in Sync!Commits
  PROVE  Sync!IsPrefix(y, y)
<1>1. Len(y) \in Nat
  BY CommitIsSeq, LenProperties
<1> QED
  BY <1>1 DEF Sync!IsPrefix

(* A commit has nothing that another has not exactly when it is its ancestor. *)
LEMMA NothingAhead ==
  ASSUME MaxLen \in Nat, NEW a \in Sync!Commits, NEW b \in Sync!Commits
  PROVE  (Sync!Ahead(a, b) = 0) <=> Sync!IsPrefix(a, b)
<1> DEFINE Own == {n \in DOMAIN a : ~Sync!IsPrefix(SubSeq(a, 1, n), b)}
<1>1. /\ a \in Seq({"ours", "theirs"}) /\ Len(a) \in Nat /\ DOMAIN a = 1..Len(a)
      /\ b \in Seq({"ours", "theirs"}) /\ Len(b) \in Nat /\ DOMAIN b = 1..Len(b)
  BY CommitIsSeq, LenProperties
<1>2. IsFiniteSet(Own)
  <2>1. IsFiniteSet(1..Len(a))
    BY <1>1, FS_Interval
  <2> QED
    BY <1>1, <2>1, FS_Subset
<1>3. Sync!Ahead(a, b) = 0 <=> Own = {}
  <2>1. Sync!Ahead(a, b) = Cardinality(Own)
    BY Zenon DEF Sync!Ahead, Sync!Cardinality, Cardinality, Sync!IsFiniteSet, IsFiniteSet
  <2> QED
    BY <1>2, <2>1, FS_EmptySet
<1>4. SubSeq(a, 1, Len(a)) = a
  BY <1>1, SubSeqFull
<1>5. ASSUME Own = {} PROVE Sync!IsPrefix(a, b)
  <2>1. CASE Len(a) = 0
    <3>1. SubSeq(b, 1, Len(a)) = <<>> /\ SubSeq(a, 1, Len(a)) = <<>>
      BY <2>1, SubSeqEmpty
    <3> QED
      BY <2>1, <3>1, <1>1 DEF Sync!IsPrefix
  <2>2. CASE Len(a) # 0
    <3>1. Len(a) \in DOMAIN a
      BY <1>1, <2>2
    <3> QED
      BY <3>1, <1>4, <1>5
  <2> QED
    BY <2>1, <2>2
<1>6. ASSUME Sync!IsPrefix(a, b), NEW n \in DOMAIN a PROVE Sync!IsPrefix(SubSeq(a, 1, n), b)
  <2>1. n \in 1..Len(a) /\ Len(a) <= Len(b) /\ SubSeq(b, 1, Len(a)) = a
    BY <1>1, <1>4, <1>6 DEF Sync!IsPrefix
  <2> DEFINE s == SubSeq(a, 1, n)
             t == SubSeq(b, 1, n)
  <2>2. /\ s \in Seq({"ours", "theirs"}) /\ Len(s) = n /\ \A k \in 1..n : s[k] = a[k]
        /\ t \in Seq({"ours", "theirs"}) /\ Len(t) = n /\ \A k \in 1..n : t[k] = b[k]
    <3>1. \A k \in 1..n : a[k] \in {"ours", "theirs"} /\ b[k] \in {"ours", "theirs"}
      BY <1>1, <2>1, ElementOfSeq
    <3>2. 1 \in Int /\ n \in Int /\ n - 1 + 1 = n /\ 1 <= n /\ \A k \in 1..n : 1 + k - 1 = k
      BY <1>1, <2>1
    <3> HIDE DEF s, t
    <3>3. s = SubSeq(a, 1, n) /\ t = SubSeq(b, 1, n)
      BY DEF s, t
    <3> QED
      BY <3>1, <3>2, <3>3, SubSeqProperties
  <2>3. \A k \in 1..n : a[k] = b[k]
    <3>1. \A k \in 1..Len(a) : b[k] \in {"ours", "theirs"} /\ 1 + k - 1 = k
      BY <1>1, <2>1, ElementOfSeq
    <3>2. \A k \in 1..Len(a) : SubSeq(b, 1, Len(a))[k] = b[k]
      <4>1. 1 \in Int /\ Len(a) \in Int /\ Len(a) - 1 + 1 = Len(a)
        BY <1>1
      <4> QED
        BY <4>1, <3>1, SubSeqProperties
    <3> QED
      BY <3>2, <2>1, <1>1
  <2>4. s = t
    BY <2>2, <2>3, <2>1, SeqEqual
  <2>5. SubSeq(s, 1, n) = s
    BY <2>2, SubSeqFull
  <2>6. Len(s) <= Len(b)
    BY <2>1, <2>2, <1>1
  <2> HIDE DEF s
  <2>7. Sync!IsPrefix(s, b)
    BY <2>2, <2>4, <2>5, <2>6 DEF Sync!IsPrefix, t
  <2> QED
    BY <2>7 DEF s
<1> QED
  BY <1>3, <1>5, <1>6

-----------------------------------------------------------------------------
LEMMA InitHolds ==
  ASSUME Sync!ConstantsAreSane, Sync!Init
  PROVE  SyncInv
BY
DEF Sync!ConstantsAreSane, Sync!Init, SyncInv, Sync!TypeOK, InCall, SawClean, ToBePushed, Based, Resolved,
    Sync!HonestReports,
       Sync!Exists, Sync!Op, Sync!HEAD

(* The types of what a call shares with others. *)
Shared ==
  /\ remote \in [Branches -> Sync!Commits \cup {None}] /\ tracking \in [Branches -> Sync!Commits \cup {None}]
  /\ local \in [Branches -> Sync!Commits \cup {None}]
  /\ current \in Branches /\ Sync!Exists(local[current])
  /\ edit \in {"none", "fresh", "known"} /\ moves \in 0..MaxMoves

(* What the invariant says of a request. *)
LEMMA Request ==
  ASSUME NEW r \in Sync!SyncRequests
  PROVE  /\ r.op \in {"push", "prepare", "readiness", "check"} /\ r.branch \in Branches
         /\ r.op = "push" => r.expected \in Sync!Commits
         /\ r.op = "prepare" => r.base \in Branches /\ r.reset \in BOOLEAN /\ r.required \in BOOLEAN
         /\ r.op = "readiness" => r.base \in Branches /\ r.fetch \in BOOLEAN
BY DEF Sync!SyncRequests

(* A call that ends leaves nothing to know but its report. *)
LEMMA Leaving ==
  ASSUME Sync!Finish(told'), Shared', Sync!HonestReports'
  PROVE  SyncInv'
BY
DEF Sync!Finish, Shared, SyncInv, Sync!TypeOK, InCall, SawClean, ToBePushed, Based, Resolved, Sync!Exists,
    Sync!HEAD, Sync!Op

LEMMA Refusing ==
  ASSUME Sync!Refuse, Shared'
  PROVE  SyncInv'
<1>1. told' = [op |-> "refused"] /\ Sync!Finish(told')
  BY DEF Sync!Refuse, Sync!Finish
<1>2. Sync!HonestReports'
  BY <1>1 DEF Sync!HonestReports
<1> QED
  BY <1>1, <1>2, Leaving

LEMMA SharedHolds ==
  ASSUME SyncInv
  PROVE  Shared
BY DEF SyncInv, Sync!TypeOK, Shared, Sync!HEAD

(* Nothing a call knows is disturbed by a push of others: it is in the remote alone. *)
LEMMA PushedKeeps ==
  ASSUME Sync!ConstantsAreSane, SyncInv, NEW b \in Branches, Sync!Pushed(b)
  PROVE  SyncInv'
<1>1. Shared
  BY SharedHolds
<1>2. /\ remote' \in [Branches -> Sync!Commits \cup {None}] /\ moves' \in 0..MaxMoves
      /\ UNCHANGED <<tracking, local, current, edit, task, next, noted, told>>
  BY <1>1 DEF Sync!Pushed, Shared, Sync!ConstantsAreSane
<1> QED
  BY <1>2
  DEF SyncInv, Sync!TypeOK, InCall, SawClean, ToBePushed, Based, Resolved, Sync!HonestReports, Sync!HEAD, Sync!Op,
      Sync!Target

(* An editor's change is a fresh one. *)
LEMMA EditedKeeps ==
  ASSUME SyncInv, Sync!Edited, UNCHANGED moves
  PROVE  SyncInv'
BY
DEF Sync!Edited, Sync!refs, SyncInv, Sync!TypeOK, InCall, SawClean, ToBePushed, Based, Resolved,
    Sync!HonestReports, Sync!HEAD, Sync!Op, Sync!Target

(* A user's own Git runs during merge readiness only, which relies on no branch. *)
LEMMA UserGitKeeps ==
  ASSUME Sync!ConstantsAreSane, SyncInv, Sync!UserGit, UNCHANGED moves
  PROVE  SyncInv'
<1>1. Shared
  BY SharedHolds
<1>2. Sync!Op = "readiness" /\ UNCHANGED <<remote, task, next, noted, told, moves>>
  BY DEF Sync!UserGit
<1>3. Shared'
  <2>1. CASE /\ Len(Sync!HEAD) < MaxLen
             /\ local' = [local EXCEPT ![current] = Append(@, "ours")]
             /\ edit' = "none"
             /\ UNCHANGED <<tracking, current>>
    <3>1. local[current] \in Sync!Commits
      BY <1>1 DEF Shared, Sync!Exists
    <3>2. Append(local[current], "ours") \in Sync!Commits
      BY <2>1, <3>1, AppendToCommit DEF Sync!HEAD, Sync!ConstantsAreSane
    <3>3. Append(local[current], "ours") # None
      BY <3>2 DEF Sync!ConstantsAreSane
    <3> QED
      BY <1>1, <1>2, <2>1, <3>2, <3>3 DEF Shared, Sync!Exists
  <2>2. CASE \E b \in Branches : /\ Sync!Exists(local[b]) /\ current' = b /\ b # current
                                 /\ UNCHANGED <<tracking, local, edit>>
    BY <1>1, <1>2, <2>2 DEF Shared, Sync!Exists
  <2>3. CASE \E b \in Branches : /\ tracking # remote /\ tracking' = [tracking EXCEPT ![b] = remote[b]]
                                 /\ UNCHANGED <<local, current, edit>>
    BY <1>1, <1>2, <2>3 DEF Shared, Sync!Exists
  <2> QED
    BY <2>1, <2>2, <2>3 DEF Sync!UserGit
<1>4. next \notin {"head", "push", "plan", "force", "move", "verify"} /\ Sync!Op' = "readiness"
  BY <1>2 DEF SyncInv, InCall, Sync!Op, Sync!ConstantsAreSane
<1> QED
  BY <1>2, <1>3, <1>4
  DEF Shared, SyncInv, Sync!TypeOK, InCall, SawClean, ToBePushed, Based, Resolved, Sync!HonestReports, Sync!HEAD,
      Sync!Op

(* A call arrives. *)
LEMMA StartKeeps ==
  ASSUME Sync!ConstantsAreSane, SyncInv, NEW r \in Sync!SyncRequests, Sync!Start(r)
  PROVE  SyncInv'
<1>1. Sync!Unread \in Sync!Reads /\ r # None
  BY DEF Sync!Unread, Sync!Reads, Sync!ConstantsAreSane
<1> QED
  BY <1>1
  DEF Sync!Start, Sync!Looks, Sync!refs, SyncInv, Sync!TypeOK, InCall, SawClean, ToBePushed, Based, Resolved,
      Sync!HonestReports, Sync!HEAD,
              Sync!Exists, Sync!Op

(* The steps of the calls.  Any of them may refuse, which ends the call. *)
LEMMA CleanKeeps ==
  ASSUME Sync!ConstantsAreSane, SyncInv, Sync!Clean, UNCHANGED moves
  PROVE  SyncInv'
<1>1. Shared /\ Shared'
  BY SharedHolds DEF Sync!Clean, Sync!refs, Shared
<1>2. CASE Sync!Strict /\ edit # "none" /\ Sync!Refuse
  BY <1>1, <1>2, Refusing
<1>3. CASE /\ ~(Sync!Strict /\ edit # "none")
           /\ noted' = [noted EXCEPT !.dirty = (edit # "none")]
           /\ Sync!Goto("clean", IF Sync!Op = "push" THEN "head"
                            ELSE IF Sync!Op = "readiness" /\ ~task.fetch THEN "base" ELSE "fetch")
           /\ UNCHANGED told
  <2>1. /\ task \in Sync!SyncRequests /\ task # None /\ Sync!Op = task.op /\ Sync!Op' = Sync!Op /\ task' = task
        /\ UNCHANGED <<remote, tracking, local, current, edit, moves, told>>
    BY <1>3 DEF SyncInv, InCall, Sync!Goto, Sync!Clean, Sync!refs, Sync!Op, Sync!ConstantsAreSane
  <2>2. noted \in Sync!Reads /\ noted' \in Sync!Reads /\ noted'.dirty = (edit # "none")
    BY <1>3 DEF SyncInv, InCall, Sync!Goto, Sync!Reads
  <2>3. next' \in {"head", "base",
  "fetch"} /\ (next' = "head" => task.op = "push") /\ (next' = "base" => task.op = "readiness")
        /\ (task.op = "push" => next' = "head")
    BY <1>3, <2>1 DEF Sync!Goto
  <2>4. Sync!Op \in {"push", "prepare"} => noted'.dirty = FALSE
    BY <1>3, <2>2 DEF Sync!Strict
  <2> QED
    BY <1>1, <2>1, <2>2, <2>3, <2>4
    DEF Shared, SyncInv, Sync!TypeOK, InCall, SawClean, ToBePushed, Based, Resolved, Sync!HonestReports, Sync!HEAD,
        Sync!Exists
<1> QED
  BY <1>2, <1>3 DEF Sync!Clean

LEMMA CheckHeadKeeps ==
  ASSUME Sync!ConstantsAreSane, SyncInv, Sync!CheckHead, UNCHANGED moves
  PROVE  SyncInv'
<1>1. Shared /\ Shared'
  BY SharedHolds DEF Sync!CheckHead, Sync!refs, Shared
<1>2. CASE (current # task.branch \/ Sync!HEAD # task.expected) /\ Sync!Refuse
  BY <1>1, <1>2, Refusing
<1>3. CASE /\ current = task.branch /\ Sync!HEAD = task.expected
           /\ noted' = [noted EXCEPT !.head = Sync!HEAD] /\ Sync!Goto("head", "fetch")
           /\ UNCHANGED told
  <2>1. /\ task \in Sync!SyncRequests /\ task # None /\ Sync!Op = "push" /\ Sync!Op' = "push"
        /\ task.op = "push" /\ task' = task
        /\ UNCHANGED <<remote, tracking, local, current, edit, moves, told>> /\ next' = "fetch"
    BY <1>3 DEF SyncInv, InCall, Sync!Goto, Sync!CheckHead, Sync!refs, Sync!Op, Sync!ConstantsAreSane
  <2>2. noted \in Sync!Reads /\ noted' \in Sync!Reads /\ noted'.dirty = FALSE
    <3>1. noted \in Sync!Reads /\ noted.dirty = FALSE
      BY <1>3, <2>1 DEF SyncInv, InCall, SawClean, Sync!Goto
    <3>2. Sync!HEAD \in Sync!Commits \cup {None}
      BY <1>1 DEF Shared, Sync!HEAD
    <3> QED
      BY <1>3, <3>1, <3>2 DEF Sync!Reads
  <2> QED
    BY <1>1, <1>3, <2>1, <2>2
    DEF Shared, SyncInv, Sync!TypeOK, InCall, SawClean, ToBePushed, Based, Resolved, Sync!HonestReports, Sync!HEAD,
        Sync!Exists
<1> QED
  BY <1>2, <1>3 DEF Sync!CheckHead

LEMMA FetchKeeps ==
  ASSUME Sync!ConstantsAreSane, SyncInv, Sync!Fetch, UNCHANGED moves
  PROVE  SyncInv'
<1>1. Shared /\ task \in Sync!SyncRequests /\ task # None /\ Sync!Op = task.op /\ noted \in Sync!Reads
  BY SharedHolds DEF Sync!Fetch, SyncInv, InCall, Sync!Op, Sync!ConstantsAreSane
<1>2. Sync!FetchedBranch \in Branches /\ (Sync!Op = "prepare" => Sync!FetchedBranch = task.base)
  BY <1>1, Request DEF Sync!FetchedBranch
<1>3. /\ tracking' = [tracking EXCEPT ![Sync!FetchedBranch] = remote[Sync!FetchedBranch]]
      /\ edit' \in {"none", "known"}
      /\ UNCHANGED <<remote, local, current, moves>>
  BY DEF Sync!Fetch, Sync!Looks
<1>4. Shared'
  BY <1>1, <1>2, <1>3 DEF Shared
<1>5. CASE Sync!Refuse
  BY <1>4, <1>5, Refusing
<1>6. CASE Sync!Exists(remote[Sync!FetchedBranch]) /\ Sync!Goto("fetch", "same") /\ UNCHANGED <<noted, told>>
  <2>1. /\ Sync!Exists(tracking'[Sync!FetchedBranch]) /\ next = "fetch" /\ next' = "same" /\ task' = task
        /\ Sync!Op' = Sync!Op
        /\ UNCHANGED <<noted, told>>
    BY <1>1, <1>2, <1>3, <1>6 DEF Sync!Goto, Shared, Sync!Op
  <2> QED
    BY <1>1, <1>2, <1>3, <1>4, <2>1
    DEF Shared, SyncInv, Sync!TypeOK, InCall, SawClean, ToBePushed, Based, Resolved, Sync!HonestReports, Sync!HEAD,
        Sync!Exists
<1> QED
  BY <1>5, <1>6 DEF Sync!Fetch

LEMMA AfterFetchKeeps ==
  ASSUME Sync!ConstantsAreSane, SyncInv, Sync!AfterFetch, UNCHANGED moves
  PROVE  SyncInv'
<1>1. /\ Shared /\ Shared' /\ task \in Sync!SyncRequests /\ task # None /\ Sync!Op = task.op /\ noted \in Sync!Reads
      /\ UNCHANGED <<remote, tracking, local, current, edit, moves>>
  BY SharedHolds DEF Sync!AfterFetch, Sync!refs, Shared, SyncInv, InCall, Sync!Op, Sync!ConstantsAreSane
<1>2. CASE (edit # "none") # noted.dirty /\ Sync!Refuse
  BY <1>1, <1>2, Refusing
<1>3. CASE /\ (edit # "none") = noted.dirty
           /\ \/ Sync!Goto("same", IF Sync!Op = "push" THEN "push" ELSE "plan") /\ Sync!Strict
              \/ Sync!Goto("same", IF Sync!Op = "check" THEN "done" ELSE "base") /\ ~Sync!Strict
           /\ UNCHANGED <<noted, told>>
  <2>1. next = "same" /\ task' = task /\ Sync!Op' = Sync!Op /\ UNCHANGED <<noted, told>>
    BY <1>3 DEF Sync!Goto, Sync!Op
  <2>2. task.op \in {"push", "prepare", "readiness", "check"}
    BY <1>1, Request
  <2>3. /\ next' \in {"push", "plan", "base", "done"}
        /\ next' = "push" => task.op = "push"
        /\ next' = "plan" => task.op = "prepare"
        /\ next' = "base" => task.op = "readiness"
        /\ next' = "done" => task.op = "check"
    BY <1>1, <1>3, <2>2 DEF Sync!Goto, Sync!Strict
  <2>4. next' = "plan" => edit = "none"
    BY <1>1, <1>3, <2>1, <2>3 DEF SyncInv, SawClean, Sync!Strict
  <2> QED
    BY <1>1, <2>1, <2>3, <2>4
    DEF Shared, SyncInv, Sync!TypeOK, InCall, SawClean, ToBePushed, Based, Resolved, Sync!HonestReports, Sync!HEAD,
        Sync!Exists
<1> QED
  BY <1>2, <1>3 DEF Sync!AfterFetch

LEMMA PushKeeps ==
  ASSUME Sync!ConstantsAreSane, SyncInv, Sync!Push, UNCHANGED moves
  PROVE  SyncInv'
<1> DEFINE b == task.branch
<1>1. Shared /\ task \in Sync!SyncRequests /\ b \in Branches /\ Sync!HEAD \in Sync!Commits
  BY SharedHolds, Request DEF Sync!Push, SyncInv, InCall, Shared, Sync!HEAD, Sync!Exists
<1>2. CASE /\ remote' = [remote EXCEPT ![b] = Sync!HEAD]
           /\ tracking' = [tracking EXCEPT ![b] = Sync!HEAD]
           /\ Sync!Finish([op |-> "push", commit |-> noted.head]) \/ Sync!Refuse
  <2>1. Shared'
    BY <1>1, <1>2 DEF Sync!Push, Shared
  <2>2. CASE Sync!Refuse
    BY <2>1, <2>2, Refusing
  <2>3. CASE Sync!Finish([op |-> "push", commit |-> noted.head])
    <3>1. Sync!Finish(told') /\ Sync!HonestReports'
      BY <2>3 DEF Sync!Finish, Sync!HonestReports
    <3> QED
      BY <2>1, <3>1, Leaving
  <2> QED
    BY <1>2, <2>2, <2>3
<1>3. CASE Sync!Refuse /\ UNCHANGED <<remote, tracking>>
  <2>1. Shared'
    BY <1>1, <1>3 DEF Sync!Push, Shared
  <2> QED
    BY <1>3, <2>1, Refusing
<1> QED
  BY <1>2, <1>3 DEF Sync!Push

LEMMA PlanKeeps ==
  ASSUME Sync!ConstantsAreSane, SyncInv, Sync!Plan, UNCHANGED moves
  PROVE  SyncInv'
<1> DEFINE action == Sync!SelectAction(Sync!Exists(local[task.branch]), task.reset)
           base == tracking[task.base]
           allowed == /\ task.required => Sync!HasRequiredFile(Sync!Target(action))
                      /\ action = "switch" => Sync!IsAncestor(base, local[task.branch])
<1>1. /\ Shared /\ Shared' /\ task \in Sync!SyncRequests /\ task # None /\ task.op = "prepare" /\ Sync!Op = "prepare"
      /\ noted \in Sync!Reads /\ UNCHANGED <<remote, tracking, local, current, edit, moves>>
  BY SharedHolds DEF Sync!Plan, Sync!refs, Shared, SyncInv, InCall, Sync!Op, Sync!ConstantsAreSane
<1>2. task.branch \in Branches /\ task.base \in Branches /\ task.reset \in BOOLEAN
  BY <1>1, Request
<1>3. CASE ~allowed /\ Sync!Refuse
  BY <1>1, <1>3, Refusing
<1>4. CASE /\ allowed
           /\ noted' = [noted EXCEPT !.action = action, !.base = base]
           /\ Sync!Goto("plan", IF action = "reset" /\ current # task.branch THEN "force" ELSE "move")
           /\ UNCHANGED told
  <2>1. next = "plan" /\ task' = task /\ Sync!Op' = Sync!Op /\ next' \in {"force", "move"}
        /\ (next' = "force" <=> action = "reset" /\ current # task.branch)
    BY <1>4 DEF Sync!Goto, Sync!Op
  <2>2. base \in Sync!Commits
    BY <1>1, <1>2, <2>1 DEF SyncInv, Based, Shared, Sync!Exists
  <2>3. /\ action \in {"create", "reset", "switch"} /\ (action = "create" <=> ~Sync!Exists(local[task.branch]))
        /\ action = "reset" => task.reset
    BY <1>2 DEF Sync!SelectAction
  <2>4. noted' \in Sync!Reads /\ noted'.action = action /\ noted'.base = base
    <3> HIDE DEF action, base
    <3> QED
      BY <1>1, <1>4, <2>2, <2>3 DEF Sync!Reads
  <2>5. edit # "known"
    BY <2>1 DEF SyncInv, SawClean
  <2>6. Sync!Exists(base)
    BY <2>2 DEF Sync!Exists, Sync!ConstantsAreSane
  <2>7. /\ task.required => Sync!HasRequiredFile(Sync!Target(action))
        /\ Sync!Target(noted.action)' = Sync!Target(action)
    <3>1. task.required => Sync!HasRequiredFile(Sync!Target(action))
      BY <1>4
    <3> HIDE DEF action
    <3>2. Sync!Target(noted.action)' = Sync!Target(action)
      BY <1>1, <2>1, <2>4 DEF Sync!Target
    <3> QED
      BY <3>1, <3>2
  <2> HIDE DEF action
  <2> QED
    BY <1>1, <1>4, <2>1, <2>3, <2>4, <2>5, <2>6, <2>7
    DEF Shared, SyncInv, Sync!TypeOK, InCall, SawClean, ToBePushed, Based, Resolved, Sync!HonestReports, Sync!HEAD,
        Sync!Exists, Sync!Target
<1> QED
  BY <1>3, <1>4 DEF Sync!Plan

(* What is true of a preparation that has planned. *)
LEMMA Planned ==
  ASSUME Sync!ConstantsAreSane, SyncInv, next \in {"force", "move", "verify"}
  PROVE  /\ Shared /\ task \in Sync!SyncRequests /\ task # None /\ task.op = "prepare" /\ Sync!Op = "prepare"
         /\ noted \in Sync!Reads
         /\ task.branch \in Branches /\ task.base \in Branches
         /\ tracking[task.base] \in Sync!Commits /\ tracking[task.base] # None /\ noted.base = tracking[task.base]
<1>1. Shared /\ task \in Sync!SyncRequests /\ task # None /\ task.op = "prepare" /\ Sync!Op = "prepare"
      /\ noted \in Sync!Reads
  BY SharedHolds DEF SyncInv, InCall, Sync!Op, Sync!ConstantsAreSane
<1>2. task.branch \in Branches /\ task.base \in Branches
  BY <1>1, Request
<1> QED
  BY <1>1, <1>2 DEF SyncInv, Based, Shared, Sync!Exists

LEMMA ForceBranchKeeps ==
  ASSUME Sync!ConstantsAreSane, SyncInv, Sync!ForceBranch, UNCHANGED moves
  PROVE  SyncInv'
<1>1. next = "force" /\ local' = [local EXCEPT ![task.branch] = tracking[task.base]]
      /\ UNCHANGED <<remote, tracking, current, edit, moves>>
  BY DEF Sync!ForceBranch
<1>2. Shared' /\ local'[task.branch] = tracking[task.base]
  BY <1>1, Planned DEF Shared, Sync!Exists
<1>3. CASE Sync!Refuse
  BY <1>2, <1>3, Refusing
<1>4. CASE Sync!Goto("force", "move") /\ UNCHANGED <<noted, told>>
  <2>1. next' = "move" /\ task' = task /\ Sync!Op' = Sync!Op /\ UNCHANGED <<noted, told>>
    BY <1>4 DEF Sync!Goto, Sync!Op
  <2>2. noted.action = "reset" /\ task.reset /\ edit # "known"
        /\ (task.required => Sync!HasRequiredFile(Sync!Target("reset")))
    BY <1>1 DEF SyncInv, Based, SawClean
  <2>3. Sync!Target("reset")' = Sync!Target("reset")
    BY <1>1, <2>1 DEF Sync!Target
  <2> QED
    BY <1>1, <1>2, <2>1, <2>2, <2>3, Planned
    DEF Shared, SyncInv, Sync!TypeOK, InCall, SawClean, ToBePushed, Based, Resolved, Sync!HonestReports, Sync!HEAD,
        Sync!Exists
<1> QED
  BY <1>3, <1>4 DEF Sync!ForceBranch

(* The branch is where the plan wants it. *)
LEMMA Moved ==
  ASSUME Sync!ConstantsAreSane, SyncInv, Sync!Move
  PROVE  /\ next = "move" /\ noted.action \in {"create", "reset", "switch"}
         /\ local' = [local EXCEPT ![task.branch] = Sync!Target(noted.action)]
         /\ Sync!Target(noted.action) \in Sync!Commits /\ Sync!Target(noted.action) # None
         /\ task.required => Sync!HasRequiredFile(Sync!Target(noted.action))
<1>1. next = "move"
  BY DEF Sync!Move
<1>2. /\ noted.action \in {"create", "reset", "switch"}
      /\ noted.action = "reset" /\ current # task.branch => local[task.branch] = tracking[task.base]
      /\ noted.action = "switch" => local[task.branch] # None
      /\ task.required => Sync!HasRequiredFile(Sync!Target(noted.action))
  BY <1>1 DEF SyncInv, Based, Sync!Exists
<1>3. Sync!Target(noted.action) \in Sync!Commits /\ Sync!Target(noted.action) # None
  BY <1>1, <1>2, Planned DEF Sync!Target, Shared
<1>4. local = [local EXCEPT ![task.branch] = local[task.branch]]
  BY <1>1, Planned DEF Shared
<1>5. local' = [local EXCEPT ![task.branch] = Sync!Target(noted.action)]
  BY <1>1, <1>2, <1>4 DEF Sync!Move, Sync!Target
<1> QED
  BY <1>1, <1>2, <1>3, <1>5

LEMMA MoveKeeps ==
  ASSUME Sync!ConstantsAreSane, SyncInv, Sync!Move, UNCHANGED moves
  PROVE  SyncInv'
<1>1. /\ next = "move" /\ current' = task.branch /\ edit' \in {"none", edit}
      /\ UNCHANGED <<remote, tracking, moves>>
  BY DEF Sync!Move
<1>2. Shared' /\ local'[task.branch] = Sync!Target(noted.action)
  BY <1>1, Moved, Planned DEF Shared, Sync!Exists
<1>3. CASE Sync!Refuse
  BY <1>2, <1>3, Refusing
<1>4. CASE Sync!Goto("move", "verify") /\ UNCHANGED <<noted, told>>
  <2>1. next' = "verify" /\ task' = task /\ Sync!Op' = Sync!Op /\ UNCHANGED <<noted, told>>
    BY <1>4 DEF Sync!Goto, Sync!Op
  <2>2. task.required => Sync!HasRequiredFile(local'[task.branch])
    BY <1>2, Moved
  <2> QED
    BY <1>1, <1>2, <2>1, <2>2, Planned
    DEF Shared, SyncInv, Sync!TypeOK, InCall, SawClean, ToBePushed, Based, Resolved, Sync!HonestReports, Sync!HEAD,
        Sync!Exists
<1> QED
  BY <1>3, <1>4 DEF Sync!Move

LEMMA VerifyKeeps ==
  ASSUME Sync!ConstantsAreSane, SyncInv, Sync!Verify, UNCHANGED moves
  PROVE  SyncInv'
<1>1. next = "verify" /\ UNCHANGED <<remote, tracking, local, current, edit, moves>>
  BY DEF Sync!Verify, Sync!refs
<1>2. Shared'
  BY <1>1, Planned DEF Shared
<1>3. CASE Sync!Refuse
  BY <1>2, <1>3, Refusing
<1>4. CASE /\ current = task.branch /\ Sync!IsAncestor(tracking[task.base], Sync!HEAD)
           /\ Sync!Finish([op |-> "prepare", base |-> noted.base, branch |-> current, head |-> Sync!HEAD,
                      required |-> task.required])
  <2>1. noted.base = tracking[task.base] /\ Sync!IsPrefix(noted.base, Sync!HEAD)
    BY <1>1, <1>4, Planned DEF Sync!IsAncestor
  <2>2. task.required => Sync!HasRequiredFile(Sync!HEAD)
    BY <1>1, <1>4 DEF SyncInv, Based, Sync!HEAD
  <2>3. Sync!Finish(told') /\ Sync!HonestReports'
    BY <1>4, <2>1, <2>2 DEF Sync!Finish, Sync!HonestReports
  <2> QED
    BY <1>2, <2>3, Leaving
<1> QED
  BY <1>3, <1>4 DEF Sync!Verify

LEMMA ResolveBaseKeeps ==
  ASSUME Sync!ConstantsAreSane, SyncInv, Sync!ResolveBase, UNCHANGED moves
  PROVE  SyncInv'
<1>1. /\ next = "base" /\ next' = "target" /\ task' = task /\ Sync!Op' = Sync!Op
      /\ UNCHANGED <<remote, tracking, local, current, edit, told, moves>>
      /\ noted' = [noted EXCEPT !.base = local[task.base]] /\ Sync!Exists(local[task.base])
  BY DEF Sync!ResolveBase, Sync!Goto, Sync!refs, Sync!Op
<1>2. Shared /\ task \in Sync!SyncRequests /\ task # None /\ Sync!Op = "readiness" /\ task.op = "readiness"
      /\ noted \in Sync!Reads
  BY <1>1, SharedHolds DEF SyncInv, InCall, Sync!Op, Sync!ConstantsAreSane
<1>3. local[task.base] \in Sync!Commits
  BY <1>1, <1>2, Request DEF Shared, Sync!Exists
<1>4. noted' \in Sync!Reads /\ noted'.base \in Sync!Commits
  BY <1>1, <1>2, <1>3 DEF Sync!Reads
<1> QED
  BY <1>1, <1>2, <1>4
  DEF Shared, SyncInv, Sync!TypeOK, InCall, SawClean, ToBePushed, Based, Resolved, Sync!HonestReports, Sync!HEAD,
      Sync!Exists, Sync!ConstantsAreSane

LEMMA ResolveTargetKeeps ==
  ASSUME Sync!ConstantsAreSane, SyncInv, Sync!ResolveTarget, UNCHANGED moves
  PROVE  SyncInv'
<1>1. /\ next = "target" /\ next' = "compare" /\ task' = task /\ Sync!Op' = Sync!Op
      /\ UNCHANGED <<remote, tracking, local, current, edit, told, moves>>
      /\ noted' = [noted EXCEPT !.target = tracking[task.branch]] /\ Sync!Exists(tracking[task.branch])
  BY DEF Sync!ResolveTarget, Sync!Goto, Sync!refs, Sync!Op
<1>2. Shared /\ task \in Sync!SyncRequests /\ task # None /\ Sync!Op = "readiness" /\ task.op = "readiness"
      /\ noted \in Sync!Reads
      /\ noted.base \in Sync!Commits
  BY <1>1, SharedHolds DEF SyncInv, InCall, Sync!Op, Sync!ConstantsAreSane, Resolved
<1>3. tracking[task.branch] \in Sync!Commits
  BY <1>1, <1>2, Request DEF Shared, Sync!Exists
<1>4. noted' \in Sync!Reads /\ noted'.base \in Sync!Commits /\ noted'.target \in Sync!Commits
  BY <1>1, <1>2, <1>3 DEF Sync!Reads
<1> QED
  BY <1>1, <1>2, <1>4
  DEF Shared, SyncInv, Sync!TypeOK, InCall, SawClean, ToBePushed, Based, Resolved, Sync!HonestReports, Sync!HEAD,
      Sync!Exists, Sync!ConstantsAreSane

LEMMA CompareKeeps ==
  ASSUME Sync!ConstantsAreSane, SyncInv, Sync!Compare, UNCHANGED moves
  PROVE  SyncInv'
<1>1. Shared' /\ noted.base \in Sync!Commits /\ noted.target \in Sync!Commits
  BY SharedHolds DEF Sync!Compare, Sync!refs, Shared, SyncInv, Resolved
<1>2. /\ (Sync!Ahead(noted.base, noted.target) = 0) <=> Sync!IsPrefix(noted.base, noted.target)
      /\ (Sync!Ahead(noted.target, noted.base) = 0) <=> Sync!IsPrefix(noted.target, noted.base)
  BY <1>1, NothingAhead DEF Sync!ConstantsAreSane
<1>3. /\ told' = [op |-> "readiness", base |-> noted.base, target |-> noted.target,
                   baseAhead |-> Sync!Ahead(noted.base, noted.target), targetAhead |-> Sync!Ahead(noted.target,
                   noted.base)]
      /\ Sync!Finish(told')
  BY DEF Sync!Compare, Sync!Finish
<1>4. Sync!HonestReports'
  <2>1. /\ ((told'.baseAhead = 0) = Sync!IsPrefix(told'.base, told'.target))
        /\ ((told'.targetAhead = 0) = Sync!IsPrefix(told'.target, told'.base))
    BY <1>2, <1>3 DEF Sync!IsPrefix
  <2> QED
    BY <1>3, <2>1 DEF Sync!HonestReports
<1> QED
  BY <1>1, <1>3, <1>4, Leaving

LEMMA ReportKeeps ==
  ASSUME Sync!ConstantsAreSane, SyncInv, Sync!Report, UNCHANGED moves
  PROVE  SyncInv'
<1>1. Shared' /\ Sync!Finish(told') /\ told'.op = "check"
  BY SharedHolds DEF Sync!Report, Sync!refs, Shared, Sync!Finish
<1>2. Sync!HonestReports'
  BY <1>1 DEF Sync!HonestReports
<1> QED
  BY <1>1, <1>2, Leaving

LEMMA FailsKeeps ==
  ASSUME SyncInv, Sync!Fails, UNCHANGED moves
  PROVE  SyncInv'
<1>1. Shared' /\ Sync!Refuse
  BY SharedHolds DEF Sync!Fails, Sync!refs, Shared
<1> QED
  BY <1>1, Refusing

-----------------------------------------------------------------------------
(* Every step keeps the invariant. *)
LEMMA NextKeeps ==
  ASSUME Sync!ConstantsAreSane, SyncInv, Sync!Next
  PROVE  SyncInv'
<1>2. CASE \E b \in Branches : Sync!Pushed(b)
  BY <1>2, PushedKeeps
<1>3. CASE (Sync!Edited \/ Sync!UserGit) /\ UNCHANGED moves
  BY <1>3, EditedKeeps, UserGitKeeps
<1>4. CASE \E r \in Sync!SyncRequests : Sync!Start(r)
  BY <1>4, StartKeeps
<1>5. CASE Sync!Tool /\ UNCHANGED moves
  BY <1>5, CleanKeeps, CheckHeadKeeps, FetchKeeps, AfterFetchKeeps, PushKeeps, PlanKeeps, ForceBranchKeeps, MoveKeeps,
     VerifyKeeps, ResolveBaseKeeps, ResolveTargetKeeps, CompareKeeps, ReportKeeps, FailsKeeps DEF Sync!Tool
<1> QED
  BY <1>2, <1>3, <1>4, <1>5 DEF Sync!Next

LEMMA SyncStays ==
  ASSUME SyncInv, UNCHANGED syncs
  PROVE  SyncInv'
BY
DEF syncs, SyncInv, Sync!TypeOK, InCall, SawClean, ToBePushed, Based, Resolved, Sync!HonestReports, Sync!HEAD,
    Sync!Op,
       Sync!Target

SyncsInv == part = "sync" => SyncInv

LEMMA SyncsStep ==
  ASSUME SyncsInv, [MCNext]_everything
  PROVE  SyncsInv'
<1> SUFFICES ASSUME part' = "sync" PROVE SyncInv'
  BY DEF SyncsInv
<1>1. part = "sync" /\ SyncInv
  BY EachPartAlone DEF SyncsInv
<1>2. Sync!Next \/ UNCHANGED syncs
  BY <1>1, EachPartAlone
<1> QED
  BY <1>1, <1>2, NextKeeps, SyncStays, PartsAreSane

(* Reports agree with themselves and with the repository: a prepared branch is based on   *)
(* the fetched commit and holds the required file, and the counts of a readiness report   *)
(* are those of the two commits it names (git_branch_prepare, git_merge_readiness).       *)
THEOREM SyncReportsAreHonest == MCSpec => []HonestReports
<1>1. MCInit => SyncsInv
  BY InitHolds, PartsAreSane DEF MCInit, SyncsInv
<1>2. SyncsInv => HonestReports
  BY DEF SyncsInv, SyncInv, HonestReports
<1> QED
  BY <1>1, <1>2, SyncsStep, PTL DEF MCSpec

-----------------------------------------------------------------------------
(* A branch that stays where it is, or moves on by a change, loses nothing. *)
LEMMA StaysBranch ==
  ASSUME Sync!ConstantsAreSane, Shared, UNCHANGED local, NEW b \in Branches, Sync!Exists(local[b])
  PROVE  Sync!IsAncestor(local[b], local'[b])
<1>1. local[b] \in Sync!Commits /\ local'[b] = local[b]
  BY DEF Shared, Sync!Exists
<1>2. Sync!IsPrefix(local[b], local[b])
  BY <1>1, Reflexive DEF Sync!ConstantsAreSane
<1> QED
  BY <1>1, <1>2 DEF Sync!IsAncestor

LEMMA CommittedBranch ==
  ASSUME Sync!ConstantsAreSane, Shared, local' = [local EXCEPT ![current] = Append(@, "ours")],
         Len(local[current]) < MaxLen,
         NEW b \in Branches, Sync!Exists(local[b])
  PROVE  Sync!IsAncestor(local[b], local'[b])
<1>1. local[b] \in Sync!Commits
  BY DEF Shared, Sync!Exists
<1>2. CASE b # current
  <2>1. local'[b] = local[b]
    BY <1>2 DEF Shared
  <2>2. Sync!IsPrefix(local[b], local[b])
    BY <1>1, Reflexive DEF Sync!ConstantsAreSane
  <2> QED
    BY <2>1, <2>2, <1>1 DEF Sync!IsAncestor
<1>3. CASE b = current
  <2>1. local'[b] = Append(local[b], "ours")
    BY <1>3 DEF Shared
  <2>2. Sync!IsPrefix(local[b], Append(local[b], "ours")) /\ Append(local[b], "ours") \in Sync!Commits
    BY <1>1, <1>3, AppendToCommit DEF Sync!ConstantsAreSane
  <2> QED
    BY <2>1, <2>2, <1>1 DEF Sync!IsAncestor, Sync!Exists, Sync!ConstantsAreSane
<1> QED
  BY <1>2, <1>3

(* A branch whose commit a step replaces was to be reset, or is where it was, or was new. *)
LEMMA ReplacedBranch ==
  ASSUME Sync!ConstantsAreSane, SyncInv, Sync!ForceBranch \/ Sync!Move, NEW b \in Branches, Sync!Exists(local[b]),
         ~Sync!IsAncestor(local[b], local'[b])
  PROVE  Sync!Op = "prepare" /\ task.reset /\ b = task.branch
<1>1. next \in {"force", "move"}
  BY DEF Sync!ForceBranch, Sync!Move
<1>2. local' = [local EXCEPT ![task.branch] = local'[task.branch]]
  <2>1. CASE Sync!ForceBranch
    BY <2>1, <1>1, Planned DEF Sync!ForceBranch, Shared
  <2>2. CASE Sync!Move
    BY <2>2, <1>1, Planned, Moved DEF Shared
  <2> QED
    BY <2>1, <2>2
<1>3. ASSUME local'[b] = local[b] PROVE FALSE
  <2>1. local[b] \in Sync!Commits /\ Sync!IsPrefix(local[b], local[b])
    BY <1>1, Planned, Reflexive DEF Shared, Sync!Exists, Sync!ConstantsAreSane
  <2> QED
    BY <1>3, <2>1 DEF Sync!IsAncestor
<1>4. b = task.branch
  BY <1>1, <1>2, <1>3, Planned DEF Shared
<1>5. CASE Sync!ForceBranch
  BY <1>1, <1>4, <1>5, Planned DEF Sync!ForceBranch, SyncInv, Based
<1>6. CASE Sync!Move
  <2>1. local'[b] = Sync!Target(noted.action) /\ noted.action \in {"create", "reset", "switch"}
    BY <1>1, <1>4, <1>6, Moved, Planned DEF Shared
  <2>2. noted.action = "reset"
    BY <1>3, <1>4, <1>6, <2>1, Moved DEF SyncInv, Based, Sync!Target, Sync!Exists
  <2> QED
    BY <1>1, <1>4, <1>6, <2>2, Planned, Moved DEF SyncInv, Based
<1> QED
  BY <1>5, <1>6

LEMMA DropsNoCommit ==
  ASSUME Sync!ConstantsAreSane, SyncInv, Sync!Next, NEW b \in Branches, Sync!Exists(local[b]),
         ~Sync!IsAncestor(local[b], local'[b])
  PROVE  Sync!Op = "prepare" /\ task.reset /\ b = task.branch
<1>1. Shared
  BY SharedHolds
<1>2. ~UNCHANGED local
  BY <1>1, StaysBranch
<1>3. Sync!ForceBranch \/ Sync!Move \/ Sync!UserGit
  BY <1>2
  DEF Sync!Next, Sync!Tool, Sync!Pushed, Sync!Edited, Sync!Start, Sync!Fails, Sync!Clean, Sync!CheckHead,
      Sync!Fetch, Sync!AfterFetch, Sync!Push, Sync!Plan, Sync!Verify,
              Sync!ResolveBase, Sync!ResolveTarget, Sync!Compare, Sync!Report, Sync!refs
<1>4. CASE Sync!UserGit
  <2>1. local' = [local EXCEPT ![current] = Append(@, "ours")] /\ Len(local[current]) < MaxLen
    BY <1>2, <1>4 DEF Sync!UserGit, Sync!HEAD
  <2> QED
    BY <1>1, <2>1, CommittedBranch
<1> QED
  BY <1>3, <1>4, ReplacedBranch

(* What a look at the worktree showed is still there after any step of a call. *)
LEMMA DropsNoEdit ==
  ASSUME Sync!ConstantsAreSane, SyncInv, Sync!Next, edit = "known", Sync!Op \notin {None, "readiness"}
  PROVE  edit' = "known"
<1>1. CASE Sync!Move
  BY <1>1 DEF Sync!Move, SyncInv, SawClean
<1> QED
  BY <1>1
  DEF Sync!Next, Sync!Tool, Sync!Pushed, Sync!Edited, Sync!UserGit, Sync!Start, Sync!Fails, Sync!Clean,
      Sync!CheckHead, Sync!Fetch, Sync!AfterFetch, Sync!Push, Sync!Plan,
              Sync!ForceBranch, Sync!Verify, Sync!ResolveBase, Sync!ResolveTarget, Sync!Compare, Sync!Report,
              Sync!refs, Sync!Looks

LEMMA PushesTheHead ==
  ASSUME Sync!ConstantsAreSane, SyncInv, Sync!Next, next' # next, remote' # remote
  PROVE  /\ Sync!Op = "push"
         /\ remote' = [remote EXCEPT ![task.branch] = task.expected] /\ local[task.branch] = task.expected
         /\ Sync!Exists(remote[task.branch]) => Sync!IsPrefix(remote[task.branch], task.expected)
<1>1. Sync!Push
  BY
  DEF Sync!Next, Sync!Tool, Sync!Pushed, Sync!Edited, Sync!UserGit, Sync!Start, Sync!Fails, Sync!Clean,
      Sync!CheckHead, Sync!Fetch, Sync!AfterFetch, Sync!Plan,
         Sync!ForceBranch, Sync!Move, Sync!Verify, Sync!ResolveBase, Sync!ResolveTarget, Sync!Compare, Sync!Report,
         Sync!refs
<1>2. next = "push" /\ Sync!Op = "push" /\ current = task.branch /\ Sync!HEAD = task.expected
  BY <1>1 DEF Sync!Push, SyncInv, InCall, Sync!Op, ToBePushed, Sync!ConstantsAreSane
<1>3. /\ remote' = [remote EXCEPT ![task.branch] = Sync!HEAD]
      /\ ~Sync!Exists(remote[task.branch]) \/ Sync!IsAncestor(remote[task.branch], Sync!HEAD)
  BY <1>1 DEF Sync!Push
<1> QED
  BY <1>2, <1>3 DEF Sync!HEAD, Sync!IsAncestor

LEMMA SyncStepMovesOnlyWhatItMay ==
  ASSUME SyncInv, Sync!Next
  PROVE  Sync!PushesTheExpected /\ Sync!DropsNothing
<1>1. Sync!PushesTheExpected
  BY PushesTheHead, PartsAreSane DEF Sync!PushesTheExpected
<1>2. Sync!DropsNothing
  BY DropsNoCommit, DropsNoEdit, PartsAreSane DEF Sync!DropsNothing
<1> QED
  BY <1>1, <1>2

(* A push moves exactly the branch it was asked to push, forward, to the commit the client *)
(* expected, whatever others push at the same time (git_push_exact); and nobody's work is  *)
(* dropped: a local branch loses commits only by a reset that the client confirmed, and    *)
(* changes made before the last look at the worktree survive every tool                    *)
(* (git_branch_prepare, ensure_worktree_clean, ensure_status_unchanged).                   *)
THEOREM SyncMovesOnlyWhatItMay == MCSpec => MovesOnlyWhatItMay
<1>1. MCInit => SyncsInv
  BY InitHolds, PartsAreSane DEF MCInit, SyncsInv
<1>2. SyncsInv /\ [MCNext]_everything => [part = "sync" => Sync!PushesTheExpected /\ Sync!DropsNothing]_syncs
  <2> SUFFICES ASSUME SyncsInv, [MCNext]_everything, part = "sync", ~UNCHANGED syncs
               PROVE  Sync!PushesTheExpected /\ Sync!DropsNothing
    OBVIOUS
  <2> QED
    BY EachPartAlone, SyncStepMovesOnlyWhatItMay DEF SyncsInv
<1> QED
  BY <1>1, <1>2, SyncsStep, PTL DEF MCSpec, MovesOnlyWhatItMay

(* Induction over the numbers: a set that has 0, and with each number the next, has them all. *)
LEMMA Induction ==
  ASSUME NEW S, 0 \in S, \A n \in Nat : n \in S => n + 1 \in S
  PROVE  Nat \subseteq S
<1> DEFINE T == Nat \ S
           R == OpToRel(<, Nat)
<1>1. IsWellFoundedOn(R, Nat)
  BY NatLessThanWellFounded
<1>2. R = {ss \in Nat \X Nat : ss[1] < ss[2]}
  BY DEF OpToRel
<1>3. T \subseteq Nat
  OBVIOUS
<1> HIDE DEF T, R
<1>4. ASSUME T # {} PROVE FALSE
  <2>1. PICK m \in T : \A y \in T : <<y, m>> \notin R
    BY <1>1, <1>3, <1>4, WFMin
  <2>2. m \in Nat /\ m # 0
    BY <1>3 DEF T
  <2>3. m - 1 \in Nat /\ m - 1 \notin S
    BY <2>2, <2>1 DEF T
  <2>4. <<m - 1, m>> \in R
    BY <1>2, <2>2, <2>3
  <2> QED
    BY <2>1, <2>3, <2>4 DEF T
<1> QED
  BY <1>4 DEF T

(* The same up to a bound. *)
LEMMA InductionTo ==
  ASSUME NEW N \in Nat, NEW S, 0 \in S, \A n \in 0..(N - 1) : n \in S => n + 1 \in S
  PROVE  0..N \subseteq S
<1> DEFINE U == {n \in Nat : n <= N => n \in S}
<1>1. 0 \in U
  OBVIOUS
<1>2. ASSUME NEW n \in Nat, n \in U PROVE n + 1 \in U
  BY <1>2
<1> HIDE DEF U
<1>3. Nat \subseteq U
  BY <1>1, <1>2, Induction
<1> QED
  BY <1>3 DEF U

(* Induction over sequences, from the left to the right. *)
LEMMA SeqInduction ==
  ASSUME NEW X, NEW G, <<>> \in G, \A s \in Seq(X), x \in X : s \in G => Append(s, x) \in G
  PROVE  Seq(X) \subseteq G
<1> DEFINE U == {n \in Nat : \A s \in Seq(X) : Len(s) = n => s \in G}
<1>1. 0 \in U
  BY EmptySeq
<1>2. ASSUME NEW n \in Nat, n \in U PROVE n + 1 \in U
  <2> SUFFICES ASSUME NEW s \in Seq(X), Len(s) = n + 1 PROVE s \in G
    OBVIOUS
  <2> DEFINE t == SubSeq(s, 1, n)
  <2>1. \A k \in 1..n : s[k] \in X
    BY ElementOfSeq
  <2>2. t \in Seq(X) /\ Len(t) = n /\ \A k \in 1..n : t[k] = s[k]
    <3>1. 1 \in Int /\ n \in Int /\ (IF 1 <= n THEN n - 1 + 1 ELSE 0) = n /\ \A k \in 1..n : 1 + k - 1 = k
      OBVIOUS
    <3> QED
      BY <2>1, <3>1, SubSeqProperties
  <2>3. s[n + 1] \in X
    BY ElementOfSeq
  <2> HIDE DEF t
  <2>4. Append(t, s[n + 1]) = s
    <3>1. /\ Append(t, s[n + 1]) \in Seq(X) /\ Len(Append(t, s[n + 1])) = n + 1
          /\ \A k \in 1..n : Append(t, s[n + 1])[k] = t[k] /\ Append(t, s[n + 1])[n + 1] = s[n + 1]
      BY <2>2, <2>3, AppendProperties
    <3>2. Append(t, s[n + 1])[n + 1] = s[n + 1]
      BY <2>2, <2>3, AppendProperties
    <3>3. \A k \in 1..(n + 1) : Append(t, s[n + 1])[k] = s[k]
      BY <2>2, <3>1, <3>2
    <3> QED
      BY <3>1, <3>3, SeqEqual
  <2>5. t \in G
    BY <1>2, <2>2
  <2> QED
    BY <2>2, <2>3, <2>4, <2>5
<1> HIDE DEF U
<1>3. Nat \subseteq U
  BY <1>1, <1>2, Induction
<1> QED
  BY <1>3, LenProperties DEF U

(* A set of numbers up to a bound has a greatest one. *)
LEMMA Greatest ==
  ASSUME NEW N \in Nat, NEW T \in SUBSET (0..N), T # {}
  PROVE  \E x \in T : \A y \in T : x >= y
<1> DEFINE U == {n \in Nat : \A V \in SUBSET (0..n) : V # {} => \E x \in V : \A y \in V : x >= y}
<1>1. 0 \in U
  <2> SUFFICES ASSUME NEW V \in SUBSET (0..0), V # {} PROVE \E x \in V : \A y \in V : x >= y
    OBVIOUS
  <2>1. PICK x \in V : TRUE
    OBVIOUS
  <2>2. \A y \in V : y = 0
    OBVIOUS
  <2>3. x = 0 /\ \A y \in V : x >= y
    BY <2>2
  <2> QED
    BY <2>3
<1>2. ASSUME NEW n \in Nat, n \in U PROVE n + 1 \in U
  <2> SUFFICES ASSUME NEW V \in SUBSET (0..(n + 1)), V # {} PROVE \E x \in V : \A y \in V : x >= y
    OBVIOUS
  <2>1. CASE n + 1 \in V
    BY <2>1
  <2>2. CASE n + 1 \notin V
    <3>1. V \in SUBSET (0..n)
      BY <2>2
    <3> QED
      BY <3>1, <1>2
  <2> QED
    BY <2>1, <2>2
<1> HIDE DEF U
<1>3. Nat \subseteq U
  BY <1>1, <1>2, Induction
<1> QED
  BY <1>3 DEF U

(* F is a step from a value in V at each of N places; g are the values on the way from b. *)
IsStep(F, V, N) == N \in Nat /\ F \in [V \X (1..N) -> V]
IsRun(g, b, F, V, N) == g \in [0..N -> V] /\ g[0] = b /\ \A n \in 1..N : g[n] = F[<<g[n - 1], n>>]

(* The operators of the community modules that fold from the left take the greatest place first. *)
Top(T) == CHOOSE x \in T : \A y \in T : x >= y

LEMMA TopIsGreatest ==
  ASSUME NEW N \in Nat, NEW T \in SUBSET (1..N), T # {}
  PROVE  Top(T) \in T /\ \A y \in T : Top(T) >= y
<1>1. T \in SUBSET (0..N)
  OBVIOUS
<1> QED
  BY <1>1, Greatest DEF Top

(* FoldLeft is a recursion over the sets of places, from which it takes the greatest one. *)
IsFold(h, b, F, V, N) ==
  \A T \in SUBSET (1..N) :
    /\ T = {} => h[T] = b
    /\ T # {} /\ h[T \ {Top(T)}] \in V => h[T] = F[<<h[T \ {Top(T)}], Top(T)>>]

(* Such a function exists. *)
LEMMA FoldExists ==
  ASSUME NEW V, NEW b \in V, NEW N, NEW F, IsStep(F, V, N)
  PROVE  \E h \in [SUBSET (1..N) -> V] : IsFold(h, b, F, V, N)
<1> USE DEF IsStep
<1> DEFINE Is(h, M) == h \in [SUBSET (1..M) -> V]
             /\ \A T \in SUBSET (1..M) : h[T] = IF T = {} THEN b ELSE F[<<h[T \ {Top(T)}], Top(T)>>]
           S == {M \in Nat : \E h : Is(h, M)}
<1>1. 0 \in S
  <2> DEFINE h == [T \in SUBSET (1..0) |-> b]
  <2>1. Is(h, 0)
    OBVIOUS
  <2> QED
    BY <2>1
<1>2. ASSUME NEW M \in 0..(N - 1), M \in S PROVE M + 1 \in S
  <2>1. PICK h : Is(h, M)
    BY <1>2
  <2> DEFINE P == M + 1
             k == [T \in SUBSET (1..P) |-> IF P \in T THEN F[<<h[T \ {P}], P>>] ELSE h[T]]
  <2>2. /\ P \in 1..N /\ P \in Nat
        /\ \A T \in SUBSET (1..P) : /\ T \ {P} \in SUBSET (1..M) /\ T \in SUBSET (1..N)
                                    /\ (P \notin T => T \in SUBSET (1..M))
    OBVIOUS
  <2>3. \A T \in SUBSET (1..P) : P \in T => Top(T) = P
    <3> SUFFICES ASSUME NEW T \in SUBSET (1..P), P \in T PROVE Top(T) = P
      OBVIOUS
    <3>1. Top(T) \in T /\ Top(T) >= P
      BY <2>2, TopIsGreatest
    <3>2. Top(T) \in 1..P
      BY <3>1
    <3> HIDE DEF k, P
    <3> QED
      BY <2>2, <3>1, <3>2
  <2>4. k \in [SUBSET (1..P) -> V]
    <3>1. \A T \in SUBSET (1..P) : (P \in T => F[<<h[T \ {P}], P>>] \in V) /\ (P \notin T => h[T] \in V)
      BY <2>1, <2>2
    <3> QED
      BY <3>1
  <2>5. ASSUME NEW T \in SUBSET (1..P) PROVE k[T] = IF T = {} THEN b ELSE F[<<k[T \ {Top(T)}], Top(T)>>]
    <3>1. CASE P \in T
      <4>1. Top(T) = P /\ k[T] = F[<<h[T \ {P}], P>>]
        BY <2>3, <3>1
      <4>2. k[T \ {P}] = h[T \ {P}]
        BY <2>2
      <4> HIDE DEF k
      <4> QED
        BY <3>1, <4>1, <4>2
    <3>2. CASE P \notin T
      <4>1. T \in SUBSET (1..M) /\ k[T] = h[T]
        BY <2>2, <3>2
      <4>2. k[T \ {Top(T)}] = h[T \ {Top(T)}] /\ T \ {Top(T)} \in SUBSET (1..M)
        BY <3>2, <4>1
      <4> HIDE DEF k
      <4> QED
        BY <4>1, <4>2, <2>1
    <3> QED
      BY <3>1, <3>2
  <2>6. Is(k, P)
    BY <2>4, <2>5
  <2> QED
    BY <2>2, <2>6
<1> HIDE DEF S
<1>3. N \in S
  <2>1. 0..N \subseteq S
    BY <1>1, <1>2, InductionTo
  <2> QED
    BY <2>1
<1>4. PICK h : Is(h, N)
  BY <1>3 DEF S
<1> QED
  BY <1>4 DEF IsFold

(* Whatever such a function is, at the first places it is the fold of the first elements. *)
LEMMA FoldRuns ==
  ASSUME NEW V, NEW b \in V, NEW N, NEW F, IsStep(F, V, N), NEW h, IsFold(h, b, F, V, N)
  PROVE  \E g : IsRun(g, b, F, V, N) /\ g[N] = h[1..N]
<1> USE DEF IsStep, IsRun, IsFold
<1> DEFINE S == {n \in Nat : h[1..n] \in V /\ (n > 0 => h[1..n] = F[<<h[1..(n - 1)], n>>])}
           g == [n \in 0..N |-> h[1..n]]
<1>0. {} \in SUBSET (1..N) /\ 1..0 = {}
  OBVIOUS
<1>1. 0 \in S
  <2>1. h[1..0] = b
    BY <1>0
  <2> QED
    BY <2>1
<1>2. ASSUME NEW n \in 0..(N - 1), n \in S PROVE n + 1 \in S
  <2>1. /\ 1..(n + 1) \in SUBSET (1..N) /\ 1..(n + 1) # {} /\ n + 1 \in 1..N /\ n + 1 \in Nat
        /\ (1..(n + 1)) \ {n + 1} = 1..n /\ (n + 1) - 1 = n
    OBVIOUS
  <2>2. Top(1..(n + 1)) = n + 1
    <3> DEFINE T == 1..(n + 1)
    <3>1. T \in SUBSET (1..N) /\ T # {} /\ n + 1 \in T
      BY <2>1
    <3>2. Top(T) \in T /\ Top(T) >= n + 1
      <4> HIDE DEF T
      <4> QED
        BY <3>1, TopIsGreatest
    <3> QED
      BY <3>2
  <2>3. h[1..n] \in V
    BY <1>2
  <2>4. h[1..(n + 1)] = F[<<h[1..n], n + 1>>]
    BY <2>1, <2>2, <2>3
  <2> QED
    BY <2>1, <2>3, <2>4
<1> HIDE DEF S
<1>3. \A n \in 0..N : n \in S
  <2>1. 0..N \subseteq S
    BY <1>1, <1>2, InductionTo
  <2> QED
    BY <2>1
<1>4. g \in [0..N -> V]
  BY <1>3 DEF S
<1>5. g[0] = b /\ g[N] = h[1..N]
  <2>1. h[1..0] = b
    BY <1>0
  <2>2. g[0] = h[1..0] /\ g[N] = h[1..N]
    OBVIOUS
  <2> QED
    BY <2>1, <2>2
<1>6. ASSUME NEW n \in 1..N PROVE g[n] = F[<<g[n - 1], n>>]
  <2>1. g[n] = h[1..n] /\ g[n - 1] = h[1..(n - 1)] /\ n > 0
    OBVIOUS
  <2> HIDE DEF g
  <2> QED
    BY <2>1, <1>3 DEF S
<1> HIDE DEF g
<1> QED
  BY <1>4, <1>5, <1>6

(* h is a fold of s by op from b, over the sets of the places of s. *)
Folds(h, b, op, V, s) ==
  \A T \in SUBSET (1..Len(s)) :
    /\ T = {} => h[T] = b
    /\ T # {} /\ h[T \ {Top(T)}] \in V => h[T] = op[<<h[T \ {Top(T)}], s[Top(T)]>>]

LEMMA FoldOfSeq ==
  ASSUME NEW X, NEW V, NEW b \in V, NEW op \in [V \X X -> V], NEW s \in Seq(X)
  PROVE  \E h \in [SUBSET (1..Len(s)) -> V] : Folds(h, b, op, V, s)
<1> DEFINE N == Len(s)
           F == [vn \in V \X (1..N) |-> op[<<vn[1], s[vn[2]]>>]]
<1>1. N \in Nat /\ \A n \in 1..N : s[n] \in X
  BY ElementOfSeq, LenProperties
<1> HIDE DEF N
<1>2. IsStep(F, V, N) /\ \A v \in V, n \in 1..N : F[<<v, n>>] = op[<<v, s[n]>>]
  BY <1>1 DEF IsStep
<1> HIDE DEF F
<1>3. PICK h \in [SUBSET (1..N) -> V] : IsFold(h, b, F, V, N)
  BY <1>1, <1>2, FoldExists
<1>4. Folds(h, b, op, V, s)
  <2> SUFFICES ASSUME NEW T \in SUBSET (1..N)
               PROVE  /\ T = {} => h[T] = b
                      /\ T # {} /\ h[T \ {Top(T)}] \in V => h[T] = op[<<h[T \ {Top(T)}], s[Top(T)]>>]
    BY DEF Folds, N
  <2>1. T # {} => Top(T) \in 1..N
    BY <1>1, TopIsGreatest
  <2> QED
    BY <2>1, <1>2, <1>3 DEF IsFold
<1> QED
  BY <1>3, <1>4 DEF N

(* fold folds sequences over X from the left, by op and from b. *)
FoldsBy(fold, b, op, V, X) ==
  /\ b \in V /\ op \in [V \X X -> V]
  /\ \A s \in Seq(X) : \E h : Folds(h, b, op, V, s) /\ fold[s] = h[1..Len(s)]

LEMMA FoldGoesOn ==
  ASSUME NEW X, NEW V, NEW b, NEW op, NEW fold, FoldsBy(fold, b, op, V, X), NEW s \in Seq(X)
  PROVE  \E g \in [0..Len(s) -> V] : /\ g[0] = b /\ fold[s] = g[Len(s)]
                                     /\ \A n \in 1..Len(s) : g[n] = op[<<g[n - 1], s[n]>>]
<1> DEFINE N == Len(s)
           F == [vn \in V \X (1..N) |-> op[<<vn[1], s[vn[2]]>>]]
<1>1. N \in Nat /\ (\A n \in 1..N : s[n] \in X) /\ op \in [V \X X -> V] /\ b \in V
  BY ElementOfSeq, LenProperties DEF FoldsBy
<1>2. PICK h : Folds(h, b, op, V, s) /\ fold[s] = h[1..N]
  BY DEF FoldsBy
<1> HIDE DEF N
<1>3. IsStep(F, V, N) /\ \A v \in V, n \in 1..N : F[<<v, n>>] = op[<<v, s[n]>>]
  BY <1>1 DEF IsStep
<1> HIDE DEF F
<1>4. IsFold(h, b, F, V, N)
  <2> SUFFICES ASSUME NEW T \in SUBSET (1..N)
               PROVE  /\ T = {} => h[T] = b
                      /\ T # {} /\ h[T \ {Top(T)}] \in V => h[T] = F[<<h[T \ {Top(T)}], Top(T)>>]
    BY DEF IsFold
  <2>1. T # {} => Top(T) \in 1..N
    BY <1>1, TopIsGreatest
  <2>2. /\ T = {} => h[T] = b
        /\ T # {} /\ h[T \ {Top(T)}] \in V => h[T] = op[<<h[T \ {Top(T)}], s[Top(T)]>>]
    BY <1>2 DEF Folds, N
  <2> QED
    BY <2>1, <2>2, <1>3
<1>5. PICK g : IsRun(g, b, F, V, N) /\ g[N] = h[1..N]
  BY <1>1, <1>3, <1>4, FoldRuns
<1>6. ASSUME NEW n \in 1..N PROVE g[n] = op[<<g[n - 1], s[n]>>]
  <2>1. n - 1 \in 0..N
    BY <1>1
  <2> QED
    BY <2>1, <1>3, <1>5 DEF IsRun
<1> QED
  BY <1>2, <1>5, <1>6 DEF N, IsRun

(* What is folded from the left can be folded one element after the other. *)
LEMMA FoldSteps ==
  ASSUME NEW X, NEW V, NEW b, NEW op, NEW fold, FoldsBy(fold, b, op, V, X)
  PROVE  /\ fold[<<>>] = b
         /\ \A s \in Seq(X), x \in X : fold[Append(s, x)] = op[<<fold[s], x>>]
         /\ \A s \in Seq(X) : fold[s] \in V
<1>1. ASSUME NEW s \in Seq(X), s = <<>> PROVE fold[s] = b
  <2>1. PICK g \in [0..Len(s) -> V] : g[0] = b /\ fold[s] = g[Len(s)]
    BY FoldGoesOn
  <2>2. Len(s) = 0
    BY <1>1
  <2> QED
    BY <2>1, <2>2
<1>2. ASSUME NEW s \in Seq(X), NEW x \in X PROVE fold[Append(s, x)] = op[<<fold[s], x>>]
  <2> DEFINE N == Len(s)
             t == Append(s, x)
  <2>1. /\ t \in Seq(X) /\ Len(t) = N + 1 /\ t[N + 1] = x /\ N \in Nat
        /\ \A n \in 1..N : t[n] = s[n]
    BY AppendProperties, LenProperties
  <2> HIDE DEF t, N
  <2>2. PICK g \in [0..N -> V] : /\ g[0] = b /\ fold[s] = g[N]
                                 /\ \A n \in 1..N : g[n] = op[<<g[n - 1], s[n]>>]
    BY FoldGoesOn DEF N
  <2>3. PICK k \in [0..(N + 1) -> V] : /\ k[0] = b /\ fold[t] = k[N + 1]
                                       /\ \A n \in 1..(N + 1) : k[n] = op[<<k[n - 1], t[n]>>]
    <3>1. \E k \in [0..Len(t) -> V] :
            k[0] = b /\ fold[t] = k[Len(t)] /\ \A n \in 1..Len(t) : k[n] = op[<<k[n - 1], t[n]>>]
      <4>1. t \in Seq(X)
        BY <2>1
      <4> QED
        BY <4>1, FoldGoesOn
    <3> QED
      BY <2>1, <3>1
  <2> DEFINE S == {n \in Nat : n <= N => g[n] = k[n]}
  <2>4. 0 \in S
    BY <2>2, <2>3
  <2>5. ASSUME NEW n \in 0..(N - 1), n \in S PROVE n + 1 \in S
    <3>1. n + 1 \in 1..N /\ n + 1 \in 1..(N + 1) /\ (n + 1) - 1 = n /\ n + 1 \in Nat /\ n <= N
      <4>1. N \in Nat
        BY <2>1
      <4> HIDE DEF S
      <4> QED
        BY <4>1
    <3>4. g[n] = k[n]
      BY <2>5, <3>1
    <3>2. g[n + 1] = op[<<g[n], s[n + 1]>>] /\ k[n + 1] = op[<<k[n], t[n + 1]>>]
      BY <3>1, <2>2, <2>3
    <3>3. t[n + 1] = s[n + 1]
      BY <3>1, <2>1
    <3> QED
      BY <3>1, <3>2, <3>3, <3>4
  <2> HIDE DEF S
  <2>6. 0..N \subseteq S
    BY <2>1, <2>4, <2>5, InductionTo
  <2>7. g[N] = k[N]
    BY <2>1, <2>6 DEF S
  <2>8. N + 1 \in 1..(N + 1) /\ (N + 1) - 1 = N
    BY <2>1
  <2>9. k[N + 1] = op[<<k[N], x>>]
    BY <2>1, <2>3, <2>8
  <2> QED
    BY <2>2, <2>3, <2>7, <2>9 DEF t
<1>3. ASSUME NEW s \in Seq(X) PROVE fold[s] \in V
  <2>1. Len(s) \in 0..Len(s)
    BY LenProperties
  <2> QED
    BY <2>1, FoldGoesOn
<1>4. <<>> \in Seq(X)
  OBVIOUS
<1> QED
  BY <1>1, <1>2, <1>3, <1>4

(* The first elements of a sequence. *)
LEMMA PrefixOfSeq ==
  ASSUME NEW X, NEW s \in Seq(X), NEW k \in 0..Len(s)
  PROVE  SubSeq(s, 1, k) \in Seq(X) /\ Len(SubSeq(s, 1, k)) = k /\ \A m \in 1..k : SubSeq(s, 1, k)[m] = s[m]
<1>1. \A m \in 1..k : s[m] \in X
  BY LenProperties, ElementOfSeq
<1>2. 1 \in Int /\ k \in Int /\ (IF 1 <= k THEN k - 1 + 1 ELSE 0) = k /\ \A m \in 1..k : 1 + m - 1 = m
  BY LenProperties
<1> QED
  BY <1>1, <1>2, SubSeqProperties

LEMMA WholeSeq ==
  ASSUME NEW X, NEW s \in Seq(X)
  PROVE  SubSeq(s, 1, Len(s)) = s
<1>1. Len(s) \in 0..Len(s)
  BY LenProperties
<1> QED
  BY <1>1, PrefixOfSeq, SeqEqual

LEMMA PrefixGrows ==
  ASSUME NEW X, NEW s \in Seq(X), NEW k \in 0..Len(s), k + 1 <= Len(s)
  PROVE  SubSeq(s, 1, k + 1) = Append(SubSeq(s, 1, k), s[k + 1]) /\ SubSeq(s, 1, k) \in Seq(X)
<1> DEFINE t == SubSeq(s, 1, k)
           u == SubSeq(s, 1, k + 1)
<1>1. Len(s) \in Nat /\ k + 1 \in 0..Len(s) /\ k \in Nat /\ k + 1 \in 1..Len(s)
  BY LenProperties
<1>2. t \in Seq(X) /\ Len(t) = k /\ \A m \in 1..k : t[m] = s[m]
  BY PrefixOfSeq
<1>3. u \in Seq(X) /\ Len(u) = k + 1 /\ \A m \in 1..(k + 1) : u[m] = s[m]
  BY <1>1, PrefixOfSeq
<1>4. s[k + 1] \in X
  BY <1>1, ElementOfSeq
<1> HIDE DEF t, u
<1>5. /\ Append(t, s[k + 1]) \in Seq(X) /\ Len(Append(t, s[k + 1])) = k + 1
      /\ \A m \in 1..k : Append(t, s[k + 1])[m] = t[m]
      /\ Append(t, s[k + 1])[k + 1] = s[k + 1]
  BY <1>2, <1>4, AppendProperties
<1>6. \A m \in 1..(k + 1) : Append(t, s[k + 1])[m] = u[m]
  BY <1>1, <1>2, <1>3, <1>5
<1>7. u = Append(t, s[k + 1])
  BY <1>3, <1>5, <1>6, SeqEqual
<1> QED
  BY <1>2, <1>7 DEF t, u
-----------------------------------------------------------------------------
(* PathRules. *)
LEMMA BlankIsNoClimb == Spelling!Blank # ".."
  BY Zenon DEF Spelling!Blank
LEMMA DotIsNoBlank == "." # Spelling!Blank
  BY Zenon DEF Spelling!Blank

(* The components, one segment after the other. *)
LEMMA ComponentsGrow ==
  ASSUME NEW X
  PROVE  /\ Spelling!Components(<<>>) = <<>>
         /\ \A s \in Seq(X), e \in X :
              Spelling!Components(Append(s, e)) = Spelling!Named(Spelling!Components(s), e)
         /\ \A s \in Seq(X) : Spelling!Components(s) \in Seq(X)
<1> DEFINE V == Seq(X)
           op == [ve \in V \X X |-> Spelling!Named(ve[1], ve[2])]
           fold == [s \in Seq(X) |-> Spelling!Components(s)]
<1>1. <<>> \in V /\ \A v \in V, e \in X : Spelling!Named(v, e) \in V
  BY AppendProperties DEF Spelling!Named
<1>2. op \in [V \X X -> V] /\ \A v \in V, e \in X : op[<<v, e>>] = Spelling!Named(v, e)
  BY <1>1
<1>3. <<>> \in Seq(X) /\ \A s \in Seq(X), e \in X : Append(s, e) \in Seq(X)
  BY AppendProperties
<1>4. \A s \in Seq(X) : fold[s] = Spelling!Components(s)
  OBVIOUS
<1> HIDE DEF op, V, fold
<1>5. ASSUME NEW s \in Seq(X)
      PROVE  \E h : Folds(h, <<>>, op, V, s) /\ fold[s] = h[1..Len(s)]
  <2> DEFINE N == Len(s)
             h == CHOOSE k : k = [T \in SUBSET (1..N) |->
                    IF T = {} THEN <<>> ELSE Spelling!Named(k[T \ {Top(T)}], s[Top(T)])]
  <2>1. N \in Nat /\ DOMAIN s = 1..N /\ \A n \in 1..N : s[n] \in X
    BY ElementOfSeq, LenProperties
  <2>2. Spelling!Components(s) = h[1..N]
    <3>1. \A T : Spelling!Max(T) = Top(T)
      BY DEF Spelling!Max, Top
    <3>2. Spelling!Components(s) = (CHOOSE k : k = [T \in SUBSET DOMAIN s |->
           IF T = {} THEN <<>> ELSE Spelling!Named(k[T \ {Top(T)}], s[Top(T)])])[DOMAIN s]
      BY <3>1 DEF Spelling!Components, Spelling!FoldLeft, Spelling!MapThenFoldSet
    <3> QED
      BY <3>2, <2>1
  <2>3. PICK k \in [SUBSET (1..N) -> V] : Folds(k, <<>>, op, V, s)
    BY <1>1, <1>2, FoldOfSeq
  <2> HIDE DEF N
  <2>4. \A T \in SUBSET (1..N) : T # {} => Top(T) \in 1..N
    BY <2>1, TopIsGreatest
  <2>5. k = [T \in SUBSET (1..N) |-> IF T = {} THEN <<>> ELSE Spelling!Named(k[T \ {Top(T)}], s[Top(T)])]
    <3>1. ASSUME NEW T \in SUBSET (1..N), T # {} PROVE k[T] = Spelling!Named(k[T \ {Top(T)}], s[Top(T)])
      BY <1>2, <2>1, <2>3, <2>4, <3>1 DEF Folds, N
    <3> QED
      BY <2>3, <3>1 DEF Folds, N
  <2>6. h = [T \in SUBSET (1..N) |-> IF T = {} THEN <<>> ELSE Spelling!Named(h[T \ {Top(T)}], s[Top(T)])]
    BY <2>5
  <2> HIDE DEF h
  <2>7. Folds(h, <<>>, op, V, s)
    BY <1>2, <2>1, <2>4, <2>6 DEF Folds, N
  <2> QED
    BY <1>4, <2>2, <2>7 DEF N
<1>6. FoldsBy(fold, <<>>, op, V, X)
  BY <1>1, <1>2, <1>5 DEF FoldsBy
<1>7. /\ fold[<<>>] = <<>>
      /\ \A s \in Seq(X), e \in X : fold[Append(s, e)] = op[<<fold[s], e>>]
      /\ \A s \in Seq(X) : fold[s] \in V
  BY <1>6, FoldSteps
<1>8. Spelling!Components(<<>>) = <<>>
  BY <1>3, <1>4, <1>7
<1>9. ASSUME NEW s \in Seq(X), NEW e \in X
      PROVE  Spelling!Components(Append(s, e)) = Spelling!Named(Spelling!Components(s), e)
  <2>1. Append(s, e) \in Seq(X) /\ fold[s] \in V
    BY <1>3, <1>7
  <2> QED
    BY <2>1, <1>2, <1>4, <1>7
<1>10. \A s \in Seq(X) : Spelling!Components(s) \in V
  BY <1>4, <1>7
<1> QED
  BY <1>8, <1>9, <1>10 DEF V

(* Without a climb, a walk takes the names as the components do. *)
Flat == Spelling!Names \cup {Spelling!Blank, "."}

LEMMA StepsAreNames ==
  ASSUME Spelling!NamesAreNames
  PROVE  \A v \in Seq(Spelling!Names), x \in Flat :
           Spelling!Step(v, x) = Spelling!Named(v, x) /\ Spelling!Step(v, x) \in Seq(Spelling!Names)
<1> SUFFICES ASSUME NEW v \in Seq(Spelling!Names), NEW x \in Flat
             PROVE  Spelling!Step(v, x) = Spelling!Named(v, x) /\ Spelling!Step(v, x) \in Seq(Spelling!Names)
  OBVIOUS
<1>1. v # Spelling!Outside
  <2>1. v = <<"..">> => v[1] = ".." /\ Len(v) = 1
    OBVIOUS
  <2>2. Len(v) = 1 => v[1] \in Spelling!Names
    BY ElementOfSeq
  <2>3. ".." \notin Spelling!Names
    BY DEF Spelling!NamesAreNames
  <2> QED
    BY <2>1, <2>2, <2>3 DEF Spelling!Outside
<1>2. x # ".."
  BY BlankIsNoClimb DEF Flat, Spelling!NamesAreNames
<1>3. x \in {Spelling!Blank, "."} \/ (x \notin {Spelling!Blank, "."} /\ x \in Spelling!Names)
  BY DEF Flat
<1> QED
  BY <1>1, <1>2, <1>3, AppendProperties DEF Spelling!Step, Spelling!Named

(* A walk without climbs, one segment after the other. *)
LEMMA WalkGrows ==
  ASSUME Spelling!NamesAreNames
  PROVE  /\ Spelling!Walk(<<>>) = <<>>
         /\ \A s \in Seq(Flat), e \in Flat :
              Spelling!Walk(Append(s, e)) = Spelling!Step(Spelling!Walk(s), e)
         /\ \A s \in Seq(Flat) : Spelling!Walk(s) \in Seq(Spelling!Names)
<1> DEFINE V == Seq(Spelling!Names)
           X == Flat
           op == [ve \in V \X X |-> Spelling!Step(ve[1], ve[2])]
           fold == [s \in Seq(X) |-> Spelling!Walk(s)]
<1>1. <<>> \in V /\ \A v \in V, e \in X : Spelling!Step(v, e) \in V
  BY StepsAreNames
<1>2. op \in [V \X X -> V] /\ \A v \in V, e \in X : op[<<v, e>>] = Spelling!Step(v, e)
  BY <1>1
<1>3. <<>> \in Seq(X) /\ \A s \in Seq(X), e \in X : Append(s, e) \in Seq(X)
  BY AppendProperties
<1>4. \A s \in Seq(X) : fold[s] = Spelling!Walk(s)
  OBVIOUS
<1> HIDE DEF op, V, X, fold
<1>5. ASSUME NEW s \in Seq(X)
      PROVE  \E h : Folds(h, <<>>, op, V, s) /\ fold[s] = h[1..Len(s)]
  <2> DEFINE N == Len(s)
             h == CHOOSE k : k = [T \in SUBSET (1..N) |->
                    IF T = {} THEN <<>> ELSE Spelling!Step(k[T \ {Top(T)}], s[Top(T)])]
  <2>1. N \in Nat /\ DOMAIN s = 1..N /\ \A n \in 1..N : s[n] \in X
    BY ElementOfSeq, LenProperties
  <2>2. Spelling!Walk(s) = h[1..N]
    <3>1. \A T : Spelling!Max(T) = Top(T)
      BY DEF Spelling!Max, Top
    <3>2. Spelling!Walk(s) = (CHOOSE k : k = [T \in SUBSET DOMAIN s |->
           IF T = {} THEN <<>> ELSE Spelling!Step(k[T \ {Top(T)}], s[Top(T)])])[DOMAIN s]
      BY <3>1 DEF Spelling!Walk, Spelling!FoldLeft, Spelling!MapThenFoldSet
    <3> QED
      BY <3>2, <2>1
  <2>3. PICK k \in [SUBSET (1..N) -> V] : Folds(k, <<>>, op, V, s)
    BY <1>1, <1>2, FoldOfSeq
  <2> HIDE DEF N
  <2>4. \A T \in SUBSET (1..N) : T # {} => Top(T) \in 1..N
    BY <2>1, TopIsGreatest
  <2>5. k = [T \in SUBSET (1..N) |-> IF T = {} THEN <<>> ELSE Spelling!Step(k[T \ {Top(T)}], s[Top(T)])]
    <3>1. ASSUME NEW T \in SUBSET (1..N), T # {} PROVE k[T] = Spelling!Step(k[T \ {Top(T)}], s[Top(T)])
      BY <1>2, <2>1, <2>3, <2>4, <3>1 DEF Folds, N
    <3> QED
      BY <2>3, <3>1 DEF Folds, N
  <2>6. h = [T \in SUBSET (1..N) |-> IF T = {} THEN <<>> ELSE Spelling!Step(h[T \ {Top(T)}], s[Top(T)])]
    BY <2>5
  <2> HIDE DEF h
  <2>7. Folds(h, <<>>, op, V, s)
    BY <1>2, <2>1, <2>4, <2>6 DEF Folds, N
  <2> QED
    BY <1>4, <2>2, <2>7 DEF N
<1>6. FoldsBy(fold, <<>>, op, V, X)
  BY <1>1, <1>2, <1>5 DEF FoldsBy
<1>7. /\ fold[<<>>] = <<>>
      /\ \A s \in Seq(X), e \in X : fold[Append(s, e)] = op[<<fold[s], e>>]
      /\ \A s \in Seq(X) : fold[s] \in V
  BY <1>6, FoldSteps
<1>8. Spelling!Walk(<<>>) = <<>>
  BY <1>3, <1>4, <1>7
<1>9. ASSUME NEW s \in Seq(X), NEW e \in X
      PROVE  Spelling!Walk(Append(s, e)) = Spelling!Step(Spelling!Walk(s), e)
  <2>1. Append(s, e) \in Seq(X) /\ fold[s] \in V
    BY <1>3, <1>7
  <2> QED
    BY <2>1, <1>2, <1>4, <1>7
<1>10. \A s \in Seq(X) : Spelling!Walk(s) \in V
  BY <1>4, <1>7
<1> QED
  BY <1>8, <1>9, <1>10 DEF V, X

LEMMA FlatWalk ==
  ASSUME Spelling!NamesAreNames, NEW s \in Seq(Flat)
  PROVE  Spelling!Walk(s) = Spelling!Components(s) /\ Spelling!Components(s) \in Seq(Spelling!Names)
<1> DEFINE G == {t \in Seq(Flat) : Spelling!Walk(t) = Spelling!Components(t)
                                   /\ Spelling!Components(t) \in Seq(Spelling!Names)}
<1>1. <<>> \in G
  <2>1. <<>> \in Seq(Flat) /\ <<>> \in Seq(Spelling!Names)
    OBVIOUS
  <2>2. Spelling!Walk(<<>>) = <<>> /\ Spelling!Components(<<>>) = <<>>
    BY WalkGrows, ComponentsGrow
  <2> QED
    BY <2>1, <2>2
<1>2. ASSUME NEW t \in Seq(Flat), NEW x \in Flat, t \in G PROVE Append(t, x) \in G
  <2>1. Append(t, x) \in Seq(Flat)
    BY AppendProperties
  <2>2. Spelling!Walk(Append(t, x)) = Spelling!Step(Spelling!Walk(t), x)
    BY WalkGrows
  <2>3. Spelling!Components(Append(t, x)) = Spelling!Named(Spelling!Components(t), x)
    BY ComponentsGrow
  <2> QED
    BY <1>2, <2>1, <2>2, <2>3, StepsAreNames
<1> HIDE DEF G
<1>3. Seq(Flat) \subseteq G
  BY <1>1, <1>2, SeqInduction
<1> QED
  BY <1>3 DEF G

LEMMA NamesStand ==
  ASSUME Spelling!NamesAreNames, NEW s \in Seq(Spelling!Names)
  PROVE  Spelling!Components(s) = s
<1> DEFINE X == Spelling!Names
           G == {t \in Seq(X) : Spelling!Components(t) = t}
<1>1. <<>> \in G
  <2>1. <<>> \in Seq(X)
    OBVIOUS
  <2> QED
    BY <2>1, ComponentsGrow
<1>2. ASSUME NEW t \in Seq(X), NEW x \in X, t \in G PROVE Append(t, x) \in G
  <2>1. Append(t, x) \in Seq(X)
    BY AppendProperties
  <2>2. Spelling!Components(Append(t, x)) = Spelling!Named(Spelling!Components(t), x)
    BY ComponentsGrow
  <2>3. x \notin {Spelling!Blank, "."}
    BY DEF Spelling!NamesAreNames
  <2> QED
    BY <1>2, <2>1, <2>2, <2>3 DEF Spelling!Named
<1> HIDE DEF G, X
<1>3. Seq(X) \subseteq G
  BY <1>1, <1>2, SeqInduction
<1> QED
  BY <1>3 DEF G, X

(* What has no components climbs nowhere. *)
LEMMA NothingNamed ==
  ASSUME NEW s \in Seq(Spelling!Segments), Spelling!Components(s) = <<>>
  PROVE  ~Spelling!Has(s, {".."})
<1> DEFINE X == Spelling!Segments
           G == {t \in Seq(X) : Spelling!Components(t) = <<>> => \A m \in 1..Len(t) : t[m] # ".."}
<1>1. <<>> \in G
  OBVIOUS
<1>2. ASSUME NEW t \in Seq(X), NEW x \in X, t \in G PROVE Append(t, x) \in G
  <2>1. /\ Append(t, x) \in Seq(X) /\ Len(Append(t, x)) = Len(t) + 1 /\ Append(t, x)[Len(t) + 1] = x
        /\ \A m \in 1..Len(t) : Append(t, x)[m] = t[m]
    BY AppendProperties
  <2>2. Spelling!Components(Append(t, x)) = Spelling!Named(Spelling!Components(t), x)
        /\ Spelling!Components(t) \in Seq(X)
    BY ComponentsGrow
  <2>3. Spelling!Components(Append(t, x)) = <<>> => x \in {Spelling!Blank, "."} /\ Spelling!Components(t) = <<>>
    <3>1. Append(Spelling!Components(t), x) # <<>>
      BY <2>2, AppendProperties
    <3> QED
      BY <2>2, <3>1 DEF Spelling!Named
  <2>4. Len(t) \in Nat
    BY LenProperties
  <2>5. ASSUME Spelling!Components(Append(t, x)) = <<>>, NEW m \in 1..(Len(t) + 1)
        PROVE  Append(t, x)[m] # ".."
    <3>1. CASE m = Len(t) + 1
      BY <2>1, <2>3, <2>5, <3>1, BlankIsNoClimb
    <3>2. CASE m \in 1..Len(t)
      <4>1. t[m] # ".."
        BY <1>2, <2>3, <2>5, <3>2
      <4> QED
        BY <2>1, <3>2, <4>1
    <3> QED
      BY <2>4, <3>1, <3>2
  <2> QED
    BY <2>1, <2>5
<1> HIDE DEF G, X
<1>3. Seq(X) \subseteq G
  BY <1>1, <1>2, SeqInduction
<1> QED
  BY <1>3, LenProperties DEF G, X, Spelling!Has

(* What an accepted spelling means. *)
LEMMA Accepted ==
  ASSUME Spelling!NamesAreNames, NEW s \in Seq(Spelling!Segments), s # <<>>,
         ~Spelling!Absolute(s), ~Spelling!Has(s, {".."})
  PROVE  LET parts == Spelling!Components(s)
         IN /\ parts \in Seq(Spelling!Names) /\ parts # Spelling!Outside
            /\ Spelling!Meant(s) = parts /\ Spelling!Meant(parts) = parts
<1> DEFINE parts == Spelling!Components(s)
<1>1. s \in Seq(Flat)
  <2>1. \A m \in 1..Len(s) : s[m] \in Flat
    <3>1. \A m \in 1..Len(s) : s[m] \in Spelling!Segments /\ s[m] # ".."
      BY ElementOfSeq DEF Spelling!Has
    <3> QED
      BY <3>1 DEF Flat, Spelling!Segments
  <2> QED
    BY <2>1, SeqDef
<1>2. parts \in Seq(Spelling!Names) /\ Spelling!Meant(s) = parts
  BY <1>1, FlatWalk DEF Spelling!Meant
<1> HIDE DEF parts
<1>3. Spelling!Components(parts) = parts
  BY <1>2, NamesStand
<1>4. parts \in Seq(Flat)
  <2>1. \A m \in 1..Len(parts) : parts[m] \in Flat
    BY <1>2, ElementOfSeq DEF Flat
  <2> QED
    BY <1>2, <2>1, SeqDef
<1>5. Spelling!Walk(parts) = parts
  BY <1>3, <1>4, FlatWalk
<1>6. ASSUME parts # <<>> PROVE parts[1] \in Spelling!Names
  <2>1. Len(parts) # 0 /\ Len(parts) \in Nat
    BY <1>2, <1>6, EmptySeq, LenProperties
  <2> QED
    BY <1>2, <2>1, ElementOfSeq
<1>7. ~(parts # <<>> /\ Spelling!Absolute(parts)) /\ parts # Spelling!Outside
  <2>1. Spelling!Blank \notin Spelling!Names /\ ".." \notin Spelling!Names
    BY DEF Spelling!NamesAreNames
  <2>2. Spelling!Outside # <<>> /\ Spelling!Outside[1] = ".."
    BY DEF Spelling!Outside
  <2> QED
    BY <1>6, <2>1, <2>2 DEF Spelling!Absolute
<1> QED
  BY <1>2, <1>5, <1>7 DEF parts, Spelling!Meant

(* Trailing empty segments name nothing. *)
LEMMA TrailingSlashes ==
  ASSUME NEW X, NEW s \in Seq(X), NEW k \in 0..Len(s), \A m \in (k + 1)..Len(s) : s[m] = Spelling!Blank
  PROVE  Spelling!Components(SubSeq(s, 1, k)) = Spelling!Components(s)
<1> DEFINE N == Len(s)
           S == {n \in Nat : Spelling!Components(SubSeq(s, 1, k)) = Spelling!Components(SubSeq(s, 1, k + n))}
<1>1. N \in Nat /\ k \in Nat /\ k <= N
  BY LenProperties
<1>2. 0 \in S
  BY <1>1
<1>3. ASSUME NEW n \in 0..((N - k) - 1), n \in S PROVE n + 1 \in S
  <2> DEFINE j == k + n
  <2>1. j \in 0..N /\ j + 1 \in 1..N /\ j + 1 \in (k + 1)..N /\ k + (n + 1) = j + 1 /\ n + 1 \in Nat
    BY <1>1
  <2>2. s[j + 1] = Spelling!Blank /\ s[j + 1] \in X
    BY <2>1, ElementOfSeq
  <2> HIDE DEF j, N
  <2>3. SubSeq(s, 1, j + 1) = Append(SubSeq(s, 1, j), s[j + 1]) /\ SubSeq(s, 1, j) \in Seq(X)
    BY <2>1, PrefixGrows DEF N
  <2>4. Spelling!Components(SubSeq(s, 1, j + 1)) = Spelling!Named(Spelling!Components(SubSeq(s, 1, j)), s[j + 1])
    BY <2>2, <2>3, ComponentsGrow
  <2>5. Spelling!Components(SubSeq(s, 1, j + 1)) = Spelling!Components(SubSeq(s, 1, j))
    BY <2>2, <2>4 DEF Spelling!Named
  <2> QED
    BY <2>1, <2>5, <1>3 DEF j
<1>4. N - k \in Nat
  BY <1>1
<1> HIDE DEF S
<1>5. 0..(N - k) \subseteq S
  BY <1>2, <1>3, <1>4, InductionTo
<1>6. Spelling!Components(SubSeq(s, 1, k)) = Spelling!Components(SubSeq(s, 1, N))
  <2>1. N - k \in S /\ k + (N - k) = N
    BY <1>1, <1>4, <1>5
  <2> QED
    BY <2>1 DEF S
<1>7. SubSeq(s, 1, N) = s
  BY WholeSeq DEF N
<1> QED
  BY <1>6, <1>7

(* git_prefixes: what is left of an accepted prefix means what the prefix meant. *)
LEMMA PrefixMeant ==
  ASSUME Spelling!NamesAreNames, NEW s \in Seq(Spelling!Segments), s # <<>>,
         Spelling!Trimmed(s) # Spelling!Empty, Spelling!Normal(Spelling!Trimmed(s))
  PROVE  Spelling!Meant(Spelling!Trimmed(s)) = Spelling!Meant(s) /\ Spelling!Meant(s) # Spelling!Outside
<1> DEFINE kept == {m \in DOMAIN s : s[m] # Spelling!Blank}
           k == CHOOSE m \in kept : \A j \in kept : j <= m
           t == SubSeq(s, 1, k)
<1>1. Len(s) \in Nat /\ Len(s) # 0 /\ DOMAIN s = 1..Len(s) /\ \A m \in 1..Len(s) : s[m] \in Spelling!Segments
  BY EmptySeq, LenProperties, ElementOfSeq
<1>2. kept # {} /\ Spelling!Trimmed(s) = t
  BY DEF Spelling!Trimmed
<1>3. k \in kept /\ \A j \in kept : j <= k
  <2>1. kept \in SUBSET (0..Len(s))
    BY <1>1
  <2>2. \E x \in kept : \A y \in kept : x >= y
    BY <1>1, <1>2, <2>1, Greatest
  <2>3. \E x \in kept : \A y \in kept : y <= x
    BY <1>1, <2>2
  <2> QED
    BY <2>3
<1> HIDE DEF k
<1>4. k \in 1..Len(s) /\ s[k] # Spelling!Blank /\ \A m \in (k + 1)..Len(s) : s[m] = Spelling!Blank
  BY <1>1, <1>3
<1>5. t \in Seq(Spelling!Segments) /\ Len(t) = k /\ \A m \in 1..k : t[m] = s[m]
  BY <1>4, <1>1, PrefixOfSeq
<1> HIDE DEF t, kept
<1>6. t # <<>> /\ ~Spelling!Absolute(t) /\ ~Spelling!Has(t, {".."})
  <2>1. Len(t) # 0
    BY <1>4, <1>5
  <2>2. t # <<>>
    BY <2>1
  <2> QED
    BY <1>2, <2>2 DEF Spelling!Normal
<1>7. ~Spelling!Absolute(s)
  <2> SUFFICES ASSUME s[1] = Spelling!Blank PROVE FALSE
    BY DEF Spelling!Absolute
  <2>1. t[1] = Spelling!Blank /\ k # 1 /\ Len(t) > 1
    BY <1>1, <1>4, <1>5
  <2> QED
    BY <2>1, <1>6 DEF Spelling!Absolute
<1>8. ~Spelling!Has(s, {".."})
  <2> SUFFICES ASSUME NEW m \in 1..Len(s), s[m] = ".." PROVE FALSE
    BY <1>1 DEF Spelling!Has
  <2>1. m \in 1..k
    BY <1>1, <1>4, BlankIsNoClimb
  <2>2. t[m] = ".." /\ m \in DOMAIN t
    BY <2>1, <1>5, LenProperties
  <2> QED
    BY <2>2, <1>6 DEF Spelling!Has
<1>9. Spelling!Components(t) = Spelling!Components(s)
  BY <1>1, <1>4, TrailingSlashes DEF t
<1> QED
  BY <1>2, <1>5, <1>6, <1>7, <1>8, <1>9, Accepted

(* Every rule's answer names the caller's entry, and the textual ones spell it one way. *)
OneEntry(r, s, a) == /\ Spelling!Meant(a) = Spelling!Meant(s) /\ Spelling!Meant(a) # Spelling!Outside
                     /\ r \in Spelling!Texts => a = Spelling!Meant(s)

LEMMA AnswersNameOneEntry ==
  ASSUME Spelling!NamesAreNames, NEW s \in Seq(Spelling!Segments), s # <<>>,
         NEW r \in Spelling!Rules, Spelling!Answer(r, s) # None
  PROVE  OneEntry(r, s, Spelling!Answer(r, s))
<1> DEFINE parts == Spelling!Components(s)
           a == Spelling!Answer(r, s)
<1>1. ASSUME ~Spelling!Absolute(s), ~Spelling!Has(s, {".."})
      PROVE  Spelling!Meant(s) = parts /\ Spelling!Meant(parts) = parts /\ parts # Spelling!Outside
  BY <1>1, Accepted
<1> HIDE DEF parts
<1>2. ASSUME ~Spelling!Absolute(s), ~Spelling!Has(s, {".."}), a = parts
      PROVE  OneEntry(r, s, a)
  BY <1>1, <1>2 DEF OneEntry
<1>3. ASSUME ~Spelling!Absolute(s), ~Spelling!Has(s, {".."}), a = s, r \in Spelling!Texts => parts = s
      PROVE  OneEntry(r, s, a)
  BY <1>1, <1>3 DEF OneEntry
<1>4. CASE r = "guarded file"
  BY <1>2, <1>4 DEF Spelling!Answer, Spelling!GuardedFilePath, Spelling!If, Spelling!Normal, parts
<1>5. CASE r = "executable"
  BY <1>2, <1>5 DEF Spelling!Answer, Spelling!ExecutablePath, Spelling!If, Spelling!Normal, parts
<1>6. CASE r = "directory"
  <2>1. CASE Spelling!CurDir(s) /\ parts = <<>>
    <3>1. ~Spelling!Absolute(s)
      BY <2>1, DotIsNoBlank DEF Spelling!CurDir, Spelling!Absolute
    <3>2. ~Spelling!Has(s, {".."})
      BY <2>1, NothingNamed DEF parts
    <3>3. a = parts
      BY <1>6, <2>1 DEF Spelling!Answer, Spelling!DirectoryPath, parts
    <3> QED
      BY <1>2, <3>1, <3>2, <3>3
  <2>2. CASE ~(Spelling!CurDir(s) /\ parts = <<>>)
    BY <1>2, <1>6, <2>2 DEF Spelling!Answer, Spelling!DirectoryPath, Spelling!If, Spelling!Normal, parts
  <2> QED
    BY <2>1, <2>2
<1>7. CASE r = "journal"
  BY <1>2, <1>7 DEF Spelling!Answer, Spelling!JournalPath, Spelling!If, Spelling!Normal, parts
<1>8. CASE r = "git"
  BY <1>3, <1>8 DEF Spelling!Answer, Spelling!GitPath, Spelling!GitShape, Spelling!If, Spelling!Normal,
                    Spelling!Texts
<1>9. CASE r = "git prefix"
  <2> DEFINE t == Spelling!Trimmed(s)
  <2>1. a = t /\ t # Spelling!Empty /\ Spelling!Normal(t)
    <3>1. a = Spelling!GitPrefix(s)
      BY <1>9 DEF Spelling!Answer
    <3>2. t # Spelling!Empty /\ a = Spelling!GitPath(t)
      BY <3>1 DEF Spelling!GitPrefix
    <3> HIDE DEF t
    <3> QED
      BY <3>2 DEF Spelling!GitPath, Spelling!GitShape, Spelling!If
  <2>2. r \notin Spelling!Texts
    BY <1>9 DEF Spelling!Texts
  <2>3. Spelling!Meant(t) = Spelling!Meant(s) /\ Spelling!Meant(s) # Spelling!Outside
    BY <2>1, PrefixMeant
  <2> HIDE DEF t
  <2> QED
    BY <2>1, <2>2, <2>3 DEF OneEntry
<1>10. CASE r = "worktree"
  BY <1>3, <1>10 DEF Spelling!Answer, Spelling!WorktreePath, Spelling!If, Spelling!Normal, Spelling!AsSpelled, parts
<1>11. CASE r = "selector"
  BY <1>3, <1>11 DEF Spelling!Answer, Spelling!Selector, Spelling!If, Spelling!Normal, Spelling!AsSpelled, parts
<1>12. CASE r = "task"
  BY <1>2, <1>12 DEF Spelling!Answer, Spelling!TaskPath, Spelling!If, Spelling!Normal, parts
<1>13. CASE r = "working directory"
  BY <1>2, <1>13 DEF Spelling!Answer, Spelling!WorkingDirectory, Spelling!If, parts
<1>14. CASE r = "new directory"
  BY <1>2, <1>14 DEF Spelling!Answer, Spelling!NewDirectory, Spelling!If, parts
<1> QED
  BY <1>4, <1>5, <1>6, <1>7, <1>8, <1>9, <1>10, <1>11, <1>12, <1>13, <1>14 DEF Spelling!Rules

(* The journal records the name the edit acts on, and the two accept the same paths. *)
LEMMA AnswersAreJournalled ==
  ASSUME NEW s, NEW r \in {"guarded file", "executable", "worktree", "selector", "task"}
  PROVE  LET a == Spelling!Answer(r, s)
             j == Spelling!JournalPath(s)
         IN /\ a # None => a = j
            /\ r \in {"guarded file", "executable"} => (a = None <=> j = None)
<1> USE DEF Spelling!Answer, Spelling!JournalPath, Spelling!If, Spelling!AsSpelled
<1>1. CASE r = "guarded file"
  BY <1>1 DEF Spelling!GuardedFilePath
<1>2. CASE r = "executable"
  BY <1>2 DEF Spelling!ExecutablePath
<1>3. CASE r = "worktree"
  BY <1>3 DEF Spelling!WorktreePath
<1>4. CASE r = "selector"
  BY <1>4 DEF Spelling!Selector
<1>5. CASE r = "task"
  BY <1>5 DEF Spelling!TaskPath
<1> QED
  BY <1>1, <1>2, <1>3, <1>4, <1>5

(* A request has a spelling, and the rule it meets answers it. *)
SpellingInv ==
  /\ raw \in Seq(Spelling!Segments) /\ raw # <<>>
  /\ rule \in Spelling!Rules
  /\ answer = "none yet" \/ answer = <<Spelling!Answer(rule, raw)>>

LEMMA SpellingsAreSequences ==
  ASSUME Spelling!ConstantsAreSane, NEW s \in Spelling!Spellings
  PROVE  s \in Seq(Spelling!Segments) /\ s # <<>>
<1>1. PICK n \in 1..MaxLength : s \in [1..n -> Spelling!Segments]
  BY DEF Spelling!Spellings
<1>2. n \in Nat /\ n # 0
  BY <1>1 DEF Spelling!ConstantsAreSane
<1>3. s \in Seq(Spelling!Segments) /\ Len(s) = n
  BY <1>1, <1>2, SeqDef, LenProperties
<1> QED
  BY <1>2, <1>3

LEMMA SpellingStays ==
  ASSUME SpellingInv, Spelling!Next \/ UNCHANGED spellings
  PROVE  SpellingInv'
<1>1. CASE Spelling!Next
  BY <1>1 DEF Spelling!Next, Spelling!Check, SpellingInv
<1>2. CASE UNCHANGED spellings
  BY <1>2 DEF spellings, SpellingInv
<1> QED
  BY <1>1, <1>2

LEMMA SpellingsAreAnswered ==
  ASSUME SpellingInv
  PROVE  Spelling!NamesOneEntry /\ Spelling!JournalSpeaksForEdits
<1> DEFINE found == Spelling!Answer(rule, raw)
<1>1. SpellingInv /\ Spelling!NamesAreNames
  BY PartsAreSane DEF Spelling!ConstantsAreSane
<1>2. ASSUME answer = <<found>>, found # None PROVE OneEntry(rule, raw, found)
  BY <1>1, <1>2, AnswersNameOneEntry DEF SpellingInv
<1>3. ASSUME answer = <<found>>, rule \in {"guarded file", "executable", "worktree", "selector", "task"}
      PROVE  /\ found # None => found = Spelling!JournalPath(raw)
             /\ rule \in {"guarded file", "executable"} => (found = None <=> Spelling!JournalPath(raw) = None)
  BY <1>3, AnswersAreJournalled
<1>4. answer = "none yet" \/ answer = <<found>>
  BY <1>1 DEF SpellingInv
<1> HIDE DEF found
<1>5. CASE answer = "none yet"
  BY <1>5 DEF Spelling!NamesOneEntry, Spelling!JournalSpeaksForEdits
<1>6. CASE answer = <<found>>
  <2>1. answer[1] = found /\ (answer = <<None>> <=> found = None)
    BY <1>6
  <2>2. Spelling!NamesOneEntry
    BY <1>2, <1>6, <2>1 DEF Spelling!NamesOneEntry, OneEntry
  <2>3. Spelling!JournalSpeaksForEdits
    <3>1. CASE rule \notin {"guarded file", "executable", "worktree", "selector", "task"}
      BY <3>1 DEF Spelling!JournalSpeaksForEdits
    <3>2. CASE rule \in {"guarded file", "executable", "worktree", "selector", "task"}
      <4> DEFINE recorded == Spelling!JournalPath(raw)
      <4>1. /\ found # None => found = recorded
            /\ rule \in {"guarded file", "executable"} => (found = None <=> recorded = None)
        BY <1>3, <1>6, <3>2
      <4> HIDE DEF recorded
      <4>2. /\ answer # <<None>> => answer = <<recorded>>
            /\ rule \in {"guarded file", "executable"} => (answer = <<None>> <=> recorded = None)
        BY <1>6, <2>1, <4>1
      <4> QED
        BY <4>2 DEF Spelling!JournalSpeaksForEdits, recorded
    <3> QED
      BY <3>1, <3>2
  <2> QED
    BY <2>2, <2>3
<1> QED
  BY <1>4, <1>5, <1>6

SpellingsInv == part = "spelling" => SpellingInv

(* However a path is spelled, a rule that accepts it hands on a spelling of the entry the   *)
(* caller named, beneath the root, and the rules whose answers are compared as text spell   *)
(* an entry one way; the journal records the name the edit has for it (the normalize_...    *)
(* functions of guarded_file, executable, journal, guarded_path, task_image and directory). *)
THEOREM SpellingsNameOneEntry == MCSpec => []NamesOneEntry
<1>1. MCInit => SpellingsInv
  <2> SUFFICES ASSUME Spelling!Init PROVE SpellingInv
    BY DEF MCInit, SpellingsInv
  <2> QED
    BY SpellingsAreSequences, PartsAreSane DEF Spelling!Init, SpellingInv
<1>2. SpellingsInv /\ [MCNext]_everything => SpellingsInv'
  BY EachPartAlone, SpellingStays DEF SpellingsInv
<1>3. SpellingsInv => NamesOneEntry
  BY SpellingsAreAnswered DEF SpellingsInv, NamesOneEntry
<1> QED
  BY <1>1, <1>2, <1>3, PTL DEF MCSpec

-----------------------------------------------------------------------------
(* GitOutput. *)
Valid == {r \in Output!Changes : Output!IsChange(r)}
Fields == [kind : Output!Kinds \cup {None}, path : Reported \cup {None}]
Recs == [kind : Output!Kinds \cup {None}, path : Reported \cup {None, Unchanged}, from : Reported \cup {None}]
Streams == {acc \in [ok : BOOLEAN, recs : Seq(Recs), open : BOOLEAN] : acc.open => Len(acc.recs) # 0}
Gatherings == [paths : SUBSET (Reported \cup {None}), left : Nat]

LEMMA ValidChange ==
  ASSUME NEW r \in Valid
  PROVE  /\ r.kind \in Output!Kinds /\ r.path \in Reported /\ r = [kind |-> r.kind, path |-> r.path, from |-> r.from]
         /\ IF Output!Doubled(r.kind) THEN r.from \in Reported ELSE r.from = None
  BY DEF Valid, Output!Changes, Output!IsChange

LEMMA EntryIsTyped == \A v \in Seq(Fields), r \in Valid : Output!Entry(v, r) \in Seq(Fields)
<1> SUFFICES ASSUME NEW v \in Seq(Fields), NEW r \in Valid PROVE Output!Entry(v, r) \in Seq(Fields)
  OBVIOUS
<1> DEFINE field == [kind |-> r.kind, path |-> r.path]
           longer == Append(v, field)
<1>1. field \in Fields /\ (Output!Doubled(r.kind) => Output!Bare(r.from) \in Fields)
  BY ValidChange DEF Fields, Output!Bare
<1> HIDE DEF field
<1>2. longer \in Seq(Fields)
  BY <1>1, AppendProperties
<1> HIDE DEF longer
<1>3. Output!Doubled(r.kind) => Append(longer, Output!Bare(r.from)) \in Seq(Fields)
  BY <1>1, <1>2, AppendProperties
<1> QED
  BY <1>2, <1>3 DEF Output!Entry, longer, field

LEMMA LetteredIsTyped == \A v \in Seq(Fields), r \in Valid : Output!Lettered(v, r) \in Seq(Fields)
<1> SUFFICES ASSUME NEW v \in Seq(Fields), NEW r \in Valid PROVE Output!Lettered(v, r) \in Seq(Fields)
  OBVIOUS
<1> DEFINE letters == Append(v, [kind |-> r.kind, path |-> None])
           more == IF Output!Doubled(r.kind) THEN Append(letters, Output!Bare(r.from)) ELSE letters
<1>1. /\ [kind |-> r.kind, path |-> None] \in Fields /\ Output!Bare(r.path) \in Fields
      /\ Output!Doubled(r.kind) => Output!Bare(r.from) \in Fields
  BY ValidChange DEF Fields, Output!Bare
<1>2. letters \in Seq(Fields)
  BY <1>1, AppendProperties
<1> HIDE DEF letters
<1>3. more \in Seq(Fields)
  BY <1>1, <1>2, AppendProperties
<1> HIDE DEF more
<1>4. Append(more, Output!Bare(r.path)) \in Seq(Fields)
  BY <1>1, <1>3, AppendProperties
<1> QED
  BY <1>4 DEF Output!Lettered, more, letters

LEMMA ShapeIsTyped ==
  ASSUME NEW g \in Fields
  PROVE  [kind |-> Output!Shape(g).kind, path |-> Output!Shape(g).path, from |-> None] \in Recs
<1>1. <<"?", "?">> \in Output!Kinds
  BY DEF Output!Kinds
<1> QED
  BY <1>1 DEF Output!Shape, Output!Bare, Fields, Recs

LEMMA ParsedIsTyped == \A acc \in Streams, g \in Fields : Output!Parsed(acc, g) \in Streams
<1> SUFFICES ASSUME NEW acc \in Streams, NEW g \in Fields, acc.ok PROVE Output!Record(acc, g) \in Streams
  BY DEF Output!Parsed
<1> DEFINE N == Len(acc.recs)
           first == [kind |-> Output!Shape(g).kind, path |-> Output!Shape(g).path, from |-> None]
<1>1. acc.ok \in BOOLEAN /\ acc.recs \in Seq(Recs) /\ N \in Nat /\ (acc.open => N # 0)
      /\ acc = [ok |-> acc.ok, recs |-> acc.recs, open |-> acc.open]
  BY LenProperties DEF Streams
<1>2. CASE acc.open
  <2> DEFINE recs == [acc.recs EXCEPT ![N].from = g.path]
  <2>1. recs \in Seq(Recs) /\ Len(recs) = N
    <3>1. N \in 1..N /\ acc.recs[N] \in Recs
      BY <1>1, <1>2, ElementOfSeq
    <3>2. [acc.recs[N] EXCEPT !.from = g.path] \in Recs
      BY <3>1 DEF Recs, Fields
    <3> QED
      BY <1>1, <3>1, <3>2, ExceptSeq
  <2> HIDE DEF recs
  <2>2. Output!Record(acc, g) = [ok |-> acc.ok, recs |-> recs, open |-> FALSE]
    BY <1>1, <1>2 DEF Output!Record, recs
  <2> QED
    BY <1>1, <2>1, <2>2 DEF Streams
<1>3. CASE ~acc.open
  <2>1. Append(acc.recs, first) \in Seq(Recs) /\ Len(Append(acc.recs, first)) = N + 1
    BY <1>1, ShapeIsTyped, AppendProperties
  <2> DEFINE open == Output!Shape(g).kind # None /\ Output!Doubled(Output!Shape(g).kind)
             ok == acc.ok /\ Output!Shape(g).kind # None
  <2>2. Output!Record(acc, g) = [ok |-> ok, recs |-> Append(acc.recs, first), open |-> open]
    BY <1>3 DEF Output!Record
  <2>3. ok \in BOOLEAN /\ open \in BOOLEAN
    OBVIOUS
  <2> HIDE DEF ok, open, first
  <2> QED
    BY <1>1, <2>1, <2>2, <2>3 DEF Streams
<1> QED
  BY <1>2, <1>3

LEMMA StagedIsTyped == \A acc \in Gatherings, g \in Fields : Output!Staged(acc, g) \in Gatherings
  BY DEF Gatherings, Fields, Output!Staged

LEMMA LongerIsTyped ==
  ASSUME Output!ConstantsAreSane
  PROVE  \A n \in Nat, r \in Valid : Output!Longer(n, r) \in Nat
<1> SUFFICES ASSUME NEW n \in Nat, NEW r \in Valid PROVE Output!Longer(n, r) \in Nat
  OBVIOUS
<1>1. NameBytes[r.path] \in Nat
  BY ValidChange DEF Output!ConstantsAreSane
<1> QED
  BY <1>1 DEF Output!Longer

(* What git status prints, one change after the other. *)
LEMMA PorcelainGrows ==
         /\ Output!Porcelain(<<>>) = <<>>
         /\ \A s \in Seq(Valid), e \in Valid :
              Output!Porcelain(Append(s, e)) = Output!Entry(Output!Porcelain(s), e)
         /\ \A s \in Seq(Valid) : Output!Porcelain(s) \in Seq(Fields)
<1> DEFINE V == Seq(Fields)
           X == Valid
           op == [ve \in V \X X |-> Output!Entry(ve[1], ve[2])]
           fold == [s \in Seq(X) |-> Output!Porcelain(s)]
<1>1. <<>> \in V /\ \A v \in V, e \in X : Output!Entry(v, e) \in V
  BY EntryIsTyped
<1>2. op \in [V \X X -> V] /\ \A v \in V, e \in X : op[<<v, e>>] = Output!Entry(v, e)
  BY <1>1
<1>3. <<>> \in Seq(X) /\ \A s \in Seq(X), e \in X : Append(s, e) \in Seq(X)
  BY AppendProperties
<1>4. \A s \in Seq(X) : fold[s] = Output!Porcelain(s)
  OBVIOUS
<1> HIDE DEF op, V, X, fold
<1>5. ASSUME NEW s \in Seq(X)
      PROVE  \E h : Folds(h, <<>>, op, V, s) /\ fold[s] = h[1..Len(s)]
  <2> DEFINE N == Len(s)
             h == CHOOSE k : k = [T \in SUBSET (1..N) |->
                    IF T = {} THEN <<>> ELSE Output!Entry(k[T \ {Top(T)}], s[Top(T)])]
  <2>1. N \in Nat /\ DOMAIN s = 1..N /\ \A n \in 1..N : s[n] \in X
    BY ElementOfSeq, LenProperties
  <2>2. Output!Porcelain(s) = h[1..N]
    <3>1. \A T : Output!Max(T) = Top(T)
      BY DEF Output!Max, Top
    <3>2. Output!Porcelain(s) = (CHOOSE k : k = [T \in SUBSET DOMAIN s |->
           IF T = {} THEN <<>> ELSE Output!Entry(k[T \ {Top(T)}], s[Top(T)])])[DOMAIN s]
      BY <3>1 DEF Output!Porcelain, Output!FoldLeft, Output!MapThenFoldSet
    <3> QED
      BY <3>2, <2>1
  <2>3. PICK k \in [SUBSET (1..N) -> V] : Folds(k, <<>>, op, V, s)
    BY <1>1, <1>2, FoldOfSeq
  <2> HIDE DEF N
  <2>4. \A T \in SUBSET (1..N) : T # {} => Top(T) \in 1..N
    BY <2>1, TopIsGreatest
  <2>5. k = [T \in SUBSET (1..N) |-> IF T = {} THEN <<>> ELSE Output!Entry(k[T \ {Top(T)}], s[Top(T)])]
    <3>1. ASSUME NEW T \in SUBSET (1..N), T # {} PROVE k[T] = Output!Entry(k[T \ {Top(T)}], s[Top(T)])
      BY <1>2, <2>1, <2>3, <2>4, <3>1 DEF Folds, N
    <3> QED
      BY <2>3, <3>1 DEF Folds, N
  <2>6. h = [T \in SUBSET (1..N) |-> IF T = {} THEN <<>> ELSE Output!Entry(h[T \ {Top(T)}], s[Top(T)])]
    BY <2>5
  <2> HIDE DEF h
  <2>7. Folds(h, <<>>, op, V, s)
    BY <1>2, <2>1, <2>4, <2>6 DEF Folds, N
  <2> QED
    BY <1>4, <2>2, <2>7 DEF N
<1>6. FoldsBy(fold, <<>>, op, V, X)
  BY <1>1, <1>2, <1>5 DEF FoldsBy
<1>7. /\ fold[<<>>] = <<>>
      /\ \A s \in Seq(X), e \in X : fold[Append(s, e)] = op[<<fold[s], e>>]
      /\ \A s \in Seq(X) : fold[s] \in V
  BY <1>6, FoldSteps
<1>8. Output!Porcelain(<<>>) = <<>>
  BY <1>3, <1>4, <1>7
<1>9. ASSUME NEW s \in Seq(X), NEW e \in X
      PROVE  Output!Porcelain(Append(s, e)) = Output!Entry(Output!Porcelain(s), e)
  <2>1. Append(s, e) \in Seq(X) /\ fold[s] \in V
    BY <1>3, <1>7
  <2> QED
    BY <2>1, <1>2, <1>4, <1>7
<1>10. \A s \in Seq(X) : Output!Porcelain(s) \in V
  BY <1>4, <1>7
<1> QED
  BY <1>8, <1>9, <1>10 DEF V, X

(* What git diff --name-status prints. *)
LEMMA NameStatusGrows ==
         /\ Output!NameStatus(<<>>) = <<>>
         /\ \A s \in Seq(Valid), e \in Valid :
              Output!NameStatus(Append(s, e)) = Output!Lettered(Output!NameStatus(s), e)
         /\ \A s \in Seq(Valid) : Output!NameStatus(s) \in Seq(Fields)
<1> DEFINE V == Seq(Fields)
           X == Valid
           op == [ve \in V \X X |-> Output!Lettered(ve[1], ve[2])]
           fold == [s \in Seq(X) |-> Output!NameStatus(s)]
<1>1. <<>> \in V /\ \A v \in V, e \in X : Output!Lettered(v, e) \in V
  BY LetteredIsTyped
<1>2. op \in [V \X X -> V] /\ \A v \in V, e \in X : op[<<v, e>>] = Output!Lettered(v, e)
  BY <1>1
<1>3. <<>> \in Seq(X) /\ \A s \in Seq(X), e \in X : Append(s, e) \in Seq(X)
  BY AppendProperties
<1>4. \A s \in Seq(X) : fold[s] = Output!NameStatus(s)
  OBVIOUS
<1> HIDE DEF op, V, X, fold
<1>5. ASSUME NEW s \in Seq(X)
      PROVE  \E h : Folds(h, <<>>, op, V, s) /\ fold[s] = h[1..Len(s)]
  <2> DEFINE N == Len(s)
             h == CHOOSE k : k = [T \in SUBSET (1..N) |->
                    IF T = {} THEN <<>> ELSE Output!Lettered(k[T \ {Top(T)}], s[Top(T)])]
  <2>1. N \in Nat /\ DOMAIN s = 1..N /\ \A n \in 1..N : s[n] \in X
    BY ElementOfSeq, LenProperties
  <2>2. Output!NameStatus(s) = h[1..N]
    <3>1. \A T : Output!Max(T) = Top(T)
      BY DEF Output!Max, Top
    <3>2. Output!NameStatus(s) = (CHOOSE k : k = [T \in SUBSET DOMAIN s |->
           IF T = {} THEN <<>> ELSE Output!Lettered(k[T \ {Top(T)}], s[Top(T)])])[DOMAIN s]
      BY <3>1 DEF Output!NameStatus, Output!FoldLeft, Output!MapThenFoldSet
    <3> QED
      BY <3>2, <2>1
  <2>3. PICK k \in [SUBSET (1..N) -> V] : Folds(k, <<>>, op, V, s)
    BY <1>1, <1>2, FoldOfSeq
  <2> HIDE DEF N
  <2>4. \A T \in SUBSET (1..N) : T # {} => Top(T) \in 1..N
    BY <2>1, TopIsGreatest
  <2>5. k = [T \in SUBSET (1..N) |-> IF T = {} THEN <<>> ELSE Output!Lettered(k[T \ {Top(T)}], s[Top(T)])]
    <3>1. ASSUME NEW T \in SUBSET (1..N), T # {} PROVE k[T] = Output!Lettered(k[T \ {Top(T)}], s[Top(T)])
      BY <1>2, <2>1, <2>3, <2>4, <3>1 DEF Folds, N
    <3> QED
      BY <2>3, <3>1 DEF Folds, N
  <2>6. h = [T \in SUBSET (1..N) |-> IF T = {} THEN <<>> ELSE Output!Lettered(h[T \ {Top(T)}], s[Top(T)])]
    BY <2>5
  <2> HIDE DEF h
  <2>7. Folds(h, <<>>, op, V, s)
    BY <1>2, <2>1, <2>4, <2>6 DEF Folds, N
  <2> QED
    BY <1>4, <2>2, <2>7 DEF N
<1>6. FoldsBy(fold, <<>>, op, V, X)
  BY <1>1, <1>2, <1>5 DEF FoldsBy
<1>7. /\ fold[<<>>] = <<>>
      /\ \A s \in Seq(X), e \in X : fold[Append(s, e)] = op[<<fold[s], e>>]
      /\ \A s \in Seq(X) : fold[s] \in V
  BY <1>6, FoldSteps
<1>8. Output!NameStatus(<<>>) = <<>>
  BY <1>3, <1>4, <1>7
<1>9. ASSUME NEW s \in Seq(X), NEW e \in X
      PROVE  Output!NameStatus(Append(s, e)) = Output!Lettered(Output!NameStatus(s), e)
  <2>1. Append(s, e) \in Seq(X) /\ fold[s] \in V
    BY <1>3, <1>7
  <2> QED
    BY <2>1, <1>2, <1>4, <1>7
<1>10. \A s \in Seq(X) : Output!NameStatus(s) \in V
  BY <1>4, <1>7
<1> QED
  BY <1>8, <1>9, <1>10 DEF V, X

(* What is parsed of it, one field after the other. *)
LEMMA RecordsGrow ==
         /\ Output!Records(<<>>) = Output!Nothing
         /\ \A s \in Seq(Fields), e \in Fields :
              Output!Records(Append(s, e)) = Output!Parsed(Output!Records(s), e)
         /\ \A s \in Seq(Fields) : Output!Records(s) \in Streams
<1> DEFINE V == Streams
           X == Fields
           op == [ve \in V \X X |-> Output!Parsed(ve[1], ve[2])]
           fold == [s \in Seq(X) |-> Output!Records(s)]
<1>1. Output!Nothing \in V /\ \A v \in V, e \in X : Output!Parsed(v, e) \in V
  BY ParsedIsTyped, EmptySeq DEF Output!Nothing, Streams
<1>2. op \in [V \X X -> V] /\ \A v \in V, e \in X : op[<<v, e>>] = Output!Parsed(v, e)
  BY <1>1
<1>3. <<>> \in Seq(X) /\ \A s \in Seq(X), e \in X : Append(s, e) \in Seq(X)
  BY AppendProperties
<1>4. \A s \in Seq(X) : fold[s] = Output!Records(s)
  OBVIOUS
<1> HIDE DEF op, V, X, fold
<1>5. ASSUME NEW s \in Seq(X)
      PROVE  \E h : Folds(h, Output!Nothing, op, V, s) /\ fold[s] = h[1..Len(s)]
  <2> DEFINE N == Len(s)
             h == CHOOSE k : k = [T \in SUBSET (1..N) |->
                    IF T = {} THEN Output!Nothing ELSE Output!Parsed(k[T \ {Top(T)}], s[Top(T)])]
  <2>1. N \in Nat /\ DOMAIN s = 1..N /\ \A n \in 1..N : s[n] \in X
    BY ElementOfSeq, LenProperties
  <2>2. Output!Records(s) = h[1..N]
    <3>1. \A T : Output!Max(T) = Top(T)
      BY DEF Output!Max, Top
    <3>2. Output!Records(s) = (CHOOSE k : k = [T \in SUBSET DOMAIN s |->
           IF T = {} THEN Output!Nothing ELSE Output!Parsed(k[T \ {Top(T)}], s[Top(T)])])[DOMAIN s]
      BY <3>1 DEF Output!Records, Output!FoldLeft, Output!MapThenFoldSet
    <3> QED
      BY <3>2, <2>1
  <2>3. PICK k \in [SUBSET (1..N) -> V] : Folds(k, Output!Nothing, op, V, s)
    BY <1>1, <1>2, FoldOfSeq
  <2> HIDE DEF N
  <2>4. \A T \in SUBSET (1..N) : T # {} => Top(T) \in 1..N
    BY <2>1, TopIsGreatest
  <2>5. k = [T \in SUBSET (1..N) |-> IF T = {} THEN Output!Nothing ELSE Output!Parsed(k[T \ {Top(T)}], s[Top(T)])]
    <3>1. ASSUME NEW T \in SUBSET (1..N), T # {} PROVE k[T] = Output!Parsed(k[T \ {Top(T)}], s[Top(T)])
      BY <1>2, <2>1, <2>3, <2>4, <3>1 DEF Folds, N
    <3> QED
      BY <2>3, <3>1 DEF Folds, N
  <2>6. h = [T \in SUBSET (1..N) |-> IF T = {} THEN Output!Nothing ELSE Output!Parsed(h[T \ {Top(T)}], s[Top(T)])]
    BY <2>5
  <2> HIDE DEF h
  <2>7. Folds(h, Output!Nothing, op, V, s)
    BY <1>2, <2>1, <2>4, <2>6 DEF Folds, N
  <2> QED
    BY <1>4, <2>2, <2>7 DEF N
<1>6. FoldsBy(fold, Output!Nothing, op, V, X)
  BY <1>1, <1>2, <1>5 DEF FoldsBy
<1>7. /\ fold[<<>>] = Output!Nothing
      /\ \A s \in Seq(X), e \in X : fold[Append(s, e)] = op[<<fold[s], e>>]
      /\ \A s \in Seq(X) : fold[s] \in V
  BY <1>6, FoldSteps
<1>8. Output!Records(<<>>) = Output!Nothing
  BY <1>3, <1>4, <1>7
<1>9. ASSUME NEW s \in Seq(X), NEW e \in X
      PROVE  Output!Records(Append(s, e)) = Output!Parsed(Output!Records(s), e)
  <2>1. Append(s, e) \in Seq(X) /\ fold[s] \in V
    BY <1>3, <1>7
  <2> QED
    BY <2>1, <1>2, <1>4, <1>7
<1>10. \A s \in Seq(X) : Output!Records(s) \in V
  BY <1>4, <1>7
<1> QED
  BY <1>8, <1>9, <1>10 DEF V, X

(* The paths of a list with letters. *)
LEMMA ListedGrows ==
         /\ Output!Listed(<<>>) = Output!NoneListed
         /\ \A s \in Seq(Fields), e \in Fields :
              Output!Listed(Append(s, e)) = Output!Staged(Output!Listed(s), e)
         /\ \A s \in Seq(Fields) : Output!Listed(s) \in Gatherings
<1> DEFINE V == Gatherings
           X == Fields
           op == [ve \in V \X X |-> Output!Staged(ve[1], ve[2])]
           fold == [s \in Seq(X) |-> Output!Listed(s)]
<1>1. Output!NoneListed \in V /\ \A v \in V, e \in X : Output!Staged(v, e) \in V
  BY StagedIsTyped DEF Output!NoneListed, Gatherings
<1>2. op \in [V \X X -> V] /\ \A v \in V, e \in X : op[<<v, e>>] = Output!Staged(v, e)
  BY <1>1
<1>3. <<>> \in Seq(X) /\ \A s \in Seq(X), e \in X : Append(s, e) \in Seq(X)
  BY AppendProperties
<1>4. \A s \in Seq(X) : fold[s] = Output!Listed(s)
  OBVIOUS
<1> HIDE DEF op, V, X, fold
<1>5. ASSUME NEW s \in Seq(X)
      PROVE  \E h : Folds(h, Output!NoneListed, op, V, s) /\ fold[s] = h[1..Len(s)]
  <2> DEFINE N == Len(s)
             h == CHOOSE k : k = [T \in SUBSET (1..N) |->
                    IF T = {} THEN Output!NoneListed ELSE Output!Staged(k[T \ {Top(T)}], s[Top(T)])]
  <2>1. N \in Nat /\ DOMAIN s = 1..N /\ \A n \in 1..N : s[n] \in X
    BY ElementOfSeq, LenProperties
  <2>2. Output!Listed(s) = h[1..N]
    <3>1. \A T : Output!Max(T) = Top(T)
      BY DEF Output!Max, Top
    <3>2. Output!Listed(s) = (CHOOSE k : k = [T \in SUBSET DOMAIN s |->
           IF T = {} THEN Output!NoneListed ELSE Output!Staged(k[T \ {Top(T)}], s[Top(T)])])[DOMAIN s]
      BY <3>1 DEF Output!Listed, Output!FoldLeft, Output!MapThenFoldSet
    <3> QED
      BY <3>2, <2>1
  <2>3. PICK k \in [SUBSET (1..N) -> V] : Folds(k, Output!NoneListed, op, V, s)
    BY <1>1, <1>2, FoldOfSeq
  <2> HIDE DEF N
  <2>4. \A T \in SUBSET (1..N) : T # {} => Top(T) \in 1..N
    BY <2>1, TopIsGreatest
  <2>5. k = [T \in SUBSET (1..N) |-> IF T = {} THEN Output!NoneListed ELSE Output!Staged(k[T \ {Top(T)}], s[Top(T)])]
    <3>1. ASSUME NEW T \in SUBSET (1..N), T # {} PROVE k[T] = Output!Staged(k[T \ {Top(T)}], s[Top(T)])
      BY <1>2, <2>1, <2>3, <2>4, <3>1 DEF Folds, N
    <3> QED
      BY <2>3, <3>1 DEF Folds, N
  <2>6. h = [T \in SUBSET (1..N) |-> IF T = {} THEN Output!NoneListed ELSE Output!Staged(h[T \ {Top(T)}], s[Top(T)])]
    BY <2>5
  <2> HIDE DEF h
  <2>7. Folds(h, Output!NoneListed, op, V, s)
    BY <1>2, <2>1, <2>4, <2>6 DEF Folds, N
  <2> QED
    BY <1>4, <2>2, <2>7 DEF N
<1>6. FoldsBy(fold, Output!NoneListed, op, V, X)
  BY <1>1, <1>2, <1>5 DEF FoldsBy
<1>7. /\ fold[<<>>] = Output!NoneListed
      /\ \A s \in Seq(X), e \in X : fold[Append(s, e)] = op[<<fold[s], e>>]
      /\ \A s \in Seq(X) : fold[s] \in V
  BY <1>6, FoldSteps
<1>8. Output!Listed(<<>>) = Output!NoneListed
  BY <1>3, <1>4, <1>7
<1>9. ASSUME NEW s \in Seq(X), NEW e \in X
      PROVE  Output!Listed(Append(s, e)) = Output!Staged(Output!Listed(s), e)
  <2>1. Append(s, e) \in Seq(X) /\ fold[s] \in V
    BY <1>3, <1>7
  <2> QED
    BY <2>1, <1>2, <1>4, <1>7
<1>10. \A s \in Seq(X) : Output!Listed(s) \in V
  BY <1>4, <1>7
<1> QED
  BY <1>8, <1>9, <1>10 DEF V, X

(* The bytes of a sample. *)
LEMMA LengthGrows ==
  ASSUME Output!ConstantsAreSane
  PROVE  /\ Output!Length(<<>>) = 0
         /\ \A s \in Seq(Valid), e \in Valid :
              Output!Length(Append(s, e)) = Output!Longer(Output!Length(s), e)
         /\ \A s \in Seq(Valid) : Output!Length(s) \in Nat
<1> DEFINE V == Nat
           X == Valid
           op == [ve \in V \X X |-> Output!Longer(ve[1], ve[2])]
           fold == [s \in Seq(X) |-> Output!Length(s)]
<1>1. 0 \in V /\ \A v \in V, e \in X : Output!Longer(v, e) \in V
  BY LongerIsTyped
<1>2. op \in [V \X X -> V] /\ \A v \in V, e \in X : op[<<v, e>>] = Output!Longer(v, e)
  BY <1>1
<1>3. <<>> \in Seq(X) /\ \A s \in Seq(X), e \in X : Append(s, e) \in Seq(X)
  BY AppendProperties
<1>4. \A s \in Seq(X) : fold[s] = Output!Length(s)
  OBVIOUS
<1> HIDE DEF op, V, X, fold
<1>5. ASSUME NEW s \in Seq(X)
      PROVE  \E h : Folds(h, 0, op, V, s) /\ fold[s] = h[1..Len(s)]
  <2> DEFINE N == Len(s)
             h == CHOOSE k : k = [T \in SUBSET (1..N) |->
                    IF T = {} THEN 0 ELSE Output!Longer(k[T \ {Top(T)}], s[Top(T)])]
  <2>1. N \in Nat /\ DOMAIN s = 1..N /\ \A n \in 1..N : s[n] \in X
    BY ElementOfSeq, LenProperties
  <2>2. Output!Length(s) = h[1..N]
    <3>1. \A T : Output!Max(T) = Top(T)
      BY DEF Output!Max, Top
    <3>2. Output!Length(s) = (CHOOSE k : k = [T \in SUBSET DOMAIN s |->
           IF T = {} THEN 0 ELSE Output!Longer(k[T \ {Top(T)}], s[Top(T)])])[DOMAIN s]
      BY <3>1 DEF Output!Length, Output!FoldLeft, Output!MapThenFoldSet
    <3> QED
      BY <3>2, <2>1
  <2>3. PICK k \in [SUBSET (1..N) -> V] : Folds(k, 0, op, V, s)
    BY <1>1, <1>2, FoldOfSeq
  <2> HIDE DEF N
  <2>4. \A T \in SUBSET (1..N) : T # {} => Top(T) \in 1..N
    BY <2>1, TopIsGreatest
  <2>5. k = [T \in SUBSET (1..N) |-> IF T = {} THEN 0 ELSE Output!Longer(k[T \ {Top(T)}], s[Top(T)])]
    <3>1. ASSUME NEW T \in SUBSET (1..N), T # {} PROVE k[T] = Output!Longer(k[T \ {Top(T)}], s[Top(T)])
      BY <1>2, <2>1, <2>3, <2>4, <3>1 DEF Folds, N
    <3> QED
      BY <2>3, <3>1 DEF Folds, N
  <2>6. h = [T \in SUBSET (1..N) |-> IF T = {} THEN 0 ELSE Output!Longer(h[T \ {Top(T)}], s[Top(T)])]
    BY <2>5
  <2> HIDE DEF h
  <2>7. Folds(h, 0, op, V, s)
    BY <1>2, <2>1, <2>4, <2>6 DEF Folds, N
  <2> QED
    BY <1>4, <2>2, <2>7 DEF N
<1>6. FoldsBy(fold, 0, op, V, X)
  BY <1>1, <1>2, <1>5 DEF FoldsBy
<1>7. /\ fold[<<>>] = 0
      /\ \A s \in Seq(X), e \in X : fold[Append(s, e)] = op[<<fold[s], e>>]
      /\ \A s \in Seq(X) : fold[s] \in V
  BY <1>6, FoldSteps
<1>8. Output!Length(<<>>) = 0
  BY <1>3, <1>4, <1>7
<1>9. ASSUME NEW s \in Seq(X), NEW e \in X
      PROVE  Output!Length(Append(s, e)) = Output!Longer(Output!Length(s), e)
  <2>1. Append(s, e) \in Seq(X) /\ fold[s] \in V
    BY <1>3, <1>7
  <2> QED
    BY <2>1, <1>2, <1>4, <1>7
<1>10. \A s \in Seq(X) : Output!Length(s) \in V
  BY <1>4, <1>7
<1> QED
  BY <1>8, <1>9, <1>10 DEF V, X

(* What was printed is parsed back. *)
Whole(s) == [ok |-> TRUE, recs |-> s, open |-> FALSE]

LEMMA EntryIsParsed ==
  ASSUME NEW s \in Seq(Valid), NEW r \in Valid, NEW f \in Seq(Fields), Output!Records(f) = Whole(s),
         None \notin Output!Kinds
  PROVE  Output!Records(Output!Entry(f, r)) = Whole(Append(s, r))
<1> DEFINE field == [kind |-> r.kind, path |-> r.path]
           first == [kind |-> r.kind, path |-> r.path, from |-> None]
           N == Len(s)
<1>1. /\ r.kind # None /\ r = [kind |-> r.kind, path |-> r.path, from |-> r.from]
      /\ IF Output!Doubled(r.kind) THEN r.from \in Reported ELSE r.from = None
      /\ Output!Doubled(r.kind) \in BOOLEAN
  BY ValidChange DEF Output!Doubled
<1>2. field \in Fields /\ Append(f, field) \in Seq(Fields)
  <2>1. field \in Fields
    BY ValidChange DEF Fields
  <2> HIDE DEF field
  <2> QED
    BY <2>1, AppendProperties
<1>3. Output!Shape(field) = field
  BY <1>1 DEF Output!Shape
<1>4. Output!Records(Append(f, field)) = Output!Parsed(Whole(s), field)
  BY <1>2, RecordsGrow
<1>5. Output!Parsed(Whole(s), field) = [ok |-> TRUE, recs |-> Append(s, first), open |-> Output!Doubled(r.kind)]
  <2> DEFINE w == Whole(s)
             ok == w.ok /\ Output!Shape(field).kind # None
             open == Output!Shape(field).kind # None /\ Output!Doubled(Output!Shape(field).kind)
  <2>1. w.ok = TRUE /\ w.recs = s /\ w.open = FALSE
    BY DEF Whole
  <2> HIDE DEF w
  <2>2. Output!Parsed(w, field) = [ok |-> ok, recs |-> Append(w.recs, first), open |-> open]
    <3> DEFINE shaped == [kind |-> Output!Shape(field).kind, path |-> Output!Shape(field).path, from |-> None]
    <3>1. w.ok /\ ~w.open
      BY <2>1
    <3>2. Output!Parsed(w, field) = [ok |-> ok, recs |-> Append(w.recs, shaped), open |-> open]
      BY <3>1, Zenon DEF Output!Parsed, Output!Record
    <3>3. shaped = first
      BY <1>3
    <3> HIDE DEF shaped, ok, open, first
    <3> QED
      BY <3>2, <3>3
  <2>3. ok = TRUE /\ open = Output!Doubled(r.kind)
    <3>1. ok /\ (open <=> Output!Doubled(r.kind))
      BY <1>1, <1>3, <2>1
    <3>2. ok \in BOOLEAN /\ open \in BOOLEAN
      OBVIOUS
    <3> HIDE DEF ok, open
    <3> QED
      BY <1>1, <3>1, <3>2
  <2> HIDE DEF ok, open, first
  <2> QED
    BY <2>1, <2>2, <2>3 DEF w
<1> HIDE DEF field, first
<1>6. CASE ~Output!Doubled(r.kind)
  <2>1. first = r /\ Output!Entry(f, r) = Append(f, field)
    BY <1>1, <1>6 DEF Output!Entry, first, field
  <2>2. Output!Doubled(r.kind) = FALSE
    BY <1>1, <1>6
  <2> QED
    BY <1>4, <1>5, <2>1, <2>2 DEF Whole
<1>7. CASE Output!Doubled(r.kind)
  <2> DEFINE bare == Output!Bare(r.from)
             t == Append(s, first)
  <2>1. bare \in Fields /\ bare.path = r.from
    BY <1>1, <1>7 DEF Fields, Output!Bare
  <2>2. Output!Entry(f, r) = Append(Append(f, field), bare)
    BY <1>7 DEF Output!Entry, field
  <2> HIDE DEF bare
  <2>3. Output!Records(Append(Append(f, field), bare)) = Output!Parsed(Output!Records(Append(f, field)), bare)
    BY <1>2, <2>1, RecordsGrow
  <2>4. Output!Records(Append(f, field)) = [ok |-> TRUE, recs |-> t, open |-> TRUE]
    BY <1>4, <1>5, <1>7
  <2>5. first \in Recs /\ s \in Seq(Recs)
    <3>1. \A o \in Valid : o \in Recs
      <4> SUFFICES ASSUME NEW o \in Valid PROVE o \in Recs
        OBVIOUS
      <4>1. /\ o.kind \in Output!Kinds /\ o.path \in Reported /\ o = [kind |-> o.kind, path |-> o.path, from |-> o.from]
            /\ o.from \in Reported \cup {None}
        BY ValidChange
      <4> QED
        BY <4>1 DEF Recs
    <3>2. first \in Recs
      BY ValidChange DEF Recs, first
    <3> QED
      BY <3>1, <3>2, ElementOfSeq, SeqDef
  <2>6. /\ t \in Seq(Recs) /\ Len(t) = N + 1 /\ N \in Nat /\ t[N + 1] = first /\ \A n \in 1..N : t[n] = s[n]
    BY <2>5, AppendProperties, LenProperties
  <2> HIDE DEF t
  <2>7. Output!Parsed([ok |-> TRUE, recs |-> t, open |-> TRUE], bare) =
          [ok |-> TRUE, recs |-> [t EXCEPT ![N + 1].from = r.from], open |-> FALSE]
    BY <2>1, <2>6 DEF Output!Parsed, Output!Record
  <2>8. [first EXCEPT !.from = r.from] = r
    BY <1>1 DEF first
  <2>9. [t EXCEPT ![N + 1].from = r.from] = Append(s, r)
    <3> DEFINE u == [t EXCEPT ![N + 1] = r]
    <3>1. [t EXCEPT ![N + 1].from = r.from] = u
      BY <2>6, <2>8
    <3>2. r \in Recs
      BY ValidChange DEF Recs
    <3>3. N + 1 \in 1..Len(t)
      BY <2>6
    <3>4. u \in Seq(Recs) /\ Len(u) = N + 1 /\ u[N + 1] = r /\ \A n \in 1..N : u[n] = s[n]
      BY <2>6, <3>2, <3>3, ExceptSeq
    <3>5. /\ Append(s, r) \in Seq(Valid) /\ Len(Append(s, r)) = N + 1 /\ Append(s, r)[N + 1] = r
          /\ \A n \in 1..N : Append(s, r)[n] = s[n]
      BY AppendProperties
    <3> HIDE DEF u, N
    <3>6. \A n \in 1..(N + 1) : u[n] = Append(s, r)[n]
      BY <2>6, <3>4, <3>5
    <3>7. u = Append(s, r)
      BY <3>4, <3>5, <3>6, SeqEqual
    <3> QED
      BY <3>1, <3>7
  <2> QED
    BY <2>2, <2>3, <2>4, <2>7, <2>9 DEF Whole
<1> QED
  BY <1>6, <1>7

LEMMA PorcelainIsParsed ==
  ASSUME None \notin Output!Kinds, NEW s \in Seq(Valid)
  PROVE  Output!Records(Output!Porcelain(s)) = Whole(s)
<1> DEFINE G == {t \in Seq(Valid) : Output!Records(Output!Porcelain(t)) = Whole(t)}
<1>1. <<>> \in G
  <2>1. Output!Porcelain(<<>>) = <<>> /\ Output!Records(<<>>) = Output!Nothing
    BY PorcelainGrows, RecordsGrow
  <2> QED
    BY <2>1 DEF Output!Nothing, Whole
<1>2. ASSUME NEW t \in Seq(Valid), NEW r \in Valid, t \in G PROVE Append(t, r) \in G
  <2>1. Append(t, r) \in Seq(Valid) /\ Output!Porcelain(t) \in Seq(Fields)
        /\ Output!Porcelain(Append(t, r)) = Output!Entry(Output!Porcelain(t), r)
    BY PorcelainGrows, AppendProperties
  <2>2. Output!Records(Output!Porcelain(t)) = Whole(t)
    BY <1>2
  <2>3. Output!Records(Output!Entry(Output!Porcelain(t), r)) = Whole(Append(t, r))
    BY <2>1, <2>2, EntryIsParsed
  <2> QED
    BY <2>1, <2>3
<1> HIDE DEF G
<1>3. Seq(Valid) \subseteq G
  BY <1>1, <1>2, SeqInduction
<1> QED
  BY <1>3 DEF G

(* A list with letters names the paths of the changes. *)
Named(s) == {r.path : r \in Output!ToSet(s)} \cup ({r.from : r \in Output!ToSet(s)} \ {None})

LEMMA NamedGrows ==
  ASSUME NEW s \in Seq(Valid), NEW r \in Valid
  PROVE  Named(Append(s, r)) = Named(s) \cup {r.path} \cup ({r.from} \ {None})
<1>1. /\ Append(s, r) \in Seq(Valid) /\ Len(Append(s, r)) = Len(s) + 1 /\ Append(s, r)[Len(s) + 1] = r
      /\ \A n \in 1..Len(s) : Append(s, r)[n] = s[n]
      /\ Len(s) \in Nat /\ DOMAIN s = 1..Len(s) /\ DOMAIN Append(s, r) = 1..(Len(s) + 1)
  BY AppendProperties, LenProperties
<1>2. Output!ToSet(Append(s, r)) = Output!ToSet(s) \cup {r}
  BY <1>1 DEF Output!ToSet
<1> QED
  BY <1>2 DEF Named

LEMMA LetteredIsListed ==
  ASSUME NEW f \in Seq(Fields), NEW r \in Valid, Output!Listed(f).left = 0,
         None \notin Output!Kinds, None \notin Reported
  PROVE  /\ Output!Listed(Output!Lettered(f, r)).left = 0
         /\ Output!Listed(Output!Lettered(f, r)).paths = Output!Listed(f).paths \cup {r.path} \cup ({r.from} \ {None})
<1> DEFINE a == Output!Listed(f)
           first == [kind |-> r.kind, path |-> None]
           g == Append(f, first)
<1>1. /\ r.kind # None /\ r.path \in Reported /\ first.kind = r.kind
      /\ IF Output!Doubled(r.kind) THEN r.from \in Reported ELSE r.from = None
  BY ValidChange
<1>2. a \in Gatherings /\ first \in Fields /\ Output!Bare(r.path) \in Fields
      /\ (Output!Doubled(r.kind) => Output!Bare(r.from) \in Fields)
  BY ListedGrows, ValidChange DEF Fields, Output!Bare
<1> HIDE DEF first
<1>3. g \in Seq(Fields)
  BY <1>2, AppendProperties
<1>4. Output!Listed(g) = Output!Staged(a, first)
  BY <1>2, ListedGrows
<1> HIDE DEF a, g
<1>5. Output!Listed(g) = [paths |-> a.paths, left |-> IF Output!Doubled(r.kind) THEN 2 ELSE 1]
  BY <1>1, <1>2, <1>4 DEF Output!Staged, Gatherings, a
<1>6. CASE ~Output!Doubled(r.kind)
  <2>1. Output!Lettered(f, r) = Append(g, Output!Bare(r.path))
    BY <1>6 DEF Output!Lettered, g, first
  <2>2. Output!Listed(Append(g, Output!Bare(r.path))) = Output!Staged(Output!Listed(g), Output!Bare(r.path))
    BY <1>2, <1>3, ListedGrows
  <2>3. Output!Listed(g) = [paths |-> a.paths, left |-> 1]
    BY <1>5, <1>6
  <2>4. Output!Staged([paths |-> a.paths, left |-> 1], Output!Bare(r.path)) =
          [paths |-> a.paths \cup {r.path}, left |-> 0]
    BY DEF Output!Staged, Output!Bare
  <2> QED
    BY <1>1, <1>6, <2>1, <2>2, <2>3, <2>4 DEF a
<1>7. CASE Output!Doubled(r.kind)
  <2> DEFINE h == Append(g, Output!Bare(r.from))
  <2>1. Output!Lettered(f, r) = Append(h, Output!Bare(r.path))
    BY <1>7 DEF Output!Lettered, g, first
  <2>2. h \in Seq(Fields) /\ Output!Listed(h) = Output!Staged(Output!Listed(g), Output!Bare(r.from))
    BY <1>2, <1>3, <1>7, ListedGrows, AppendProperties
  <2> HIDE DEF h
  <2>3. Output!Listed(Append(h, Output!Bare(r.path))) = Output!Staged(Output!Listed(h), Output!Bare(r.path))
    BY <1>2, <2>2, ListedGrows
  <2>4. Output!Listed(g) = [paths |-> a.paths, left |-> 2]
    BY <1>5, <1>7
  <2>5. Output!Staged([paths |-> a.paths, left |-> 2], Output!Bare(r.from)) =
          [paths |-> a.paths \cup {r.from}, left |-> 1]
    BY DEF Output!Staged, Output!Bare
  <2>6. Output!Staged([paths |-> a.paths \cup {r.from}, left |-> 1], Output!Bare(r.path)) =
          [paths |-> (a.paths \cup {r.from}) \cup {r.path}, left |-> 0]
    BY DEF Output!Staged, Output!Bare
  <2> QED
    BY <1>1, <1>7, <2>1, <2>2, <2>3, <2>4, <2>5, <2>6 DEF a
<1> QED
  BY <1>6, <1>7

LEMMA NameStatusIsListed ==
  ASSUME None \notin Output!Kinds, None \notin Reported, NEW s \in Seq(Valid)
  PROVE  Output!Listed(Output!NameStatus(s)).left = 0 /\ Output!Listed(Output!NameStatus(s)).paths = Named(s)
<1> DEFINE L(t) == Output!Listed(Output!NameStatus(t))
           G == {t \in Seq(Valid) : L(t).left = 0 /\ L(t).paths = Named(t)}
<1>1. <<>> \in G
  <2>1. L(<<>>) = Output!NoneListed
    BY NameStatusGrows, ListedGrows
  <2>2. Named(<<>>) = {}
    BY DEF Named, Output!ToSet
  <2>3. Output!NoneListed.left = 0 /\ Output!NoneListed.paths = {}
    BY DEF Output!NoneListed
  <2>4. <<>> \in Seq(Valid)
    OBVIOUS
  <2> HIDE DEF L
  <2> QED
    BY <2>1, <2>2, <2>3, <2>4
<1>2. ASSUME NEW t \in Seq(Valid), NEW r \in Valid, t \in G PROVE Append(t, r) \in G
  <2> DEFINE f == Output!NameStatus(t)
  <2>1. Append(t, r) \in Seq(Valid) /\ f \in Seq(Fields) /\ Output!NameStatus(Append(t, r)) = Output!Lettered(f, r)
    BY NameStatusGrows, AppendProperties
  <2>2. Output!Listed(f).left = 0 /\ Output!Listed(f).paths = Named(t)
    BY <1>2
  <2> HIDE DEF f
  <2>3. /\ Output!Listed(Output!Lettered(f, r)).left = 0
        /\ Output!Listed(Output!Lettered(f, r)).paths = Output!Listed(f).paths \cup {r.path} \cup ({r.from} \ {None})
    BY <2>1, <2>2, LetteredIsListed
  <2>4. L(Append(t, r)).left = 0 /\ L(Append(t, r)).paths = Named(Append(t, r))
    BY <2>1, <2>2, <2>3, NamedGrows
  <2> QED
    BY <2>1, <2>4
<1> HIDE DEF G
<1>3. Seq(Valid) \subseteq G
  BY <1>1, <1>2, SeqInduction
<1> QED
  BY <1>3 DEF G

(* The list with letters is the longest of the answers. *)
LEMMA NameStatusIsLongest ==
  ASSUME NEW s \in Seq(Valid)
  PROVE  Len(s) <= Len(Output!NameStatus(s)) /\ Len(Output!Porcelain(s)) <= Len(Output!NameStatus(s))
<1> DEFINE G == {t \in Seq(Valid) : Len(t) <= Len(Output!NameStatus(t))
                                    /\ Len(Output!Porcelain(t)) <= Len(Output!NameStatus(t))}
<1>1. <<>> \in G
  <2>1. Output!Porcelain(<<>>) = <<>> /\ Output!NameStatus(<<>>) = <<>>
    BY PorcelainGrows, NameStatusGrows
  <2> QED
    BY <2>1
<1>2. ASSUME NEW t \in Seq(Valid), NEW r \in Valid, t \in G PROVE Append(t, r) \in G
  <2> DEFINE f == Output!NameStatus(t)
             g == Output!Porcelain(t)
             n == IF Output!Doubled(r.kind) THEN 2 ELSE 1
             field == [kind |-> r.kind, path |-> r.path]
             letters == [kind |-> r.kind, path |-> None]
  <2>1. /\ Append(t, r) \in Seq(Valid) /\ f \in Seq(Fields) /\ g \in Seq(Fields)
        /\ Output!NameStatus(Append(t, r)) = Output!Lettered(f, r)
        /\ Output!Porcelain(Append(t, r)) = Output!Entry(g, r)
    BY PorcelainGrows, NameStatusGrows, AppendProperties
  <2>2. /\ field \in Fields /\ letters \in Fields /\ Output!Bare(r.path) \in Fields
        /\ Output!Doubled(r.kind) => Output!Bare(r.from) \in Fields
    BY ValidChange DEF Fields, Output!Bare
  <2>3. Len(t) <= Len(f) /\ Len(g) <= Len(f) /\ Len(t) \in Nat /\ Len(f) \in Nat /\ Len(g) \in Nat
    BY <1>2, <2>1, LenProperties
  <2> HIDE DEF f, g, field, letters
  <2>4. Len(Output!Lettered(f, r)) = Len(f) + n + 1
    <3> DEFINE first == Append(f, letters)
               more == IF Output!Doubled(r.kind) THEN Append(first, Output!Bare(r.from)) ELSE first
    <3>1. first \in Seq(Fields) /\ Len(first) = Len(f) + 1
      BY <2>1, <2>2, AppendProperties
    <3> HIDE DEF first
    <3>2. more \in Seq(Fields) /\ Len(more) = Len(f) + n
      BY <2>2, <2>3, <3>1, AppendProperties
    <3> HIDE DEF more, n
    <3>3. Len(Append(more, Output!Bare(r.path))) = Len(f) + n + 1
      BY <2>2, <3>2, AppendProperties
    <3> QED
      BY <3>3 DEF Output!Lettered, more, first, letters
  <2>5. Len(Output!Entry(g, r)) = Len(g) + n
    <3> DEFINE first == Append(g, field)
    <3>1. first \in Seq(Fields) /\ Len(first) = Len(g) + 1
      BY <2>1, <2>2, AppendProperties
    <3> HIDE DEF first
    <3>2. Len(IF Output!Doubled(r.kind) THEN Append(first, Output!Bare(r.from)) ELSE first) = Len(g) + n
      BY <2>2, <2>3, <3>1, AppendProperties
    <3> QED
      BY <3>2 DEF Output!Entry, first, field
  <2>6. Len(Append(t, r)) = Len(t) + 1
    BY AppendProperties
  <2> QED
    BY <2>1, <2>3, <2>4, <2>5, <2>6
<1> HIDE DEF G
<1>3. Seq(Valid) \subseteq G
  BY <1>1, <1>2, SeqInduction
<1> QED
  BY <1>3 DEF G

(* A sample is as long as its limits let it be. *)
LEMMA SampleFits ==
  ASSUME Output!ConstantsAreSane, NEW s \in Seq(Valid)
  PROVE  LET k == Output!Sampled(s)
         IN k \in 0..Len(s) /\ k <= MaxSampled /\ Output!Bytes(s, k) <= MaxSample
<1> DEFINE N == Len(s)
           Fits == {n \in 0..N : n <= MaxSampled /\ Output!Bytes(s, n) <= MaxSample}
<1>1. N \in Nat /\ MaxSampled \in Nat /\ MaxSample \in Nat
  BY LenProperties DEF Output!ConstantsAreSane
<1>2. \A n \in 0..N : Output!Bytes(s, n) \in Nat
  <2> SUFFICES ASSUME NEW n \in 0..N PROVE Output!Bytes(s, n) \in Nat
    OBVIOUS
  <2>1. SubSeq(s, 1, n) \in Seq(Valid)
    BY PrefixOfSeq
  <2>2. Output!Length(SubSeq(s, 1, n)) \in Nat
    BY <2>1, LengthGrows
  <2>3. IF n = 0 THEN TRUE ELSE n - 1 \in Nat
    OBVIOUS
  <2> QED
    BY <2>2, <2>3 DEF Output!Bytes
<1>3. Output!Bytes(s, 0) = 0
  <2>1. 0 \in 0..Len(s)
    BY LenProperties
  <2>2. SubSeq(s, 1, 0) \in Seq(Valid) /\ Len(SubSeq(s, 1, 0)) = 0
    BY <2>1, PrefixOfSeq
  <2>3. SubSeq(s, 1, 0) = <<>>
    BY <2>2, EmptySeq
  <2>4. Output!Length(SubSeq(s, 1, 0)) = 0
    BY <2>3, LengthGrows
  <2> QED
    BY <2>4 DEF Output!Bytes
<1>4. 0 \in Fits /\ Fits \in SUBSET (0..N)
  BY <1>1, <1>3
<1>5. PICK x \in Fits : \A y \in Fits : x >= y
  BY <1>1, <1>4, Greatest
<1>6. ASSUME x < N PROVE x = MaxSampled \/ Output!Bytes(s, x + 1) > MaxSample
  <2>1. x + 1 \in 0..N /\ x + 1 \notin Fits /\ x <= MaxSampled /\ x \in Nat
    BY <1>1, <1>5, <1>6
  <2>2. Output!Bytes(s, x + 1) \in Nat
    BY <1>2, <2>1
  <2> QED
    BY <1>1, <2>1, <2>2
<1>7. \E k \in 0..Len(s) : /\ k <= MaxSampled /\ Output!Bytes(s, k) <= MaxSample
                           /\ k < Len(s) => k = MaxSampled \/ Output!Bytes(s, k + 1) > MaxSample
  BY <1>5, <1>6
<1> HIDE DEF N, Fits
<1> QED
  BY <1>7 DEF Output!Sampled

LEMMA ReportIsSeq ==
  ASSUME Output!ConstantsAreSane, NEW s \in Output!Reports
  PROVE  s \in Seq(Valid)
<1>1. PICK n \in 0..MaxReported : s \in [1..n -> Valid]
  BY DEF Output!Reports, Output!BoundedSeq, Output!SeqOf, Valid
<1>2. n \in Nat
  BY <1>1 DEF Output!ConstantsAreSane
<1> QED
  BY <1>1, <1>2, SeqDef

(* What each parser makes of an answer is refused, or meant. *)
Fair(pp, a) ==
  /\ pp # "sample" /\ a.is = "paths" => a.paths = Output!Meant(pp)
  /\ pp # "dirty" /\ Output!Complete(Output!NameStatus(changes)) => a.is # "refused"
  /\ pp = "sample" /\ a.is = "sample" =>
       /\ a.count = Len(changes) /\ a.clean = (changes = <<>>)
       /\ Output!IsPrefix(a.shown, changes) /\ a.cut = (a.shown # changes)
       /\ Len(a.shown) <= MaxSampled /\ Output!Bytes(a.shown, Len(a.shown)) <= MaxSample

LEMMA FairIsEnough ==
  ASSUME NEW pp, NEW a, a = Output!Refused \/ (pp # "sample" /\ a = Output!Answer(Output!Meant(pp))),
         pp # "dirty" /\ Output!Complete(Output!NameStatus(changes)) => a # Output!Refused
  PROVE  Fair(pp, a)
  BY DEF Fair, Output!Refused, Output!Answer

LEMMA LongestIsComplete ==
  ASSUME Output!ConstantsAreSane, changes \in Seq(Valid), Output!Complete(Output!NameStatus(changes))
  PROVE  Output!Complete(Output!Porcelain(changes)) /\ Output!Complete(changes)
<1>1. /\ Len(changes) <= Len(Output!NameStatus(changes))
      /\ Len(Output!Porcelain(changes)) <= Len(Output!NameStatus(changes))
  BY NameStatusIsLongest
<1>2. /\ Len(changes) \in Nat /\ Len(Output!Porcelain(changes)) \in Nat /\ Len(Output!NameStatus(changes)) \in Nat
      /\ Capture \in Nat
  BY PorcelainGrows, NameStatusGrows, LenProperties DEF Output!ConstantsAreSane
<1> QED
  BY <1>1, <1>2 DEF Output!Complete

LEMMA StatusIsFair ==
  ASSUME Output!ConstantsAreSane, changes \in Seq(Valid),
         NEW pp \in {"paths", "sources", "untracked", "ignored", "dirty"}
  PROVE  Fair(pp, Output!ReadStatus(pp, Output!Porcelain(changes)))
<1> DEFINE f == Output!Porcelain(changes)
           a == Output!ReadStatus(pp, f)
           R == Output!Records(f)
           all == Output!ReadPaths(R.recs)
<1>1. R.ok = TRUE /\ R.open = FALSE /\ R.recs = changes
  <2>1. R = Whole(changes)
    BY PorcelainIsParsed DEF Output!ConstantsAreSane
  <2> HIDE DEF R
  <2> QED
    BY <2>1 DEF Whole
<1> HIDE DEF f, R
<1>2. CASE ~Output!Complete(f)
  <2>1. a = Output!Refused
    BY <1>2 DEF Output!ReadStatus, R
  <2>2. ~Output!Complete(Output!NameStatus(changes))
    BY <1>2, LongestIsComplete DEF f
  <2> QED
    BY <2>1, <2>2, FairIsEnough DEF f
<1>3. CASE Output!Complete(f)
  <2>1. a = CASE pp = "paths"     -> Output!Answer(Output!ReadPaths(R.recs))
              [] pp = "sources"   -> Output!Answer(Output!ReadSources(R.recs))
              [] pp = "untracked" -> Output!Answer(Output!ReadUntracked(R.recs, {<<"?", "?">>}))
              [] pp = "ignored"   -> Output!Answer(Output!ReadUntracked(R.recs, {<<"?", "?">>, <<"!", "!">>}))
              [] pp = "dirty"     -> IF \E n \in DOMAIN R.recs : Output!Doubled(R.recs[n].kind) THEN Output!Refused
                                     ELSE Output!Answer(Output!ReadPaths(R.recs))
    BY <1>1, <1>3 DEF Output!ReadStatus, R
  <2>2. Output!ReadPaths(changes) = {r.path : r \in Output!ToSet(changes)}
                                      \cup Output!Originals(Output!ToSet(changes))
    BY DEF Output!ReadPaths, Output!Originals
  <2> HIDE DEF a
  <2>3. CASE pp = "paths"
    <3>1. a = Output!Answer(Output!Meant(pp))
      BY <1>1, <2>1, <2>2, <2>3 DEF Output!Meant
    <3> QED
      BY <2>3, <3>1, FairIsEnough DEF Output!Answer, Output!Refused, f, a
  <2>4. CASE pp = "dirty"
    <3>1. a = Output!Refused \/ a = Output!Answer(Output!Meant(pp))
      BY <1>1, <2>1, <2>2, <2>4 DEF Output!Meant
    <3> QED
      BY <2>4, <3>1, FairIsEnough DEF f, a
  <2>5. CASE pp = "sources"
    <3>1. \A r \in Output!ToSet(changes) : "R" \in Output!ToSet(r.kind) => r.from # None
      <4> SUFFICES ASSUME NEW r \in Output!ToSet(changes), "R" \in Output!ToSet(r.kind) PROVE r.from # None
        OBVIOUS
      <4>1. r \in Valid
        BY ElementOfSeq, LenProperties DEF Output!ToSet
      <4>2. Output!Doubled(r.kind)
        BY DEF Output!Doubled
      <4> QED
        BY <4>1, <4>2, ValidChange DEF Output!ConstantsAreSane
    <3>2. Output!ReadSources(changes) = Output!Meant(pp)
      BY <2>5, <3>1 DEF Output!ReadSources, Output!Meant, Output!Originals
    <3>3. a = Output!Answer(Output!Meant(pp))
      BY <1>1, <2>1, <2>5, <3>2
    <3> QED
      BY <2>5, <3>3, FairIsEnough DEF Output!Answer, Output!Refused, f, a
  <2>6. CASE pp = "untracked"
    <3>1. Output!ReadUntracked(changes, {<<"?", "?">>}) = Output!Meant(pp)
      BY <2>6 DEF Output!ReadUntracked, Output!Meant, Output!Of
    <3>2. a = Output!Answer(Output!Meant(pp))
      BY <1>1, <2>1, <2>6, <3>1
    <3> QED
      BY <2>6, <3>2, FairIsEnough DEF Output!Answer, Output!Refused, f, a
  <2>7. CASE pp = "ignored"
    <3>1. Output!ReadUntracked(changes, {<<"?", "?">>, <<"!", "!">>}) = Output!Meant(pp)
      BY <2>7 DEF Output!ReadUntracked, Output!Meant, Output!Of
    <3>2. a = Output!Answer(Output!Meant(pp))
      BY <1>1, <2>1, <2>7, <3>1
    <3> QED
      BY <2>7, <3>2, FairIsEnough DEF Output!Answer, Output!Refused, f, a
  <2> QED
    BY <2>3, <2>4, <2>5, <2>6, <2>7
<1> QED
  BY <1>2, <1>3

LEMMA StagedIsFair ==
  ASSUME Output!ConstantsAreSane, changes \in Seq(Valid)
  PROVE  Fair("staged", Output!ReadStaged(Output!NameStatus(changes)))
<1> DEFINE f == Output!NameStatus(changes)
           a == Output!ReadStaged(f)
<1>1. Output!Listed(f).left = 0 /\ Output!Listed(f).paths = Named(changes)
  BY NameStatusIsListed DEF Output!ConstantsAreSane
<1> HIDE DEF f
<1>2. Named(changes) = Output!Meant("staged")
  BY DEF Named, Output!Meant, Output!Originals
<1>3. a = IF Output!Complete(f) THEN Output!Answer(Output!Meant("staged")) ELSE Output!Refused
  BY <1>1, <1>2 DEF Output!ReadStaged
<1> HIDE DEF a
<1> QED
  BY <1>3, FairIsEnough DEF Output!Answer, Output!Refused, f, a

LEMMA SampleIsFair ==
  ASSUME Output!ConstantsAreSane, changes \in Seq(Valid)
  PROVE  Fair("sample", Output!ReadSample(changes))
<1> DEFINE k == Output!Sampled(changes)
           a == Output!ReadSample(changes)
           t == SubSeq(changes, 1, k)
<1>1. k \in 0..Len(changes) /\ k <= MaxSampled /\ Output!Bytes(changes, k) <= MaxSample
  BY SampleFits
<1> HIDE DEF k
<1>2. CASE ~Output!Complete(changes)
  <2>1. a = Output!Refused
    BY <1>2 DEF Output!ReadSample
  <2>2. ~Output!Complete(Output!NameStatus(changes))
    BY <1>2, LongestIsComplete
  <2> QED
    BY <2>1, <2>2, FairIsEnough
<1>3. CASE Output!Complete(changes)
  <2>1. a = [is |-> "sample", clean |-> changes = <<>>, count |-> Len(changes), shown |-> t, cut |-> k < Len(changes)]
    BY <1>3 DEF Output!ReadSample, k
  <2>2. t \in Seq(Valid) /\ Len(t) = k /\ Len(changes) \in Nat /\ k \in Nat
    BY <1>1, PrefixOfSeq, LenProperties
  <2>3. k < Len(changes) <=> t # changes
    <3>1. k = Len(changes) => t = changes
      BY WholeSeq
    <3> HIDE DEF t
    <3> QED
      BY <1>1, <2>2, <3>1
  <2>4. SubSeq(t, 1, k) = t
    <3> HIDE DEF t
    <3> QED
      BY <2>2, WholeSeq
  <2>5. Output!Bytes(t, k) = Output!Bytes(changes, k)
    <3>1. SubSeq(t, 1, k) = SubSeq(changes, 1, k)
      BY <2>4
    <3> HIDE DEF t
    <3> QED
      BY <3>1 DEF Output!Bytes
  <2>6. Output!IsPrefix(t, changes)
    BY <1>1, <2>2, <2>4 DEF Output!IsPrefix
  <2>7. /\ a.is = "sample" /\ a.clean = (changes = <<>>) /\ a.count = Len(changes) /\ a.shown = t
        /\ a.cut = (k < Len(changes))
    <3> DEFINE none == changes = <<>>
               less == k < Len(changes)
    <3>1. a = [is |-> "sample", clean |-> none, count |-> Len(changes), shown |-> t, cut |-> less]
      BY <2>1
    <3> HIDE DEF t, a, none, less
    <3>2. a.is = "sample" /\ a.clean = none /\ a.count = Len(changes) /\ a.shown = t /\ a.cut = less
      BY <3>1
    <3> QED
      BY <3>2 DEF none, less
  <2> HIDE DEF t, a
  <2>8. a.cut = (a.shown # changes)
    BY <2>3, <2>7
  <2> QED
    BY <1>1, <2>2, <2>5, <2>6, <2>7, <2>8 DEF Fair, a
<1> QED
  BY <1>2, <1>3

(* An answer of a parser is fair, and a repository is called unborn while it has no commit. *)
OutputInv ==
  /\ Output!TypeOK /\ (headed => commits)
  /\ asked \in {None, "revisions"} => reply = None
  /\ asked \in Output!Parsers => Fair(asked, reply)
  /\ asked = "head" => reply \in {[is |-> "commit"], Output!Refused, [is |-> "unborn"]}
  /\ asked = "head" /\ reply = [is |-> "unborn"] => ~headed

LEMMA OutputStays ==
  ASSUME Output!ConstantsAreSane, OutputInv, Output!Next \/ UNCHANGED outputs
  PROVE  OutputInv'
<1>1. changes' = changes
  BY DEF Output!Next, Output!Ask, Output!AskHead, Output!CountRevisions, Output!OthersCommit, outputs
<1>2. \A pp, a : Fair(pp, a)' <=> Fair(pp, a)
  BY <1>1 DEF Fair, Output!Meant, Output!Of
<1>3. changes \in Seq(Valid)
  BY ReportIsSeq DEF OutputInv, Output!TypeOK
<1>4. /\ None \notin Output!Parsers /\ None \notin {"head", "revisions"}
      /\ "head" \notin Output!Parsers /\ "revisions" \notin Output!Parsers
  BY DEF Output!ConstantsAreSane, Output!Parsers
<1>5. ASSUME NEW pp \in Output!Parsers, Output!Ask(pp) PROVE OutputInv'
  <2>1. asked' = pp /\ headed' = headed /\ commits' = commits
    BY <1>5 DEF Output!Ask
  <2>2. Fair(pp, reply')
    <3>1. CASE pp = "staged"
      <4>1. reply' = Output!ReadStaged(Output!NameStatus(changes))
        BY <1>5, <3>1 DEF Output!Ask
      <4> QED
        BY <1>3, <3>1, <4>1, StagedIsFair
    <3>2. CASE pp = "sample"
      <4>1. reply' = Output!ReadSample(changes)
        BY <1>5, <3>2 DEF Output!Ask
      <4> QED
        BY <1>3, <3>2, <4>1, SampleIsFair
    <3>3. CASE pp \notin {"staged", "sample"}
      <4>1. reply' = Output!ReadStatus(pp, Output!Porcelain(changes))
        BY <1>5, <3>3 DEF Output!Ask
      <4>2. pp \in {"paths", "sources", "untracked", "ignored", "dirty"}
        BY <3>3 DEF Output!Parsers
      <4> QED
        BY <1>3, <4>1, <4>2, StatusIsFair
    <3> QED
      BY <3>1, <3>2, <3>3
  <2>3. Fair(asked, reply)'
    BY <1>2, <2>1, <2>2
  <2> QED
    BY <1>1, <1>4, <2>1, <2>3 DEF OutputInv, Output!TypeOK
<1>6. CASE Output!AskHead
  <2>1. UNCHANGED <<changes, commits, headed>> /\ asked' \in {"head", "revisions"}
    BY <1>6 DEF Output!AskHead
  <2>2. Output!TypeOK' /\ (headed => commits)' /\ (asked \in Output!Parsers => Fair(asked, reply))'
    BY <1>4, <2>1 DEF OutputInv, Output!TypeOK
  <2>3. CASE headed
    <3>1. asked' = "head" /\ reply' = [is |-> "commit"]
      BY <1>6, <2>3 DEF Output!AskHead
    <3> QED
      BY <1>4, <2>1, <2>2, <3>1 DEF OutputInv
  <2>4. CASE ~headed
    <3>1. asked' = "revisions" /\ reply' = None
      BY <1>6, <2>4 DEF Output!AskHead
    <3> QED
      BY <1>4, <2>1, <2>2, <3>1 DEF OutputInv
  <2> QED
    BY <2>3, <2>4
<1>7. CASE Output!CountRevisions
  <2>1. UNCHANGED <<changes, commits, headed>> /\ asked' = "head"
        /\ reply' = IF commits THEN Output!Refused ELSE [is |-> "unborn"]
    BY <1>7 DEF Output!CountRevisions
  <2>2. Output!TypeOK' /\ (headed => commits)' /\ asked' \notin Output!Parsers
    BY <1>4, <2>1 DEF OutputInv, Output!TypeOK
  <2>3. Output!Refused # [is |-> "unborn"]
    BY DEF Output!Refused
  <2>4. /\ reply' \in {[is |-> "commit"], Output!Refused, [is |-> "unborn"]}
        /\ reply' = [is |-> "unborn"] => ~headed'
    BY <2>1, <2>2, <2>3
  <2> QED
    BY <1>4, <2>1, <2>2, <2>4 DEF OutputInv
<1>8. CASE Output!OthersCommit
  <2>1. asked' = asked /\ reply' = reply /\ headed' = TRUE /\ commits' = TRUE /\ reply = None
    BY <1>8 DEF Output!OthersCommit
  <2>2. asked \in Output!Parsers => Fair(asked, reply)'
    BY <1>2, <2>1 DEF OutputInv
  <2>3. reply # [is |-> "unborn"]
    BY <2>1 DEF Output!ConstantsAreSane
  <2> QED
    BY <1>1, <2>1, <2>2, <2>3 DEF OutputInv, Output!TypeOK
<1>9. CASE UNCHANGED outputs
  <2>1. asked \in Output!Parsers => Fair(asked, reply)'
    BY <1>2, <1>9 DEF OutputInv, outputs
  <2> QED
    BY <1>9, <2>1 DEF OutputInv, Output!TypeOK, outputs
<1> QED
  BY <1>5, <1>6, <1>7, <1>8, <1>9 DEF Output!Next

LEMMA OutputIsMeant ==
  ASSUME Output!ConstantsAreSane, OutputInv
  PROVE  Output!ReadsWhatGitMeant
<1>1. asked \in Output!Parsers => Fair(asked, reply)
  BY DEF OutputInv
<1>2. asked = "head" /\ reply.is = "unborn" => ~headed
  BY DEF OutputInv, Output!Refused
<1> QED
  BY <1>1, <1>2 DEF Fair, Output!ReadsWhatGitMeant

OutputsInv == part = "output" => OutputInv

(* Whatever Git reports, in whatever order and under whatever names: a set of paths that a  *)
(* parser hands on is the set Git meant, with both sides of a rename; only an answer that   *)
(* the capture cut is refused; a sample counts every change and says when it shows fewer;   *)
(* and a repository is called unborn only while it has no commit (parse_porcelain_paths and *)
(* its siblings, parse_name_status_paths, status_snapshot, head).                           *)
THEOREM ParsersReadWhatGitMeant == MCSpec => []ReadsWhatGitMeant
<1>1. MCInit => OutputsInv
  <2> SUFFICES ASSUME Output!Init PROVE OutputInv
    BY DEF MCInit, OutputsInv
  <2>1. None \notin Output!Parsers /\ None # "head"
    BY PartsAreSane DEF Output!ConstantsAreSane
  <2> QED
    BY <2>1 DEF Output!Init, OutputInv, Output!TypeOK
<1>2. OutputsInv /\ [MCNext]_everything => OutputsInv'
  BY EachPartAlone, OutputStays, PartsAreSane DEF OutputsInv
<1>3. OutputsInv => ReadsWhatGitMeant
  BY OutputIsMeant, PartsAreSane DEF OutputsInv, ReadsWhatGitMeant, OutputInv
<1> QED
  BY <1>1, <1>2, <1>3, PTL DEF MCSpec


(* R orders S strictly and totally; s lists S in that order. *)
Orders(R, S) ==
  /\ \A x \in S : <<x, x>> \notin R
  /\ \A x, y \in S : x # y => <<x, y>> \in R \/ <<y, x>> \in R
  /\ \A x, y, z \in S : <<x, y>> \in R /\ <<y, z>> \in R => <<x, z>> \in R
Lists(s, S, R) ==
  /\ s \in [1..Cardinality(S) -> S] /\ \A x \in S : \E k \in 1..Cardinality(S) : s[k] = x
  /\ \A k, l \in 1..Cardinality(S) : k < l => <<s[k], s[l]>> \in R

(* A finite ordered set that is not empty has a last element. *)
LEMMA LastElement ==
  ASSUME NEW S, IsFiniteSet(S), S # {}, NEW R, Orders(R, S)
  PROVE  \E x \in S : \A y \in S : y # x => <<y, x>> \in R
<1> DEFINE HasLast(T) == \E x \in T : \A y \in T : y # x => <<y, x>> \in R
           U == {n \in Nat : \A T \in SUBSET S : Cardinality(T) = n + 1 => HasLast(T)}
<1>1. \A T \in SUBSET S : IsFiniteSet(T) /\ Cardinality(T) \in Nat
  BY FS_Subset, FS_CardinalityType
<1>2. 0 \in U
  <2> SUFFICES ASSUME NEW T \in SUBSET S, Cardinality(T) = 1 PROVE HasLast(T)
    OBVIOUS
  <2>1. PICK x : T = {x}
    BY <1>1, FS_Singleton
  <2> QED
    BY <2>1
<1>3. ASSUME NEW n \in Nat, n \in U PROVE n + 1 \in U
  <2> SUFFICES ASSUME NEW T \in SUBSET S, Cardinality(T) = n + 2 PROVE HasLast(T)
    OBVIOUS
  <2>1. T # {}
    BY FS_EmptySet
  <2>2. PICK x \in T : TRUE
    BY <2>1
  <2>3. T \ {x} \in SUBSET S /\ Cardinality(T \ {x}) = n + 1
    BY <1>1, <2>2, FS_RemoveElement
  <2>4. HasLast(T \ {x})
    BY <1>3, <2>3
  <2>5. PICK l \in T \ {x} : \A y \in T \ {x} : y # l => <<y, l>> \in R
    BY <2>4
  <2>6. CASE <<l, x>> \in R
    <3>1. \A y \in T : y # x => <<y, x>> \in R
      BY <2>5, <2>6 DEF Orders
    <3> QED
      BY <2>2, <3>1
  <2>7. CASE <<x, l>> \in R
    <3>1. \A y \in T : y # l => <<y, l>> \in R
      BY <2>5, <2>7
    <3> QED
      BY <3>1
  <2> QED
    BY <2>2, <2>5, <2>6, <2>7 DEF Orders
<1> HIDE DEF U
<1>4. Nat \subseteq U
  BY <1>2, <1>3, Induction
<1>5. Cardinality(S) # 0 /\ Cardinality(S) \in Nat
  BY <1>1, FS_EmptySet
<1>6. Cardinality(S) - 1 \in U /\ (Cardinality(S) - 1) + 1 = Cardinality(S)
  BY <1>4, <1>5
<1> QED
  BY <1>6 DEF U

(* A finite ordered set can be listed in its order. *)
LEMMA CanBeListed ==
  ASSUME NEW S, IsFiniteSet(S), NEW R, Orders(R, S)
  PROVE  \E s : Lists(s, S, R)
<1> DEFINE U == {n \in Nat : \A T \in SUBSET S : Cardinality(T) = n => \E s : Lists(s, T, R)}
<1>1. \A T \in SUBSET S : IsFiniteSet(T) /\ Cardinality(T) \in Nat /\ Orders(R, T)
  BY FS_Subset, FS_CardinalityType DEF Orders
<1>2. 0 \in U
  <2> SUFFICES ASSUME NEW T \in SUBSET S, Cardinality(T) = 0 PROVE \E s : Lists(s, T, R)
    OBVIOUS
  <2>1. T = {}
    BY <1>1, FS_EmptySet
  <2>2. Lists([k \in 1..0 |-> k], T, R)
    BY <2>1 DEF Lists
  <2> QED
    BY <2>2
<1>3. ASSUME NEW n \in Nat, n \in U PROVE n + 1 \in U
  <2> SUFFICES ASSUME NEW T \in SUBSET S, Cardinality(T) = n + 1 PROVE \E s : Lists(s, T, R)
    OBVIOUS
  <2>1. T # {}
    BY FS_EmptySet
  <2>2. PICK x \in T : \A y \in T : y # x => <<y, x>> \in R
    BY <1>1, <2>1, LastElement
  <2> DEFINE rest == T \ {x}
  <2>3. rest \in SUBSET S /\ Cardinality(rest) = n
    <3>1. IsFiniteSet(T) /\ Cardinality(T \ {x}) = Cardinality(T) - 1
      BY <1>1, <2>2, FS_RemoveElement
    <3> QED
      BY <3>1
  <2>4. PICK t : Lists(t, rest, R)
    <3> HIDE DEF rest
    <3> QED
      BY <1>3, <2>3
  <2> DEFINE s == [k \in 1..(n + 1) |-> IF k = n + 1 THEN x ELSE t[k]]
  <2>5. \A k \in 1..n : t[k] \in rest /\ s[k] = t[k]
    <3>1. t \in [1..n -> rest]
      BY <2>3, <2>4 DEF Lists
    <3>2. \A k \in 1..n : k \in 1..(n + 1) /\ k # n + 1
      OBVIOUS
    <3> HIDE DEF rest
    <3> QED
      BY <3>1, <3>2
  <2>6. s[n + 1] = x /\ \A k \in 1..(n + 1) : k = n + 1 \/ k \in 1..n
    OBVIOUS
  <2>7. s \in [1..(n + 1) -> T]
    <3>1. \A k \in 1..(n + 1) : s[k] \in T
      BY <2>2, <2>5, <2>6
    <3> QED
      BY <3>1
  <2> HIDE DEF s
  <2>8. \A y \in T : \E k \in 1..(n + 1) : s[k] = y
    <3>1. n + 1 \in 1..(n + 1)
      OBVIOUS
    <3>2. \A y \in rest : \E k \in 1..n : t[k] = y
      BY <2>3, <2>4 DEF Lists
    <3> QED
      BY <2>5, <2>6, <3>1, <3>2
  <2>9. ASSUME NEW k \in 1..(n + 1), NEW l \in 1..(n + 1), k < l PROVE <<s[k], s[l]>> \in R
    <3>1. k \in 1..n
      BY <2>9
    <3>2. CASE l = n + 1
      BY <2>2, <2>5, <2>6, <3>1, <3>2
    <3>3. CASE l # n + 1
      <4>1. l \in 1..n
        BY <3>3
      <4>2. <<t[k], t[l]>> \in R
        BY <2>3, <2>4, <2>9, <3>1, <4>1 DEF Lists
      <4> QED
        BY <2>5, <3>1, <4>1, <4>2
    <3> QED
      BY <3>2, <3>3
  <2> QED
    BY <2>7, <2>8, <2>9 DEF Lists
<1> HIDE DEF U
<1>4. Nat \subseteq U
  BY <1>2, <1>3, Induction
<1>5. Cardinality(S) \in U
  BY <1>1, <1>4
<1> QED
  BY <1>5 DEF U

-----------------------------------------------------------------------------
(* HarborRuns. *)
LEMMA FinitenessIsTheSame == \A S : Harbor!IsFiniteSet(S) <=> IsFiniteSet(S)
  BY Zenon DEF Harbor!IsFiniteSet, IsFiniteSet
LEMMA CardinalityIsTheSame == \A S : Harbor!Cardinality(S) = Cardinality(S)
  BY Zenon DEF Harbor!Cardinality, Cardinality, Harbor!IsFiniteSet, IsFiniteSet

LEMMA HarborSets ==
  ASSUME Harbor!ConstantsAreSane, NEW j \in Harbor!Jobs
  PROVE  /\ IsFiniteSet(Harbor!Listed(j)) /\ Cardinality(Harbor!Listed(j)) \in Nat
         /\ Harbor!Scored(j) \subseteq Harbor!Listed(j) /\ Harbor!Listed(j) \subseteq TrialNames
         /\ \A n \in TrialNames : j[n].reward \in 0..2 \cup {None} /\ j[n].exception \in BOOLEAN
         /\ \A s \in 0..2 : /\ Harbor!Scoring(j, s) \subseteq Harbor!Scored(j)
                            /\ IsFiniteSet(Harbor!Scoring(j, s)) /\ Cardinality(Harbor!Scoring(j, s)) \in Nat
         /\ Cardinality(Harbor!Scored(j)) = Cardinality(Harbor!Scoring(j, 0))
              + Cardinality(Harbor!Scoring(j, 1)) + Cardinality(Harbor!Scoring(j, 2))
<1> DEFINE S(s) == Harbor!Scoring(j, s)
<1>1. \A n \in TrialNames : j[n].reward \in 0..2 \cup {None} /\ j[n].exception \in BOOLEAN
  BY DEF Harbor!Jobs, Harbor!ConstantsAreSane, Harbor!Scores, Harbor!Full
<1>2. None \notin 0..2 /\ IsFiniteSet(TrialNames)
  BY Zenon, FinitenessIsTheSame DEF Harbor!ConstantsAreSane, Harbor!Scores, Harbor!Full
<1>3. Harbor!Scored(j) \subseteq Harbor!Listed(j) /\ Harbor!Listed(j) \subseteq TrialNames
  BY DEF Harbor!Scored, Harbor!Listed
<1>4. \A s \in 0..2 : S(s) \subseteq Harbor!Scored(j)
  BY <1>2 DEF Harbor!Scored, Harbor!Scoring
<1>5. Harbor!Scored(j) = (S(0) \cup S(1)) \cup S(2)
  BY <1>1, <1>2 DEF Harbor!Scored, Harbor!Scoring
<1>6. S(0) \cap S(1) = {} /\ (S(0) \cup S(1)) \cap S(2) = {}
  BY DEF Harbor!Scoring
<1>7. IsFiniteSet(Harbor!Listed(j)) /\ IsFiniteSet(Harbor!Scored(j))
  BY <1>2, <1>3, FS_Subset
<1> HIDE DEF S
<1>8. \A s \in 0..2 : IsFiniteSet(S(s)) /\ Cardinality(S(s)) \in Nat
  BY <1>4, <1>7, FS_Subset, FS_CardinalityType
<1> DEFINE low == S(0) \cup S(1)
<1>9. Cardinality(low) = Cardinality(S(0)) + Cardinality(S(1)) /\ IsFiniteSet(low)
  BY <1>6, <1>8, FS_Union, FS_EmptySet
<1>10. Cardinality(Harbor!Scored(j)) = Cardinality(S(0)) + Cardinality(S(1)) + Cardinality(S(2))
  <2>1. Harbor!Scored(j) = low \cup S(2) /\ low \cap S(2) = {} /\ IsFiniteSet(S(2))
    BY <1>5, <1>6, <1>8
  <2> HIDE DEF low
  <2>2. Cardinality(low \cup S(2)) = Cardinality(low) + Cardinality(S(2)) - Cardinality(low \cap S(2))
    BY <1>9, <2>1, FS_Union
  <2> QED
    <3>1. Cardinality(low \cap S(2)) = 0
      BY <2>1, FS_EmptySet
    <3>2. Cardinality(S(2)) \in Nat /\ Cardinality(S(0)) \in Nat /\ Cardinality(S(1)) \in Nat
      BY <1>8
    <3>3. Cardinality(Harbor!Scored(j)) = Cardinality(low \cup S(2))
      BY Zenon, <2>1
    <3> QED
      BY <1>9, <2>2, <3>1, <3>2, <3>3
<1> QED
  BY <1>1, <1>3, <1>4, <1>7, <1>8, <1>10, FS_CardinalityType DEF S

(* The rewards Harbor recorded are as many as the trials that scored. *)
LEMMA RecordedIsCounted ==
  ASSUME Harbor!ConstantsAreSane, NEW j \in Harbor!Jobs
  PROVE  /\ Harbor!Recorded(j) \in Seq(0..2)
         /\ Len(Harbor!Recorded(j)) = Cardinality(Harbor!Scored(j))
         /\ Harbor!Scored(j) # {} => Len(Harbor!Recorded(j)) >= 1
<1>1. \A s \in 0..2 : Harbor!Times(j, s) \in Seq(0..2)
                      /\ Len(Harbor!Times(j, s)) = Harbor!Cardinality(Harbor!Scoring(j, s))
  <2> SUFFICES ASSUME NEW s \in 0..2 PROVE Harbor!Times(j, s) \in Seq(0..2)
                      /\ Len(Harbor!Times(j, s)) = Harbor!Cardinality(Harbor!Scoring(j, s))
    OBVIOUS
  <2> DEFINE k == Harbor!Cardinality(Harbor!Scoring(j, s))
  <2>1. k \in Nat
    BY HarborSets, CardinalityIsTheSame
  <2>2. Harbor!Times(j, s) = [m \in 1..k |-> s]
    BY DEF Harbor!Times
  <2> HIDE DEF k
  <2>3. [m \in 1..k |-> s] \in [1..k -> 0..2]
    OBVIOUS
  <2>4. Harbor!Times(j, s) \in Seq(0..2)
    BY <2>1, <2>2, <2>3, SeqDef
  <2>5. Len(Harbor!Times(j, s)) = k
    BY <2>1, <2>2, <2>3, <2>4, LenProperties
  <2> QED
    BY <2>4, <2>5 DEF k
<1> DEFINE t0 == Harbor!Times(j, 0)
           t1 == Harbor!Times(j, 1)
           t2 == Harbor!Times(j, 2)
<1>2. Harbor!Recorded(j) = (t0 \o t1) \o t2
  BY DEF Harbor!Recorded, Harbor!Full
<1>3. t0 \in Seq(0..2) /\ t1 \in Seq(0..2) /\ t2 \in Seq(0..2)
  BY <1>1
<1>4. /\ Len(t0) = Cardinality(Harbor!Scoring(j, 0)) /\ Len(t1) = Cardinality(Harbor!Scoring(j, 1))
      /\ Len(t2) = Cardinality(Harbor!Scoring(j, 2))
  BY <1>1, CardinalityIsTheSame
<1> HIDE DEF t0, t1, t2
<1>5. t0 \o t1 \in Seq(0..2) /\ Len(t0 \o t1) = Len(t0) + Len(t1)
  BY <1>3, ConcatProperties
<1>6. (t0 \o t1) \o t2 \in Seq(0..2) /\ Len((t0 \o t1) \o t2) = Len(t0 \o t1) + Len(t2)
  BY <1>3, <1>5, ConcatProperties
<1>7. Harbor!Recorded(j) \in Seq(0..2) /\ Len(Harbor!Recorded(j)) = Cardinality(Harbor!Scored(j))
  BY <1>2, <1>4, <1>5, <1>6, HarborSets
<1>8. Harbor!Scored(j) # {} => Cardinality(Harbor!Scored(j)) >= 1
  <2>1. IsFiniteSet(Harbor!Scored(j))
    BY HarborSets, FS_Subset
  <2>2. Cardinality(Harbor!Scored(j)) \in Nat /\ (Cardinality(Harbor!Scored(j)) = 0 <=> Harbor!Scored(j) = {})
    BY <2>1, FS_CardinalityType, FS_EmptySet
  <2> QED
    BY <2>2
<1> QED
  BY <1>7, <1>8

(* The mean is full exactly when every listed trial scored fully. *)
LEMMA MeanIsFull ==
  ASSUME Harbor!ConstantsAreSane, NEW j \in Harbor!Jobs, Harbor!Listed(j) # {}
  PROVE  /\ Harbor!Mean(j) \in 0..2
         /\ Harbor!Mean(j) = 2 <=> \A n \in Harbor!Listed(j) : j[n].reward = 2
<1> DEFINE L == Harbor!Listed(j)
           one == Harbor!Scoring(j, 1)
           two == Harbor!Scoring(j, 2)
           l == Cardinality(L)
           c1 == Cardinality(one)
           c2 == Cardinality(two)
<1>1. /\ IsFiniteSet(L) /\ IsFiniteSet(one) /\ IsFiniteSet(two) /\ one \subseteq L /\ two \subseteq L
      /\ l \in Nat /\ c1 \in Nat /\ c2 \in Nat
  BY HarborSets
<1>2. one \cap two = {}
  BY DEF Harbor!Scoring
<1>3. Harbor!Mean(j) = (c1 + 2 * c2) \div l
  <2>1. Harbor!Cardinality(one) = c1 /\ Harbor!Cardinality(two) = c2 /\ Harbor!Cardinality(L) = l
    BY Zenon, CardinalityIsTheSame
  <2>2. Harbor!Mean(j) = (Harbor!Cardinality(one) + 2 * Harbor!Cardinality(two)) \div Harbor!Cardinality(L)
    BY Zenon DEF Harbor!Mean, Harbor!Full
  <2> HIDE DEF one, two, L
  <2> QED
    BY Zenon, <2>1, <2>2
<1>4. two = L <=> \A n \in L : j[n].reward = 2
  <2>1. L \subseteq TrialNames /\ two \subseteq L
    BY HarborSets
  <2>2. \A n \in TrialNames : n \in two <=> j[n].reward = 2
    BY DEF Harbor!Scoring
  <2> HIDE DEF two, L
  <2> QED
    BY <2>1, <2>2
<1> HIDE DEF L, one, two
<1>5. l > 0
  BY <1>1, FS_EmptySet DEF L
<1>6. c1 + c2 <= l
  <2>1. Cardinality(one \cup two) = Cardinality(one) + Cardinality(two) - Cardinality(one \cap two)
    BY <1>1, FS_Union
  <2>2. Cardinality(one \cup two) <= l /\ Cardinality(one \cap two) = 0
    BY <1>1, <1>2, FS_Subset, FS_EmptySet
  <2> QED
    BY <1>1, <2>1, <2>2
<1>7. c2 = l <=> two = L
  BY <1>1, FS_Subset
<1> HIDE DEF l, c1, c2
<1>8. (c1 + 2 * c2) \div l \in 0..2 /\ ((c1 + 2 * c2) \div l = 2 <=> c2 = l)
  BY <1>1, <1>5, <1>6
<1> QED
  BY <1>3, <1>4, <1>7, <1>8 DEF L

(* What is read of a run, if anything, scores as the run did. *)
Fits(v, truth) == truth \in {IF v = 2 THEN "full" ELSE "less", "one"}

LEMMA ReadingsFit ==
  ASSUME Harbor!ConstantsAreSane, NEW j \in Harbor!Jobs, NEW found, NEW shows,
         NEW values \in Harbor!Readings(j, found, shows), values # None
  PROVE  /\ values \in Seq(0..2) /\ Len(values) >= 1
         /\ Len(values) = 1 => Fits(values[1], Harbor!Truth(j, found, shows))
<1> DEFINE rec == Harbor!Recorded(j)
           file == found = "whole" /\ Harbor!Scored(j) # {}
           table == "table" \in shows /\ Harbor!Scored(j) # {}
           label == "labelled" \in shows /\ Harbor!Scored(j) # {}
<1>1. rec \in Seq(0..2) /\ (Harbor!Scored(j) # {} => Len(rec) >= 1)
  BY RecordedIsCounted
<1>2. rec # None
  <2>1. None \notin Seq(0..2)
    BY DEF Harbor!ConstantsAreSane, Harbor!Scores, Harbor!Full
  <2> HIDE DEF rec
  <2> QED
    BY <1>1, <2>1
<1>3. Harbor!FromFile(j, found) = IF file THEN rec ELSE None
  BY Zenon DEF Harbor!FromFile
<1>4. file \/ table => Harbor!Truth(j, found, shows) =
                         IF Len(rec) # 1 THEN "several" ELSE IF rec[1] = 2 THEN "full" ELSE "less"
  BY DEF Harbor!Truth, Harbor!Full
<1>5. ASSUME values = rec, file \/ table
      PROVE  /\ values \in Seq(0..2) /\ Len(values) >= 1
             /\ Len(values) = 1 => Fits(values[1], Harbor!Truth(j, found, shows))
  <2> HIDE DEF rec
  <2> QED
    BY <1>1, <1>4, <1>5 DEF Fits
<1>6. CASE file
  <2>1. Harbor!Readings(j, found, shows) = {rec}
    BY Zenon, <1>2, <1>3, <1>6 DEF Harbor!Readings
  <2> HIDE DEF rec
  <2> QED
    BY <1>5, <1>6, <2>1
<1>7. CASE ~file
  <2>1. values \in Harbor!FromOutput(j, shows)
    BY Zenon, <1>3, <1>7 DEF Harbor!Readings
  <2>2. CASE table
    <3>1. Harbor!FromOutput(j, shows) = {rec}
      BY <2>2 DEF Harbor!FromOutput
    <3> HIDE DEF rec
    <3> QED
      BY <1>5, <2>1, <2>2, <3>1
  <2>3. CASE ~table /\ label
    <3>1. Harbor!FromOutput(j, shows) = {<<j[n].reward>> : n \in Harbor!Scored(j)}
      BY <2>3 DEF Harbor!FromOutput
    <3>2. PICK n \in Harbor!Scored(j) : values = <<j[n].reward>>
      BY <2>1, <3>1
    <3>3. Harbor!Truth(j, found, shows) = "one"
      BY <1>7, <2>3 DEF Harbor!Truth
    <3>4. j[n].reward \in 0..2
      BY HarborSets DEF Harbor!Scored
    <3> QED
      BY <3>2, <3>3, <3>4 DEF Fits
  <2>4. CASE ~table /\ ~label
    <3>1. Harbor!FromOutput(j, shows)
            = IF "mean" \in shows /\ Harbor!Listed(j) # {} THEN {<<Harbor!Mean(j)>>} ELSE {None}
      BY <2>4 DEF Harbor!FromOutput
    <3> DEFINE mean == Harbor!Mean(j)
    <3>2. Harbor!Listed(j) # {} /\ values = <<mean>>
      BY <2>1, <3>1
    <3>3. Harbor!Truth(j, found, shows) = IF \A n \in Harbor!Listed(j) : j[n].reward = 2 THEN "full" ELSE "less"
      BY <1>7, <2>4 DEF Harbor!Truth, Harbor!Full
    <3>4. mean \in 0..2 /\ (mean = 2 <=> \A n \in Harbor!Listed(j) : j[n].reward = 2)
      BY <3>2, MeanIsFull
    <3> HIDE DEF mean
    <3> QED
      BY <3>2, <3>3, <3>4 DEF Fits
  <2> QED
    BY <2>2, <2>3, <2>4
<1> QED
  BY <1>6, <1>7

(* Trials are listed once each, those that raised first. *)
LEMMA TrialsAreOrdered ==
  ASSUME Harbor!ConstantsAreSane, NEW j \in Harbor!Jobs
  PROVE  LET L == Harbor!Listed(j)
             s == Harbor!Ordered(j)
         IN /\ s \in [1..Cardinality(L) -> L] /\ \A n \in L : \E k \in 1..Cardinality(L) : s[k] = n
            /\ \A k, l \in 1..Cardinality(L) : k < l => s[k] # s[l] /\ Harbor!Precedes(j, s[k], s[l])
<1> DEFINE L == Harbor!Listed(j)
           N == Cardinality(L)
           R == {mn \in L \X L : Harbor!Precedes(j, mn[1], mn[2])}
           Is(s) == s \in Harbor!Bijection(1..N, L) /\ \A k, l \in DOMAIN s : k < l => Harbor!Precedes(j, s[k], s[l])
<1>1. /\ IsFiniteSet(L) /\ N \in Nat /\ L \subseteq Nat
      /\ \A n \in L : j[n].exception \in BOOLEAN
  BY HarborSets DEF Harbor!ConstantsAreSane
<1>2. \A m, n \in L : <<m, n>> \in R <=> Harbor!Precedes(j, m, n)
  OBVIOUS
<1> HIDE DEF L, R
<1>3. Orders(R, L)
  <2>1. \A n \in L : ~Harbor!Precedes(j, n, n)
    BY <1>1 DEF Harbor!Precedes
  <2>2. \A m, n \in L : m # n => Harbor!Precedes(j, m, n) \/ Harbor!Precedes(j, n, m)
    BY <1>1 DEF Harbor!Precedes
  <2>3. \A k, m, n \in L : Harbor!Precedes(j, k, m) /\ Harbor!Precedes(j, m, n) => Harbor!Precedes(j, k, n)
    BY <1>1 DEF Harbor!Precedes
  <2> QED
    BY <1>2, <2>1, <2>2, <2>3 DEF Orders
<1>4. PICK s : Lists(s, L, R)
  BY <1>1, <1>3, CanBeListed
<1>5. Is(s)
  <2>1. s \in [1..N -> L] /\ \A n \in L : \E k \in 1..N : s[k] = n
    BY <1>4 DEF Lists
  <2>2. \A k, l \in 1..N : k < l => <<s[k], s[l]>> \in R
    BY <1>4 DEF Lists
  <2>3. \A k, l \in 1..N : s[k] = s[l] => k = l
    <3> SUFFICES ASSUME NEW k \in 1..N, NEW l \in 1..N, k < l PROVE s[k] # s[l]
      BY <1>1
    <3> QED
      BY <1>3, <2>1, <2>2 DEF Orders
  <2>4. \A k, l \in 1..N : k < l => Harbor!Precedes(j, s[k], s[l])
    BY <1>2, <2>1, <2>2
  <2>5. s \in Harbor!Bijection(1..N, L)
    BY <2>1, <2>3 DEF Harbor!Bijection, Harbor!Injection, Harbor!Surjection, Harbor!IsInjective
  <2> QED
    BY <2>1, <2>4, <2>5
<1> DEFINE o == Harbor!Ordered(j)
<1>6. Is(o)
  <2>1. N = Harbor!Cardinality(Harbor!Listed(j))
    BY Zenon, CardinalityIsTheSame DEF L
  <2>2. o = CHOOSE t : Is(t)
    BY Zenon, <2>1 DEF Harbor!Ordered, L
  <2> HIDE DEF Is, o, N
  <2> QED
    BY Zenon, <1>5, <2>2
<1>7. o \in [1..N -> L] /\ \A n \in L : \E k \in 1..N : o[k] = n
  BY <1>6 DEF Harbor!Bijection, Harbor!Injection, Harbor!Surjection
<1>8. \A k, l \in 1..N : k < l => o[k] # o[l]
  <2>1. \A k, l \in 1..N : o[k] = o[l] => k = l
    BY <1>6, <1>7 DEF Harbor!Bijection, Harbor!Injection, Harbor!IsInjective
  <2> HIDE DEF o, N
  <2> QED
    BY <1>1, <2>1
<1> QED
  BY <1>6, <1>7, <1>8 DEF L

(* As many entries as fit are kept, from the front. *)
LEMMA SomeFit ==
  ASSUME Harbor!ConstantsAreSane, NEW X, NEW s \in Seq(X), NEW long
  PROVE  \E k \in 0..Len(s) : Harbor!Fitting(s, long) = SubSeq(s, 1, k)
<1> DEFINE N == Len(s)
           B(k) == Harbor!Bytes(SubSeq(s, 1, k), long)
           T == {k \in 0..N : B(k) <= MaxEvidence}
           Is(k) == k \in 0..N /\ B(k) <= MaxEvidence /\ \A l \in (k + 1)..N : B(l) > MaxEvidence
<1>1. N \in Nat /\ MaxEvidence \in Nat
  BY LenProperties DEF Harbor!ConstantsAreSane
<1>2. ASSUME NEW k \in 0..N PROVE B(k) \in Nat /\ (k = 0 => B(k) = 0)
  <2> DEFINE t == SubSeq(s, 1, k)
             C == {l \in DOMAIN t : t[l].opened /\ t[l].trial \in long}
  <2>1. t \in Seq(X) /\ Len(t) = k
    BY <1>2, PrefixOfSeq
  <2> HIDE DEF t
  <2>2. DOMAIN t = 1..k /\ IsFiniteSet(1..k) /\ Cardinality(1..k) = (IF 1 > k THEN 0 ELSE k - 1 + 1)
    BY <1>1, <2>1, LenProperties, FS_Interval
  <2>3. IsFiniteSet(C) /\ Cardinality(C) <= Cardinality(1..k) /\ C \in SUBSET (1..k)
    <3>1. C \in SUBSET (1..k)
      BY <2>2
    <3> HIDE DEF C
    <3> QED
      BY <2>2, <3>1, FS_Subset
  <2>4. Cardinality(C) \in Nat
    BY <2>3, FS_CardinalityType
  <2>5. B(k) = Len(t) + Cardinality(C)
    <3>1. B(k) = Len(t) + Harbor!Cardinality(C)
      BY Zenon DEF Harbor!Bytes, t
    <3>2. Harbor!Cardinality(C) = Cardinality(C)
      BY Zenon, CardinalityIsTheSame
    <3> QED
      BY Zenon, <3>1, <3>2
  <2>6. k = 0 => Cardinality(C) = 0
    BY <2>2, <2>3, <2>4
  <2> HIDE DEF B, C
  <2> QED
    BY <1>1, <2>1, <2>4, <2>5, <2>6
<1> HIDE DEF B
<1>3. T \in SUBSET (0..N) /\ T # {}
  <2>1. 0 \in T
    BY <1>1, <1>2
  <2> QED
    BY <2>1
<1>4. PICK k \in T : \A l \in T : k >= l
  BY <1>1, <1>3, Greatest
<1>5. Is(k)
  BY <1>1, <1>2, <1>4
<1> DEFINE fits == CHOOSE m : Is(m)
<1>6. Is(fits)
  <2> HIDE DEF Is
  <2> QED
    BY Zenon, <1>5
<1>7. Harbor!Fitting(s, long) = SubSeq(s, 1, fits)
  BY Zenon DEF Harbor!Fitting, B
<1> HIDE DEF fits
<1> QED
  BY <1>6, <1>7

(* What an evidence of a run accounts for. *)
Accounts(e, j) ==
  /\ e \in Harbor!Evidences
  /\ LET met == {e.trials[k].trial : k \in DOMAIN e.trials}
     IN /\ Cardinality(met) = Len(e.trials)
        /\ e.omitted = Cardinality(Harbor!Listed(j) \ met) /\ met \subseteq Harbor!Listed(j)
        /\ \A k \in DOMAIN e.trials : e.trials[k].reward = j[e.trials[k].trial].reward
        /\ \A m \in Harbor!Listed(j) \ met, n \in met : j[m].exception => j[n].exception
        /\ e.omittedRewards + Len(e.rewards) = Cardinality(Harbor!Scored(j))

LEMMA FewOf ==
  ASSUME NEW X, NEW s \in Seq(X), NEW most \in Nat
  PROVE  /\ Harbor!Few(s, most) \in Seq(X) /\ Len(Harbor!Few(s, most)) \in 0..Len(s)
         /\ \A k \in 1..Len(Harbor!Few(s, most)) : Harbor!Few(s, most)[k] = s[k]
<1> DEFINE k == IF Len(s) < most THEN Len(s) ELSE most
<1>1. k \in 0..Len(s)
  BY LenProperties
<1>2. Harbor!Few(s, most) = SubSeq(s, 1, k)
  BY Zenon DEF Harbor!Few
<1> HIDE DEF k
<1> QED
  BY <1>1, <1>2, PrefixOfSeq

(* The trials of an evidence are the first ones in their order. *)
LEMMA FirstTrials ==
  ASSUME Harbor!ConstantsAreSane, NEW j \in Harbor!Jobs, NEW lost, NEW long
  PROVE  \E k \in 0..Cardinality(Harbor!Listed(j)) :
           LET t == Harbor!Evidence(j, lost, long).trials
           IN /\ t \in Seq(Harbor!Shown) /\ Len(t) = k
              /\ \A l \in 1..k : t[l] = Harbor!Entry(j, Harbor!Ordered(j)[l], lost)
<1> DEFINE L == Harbor!Listed(j)
           N == Cardinality(L)
           o == Harbor!Ordered(j)
           few == Harbor!Few(o, MaxTrials)
           E == [l \in DOMAIN few |-> Harbor!Entry(j, o[l], lost)]
           t == Harbor!Evidence(j, lost, long).trials
<1>1. N \in Nat /\ L \subseteq TrialNames /\ MaxTrials \in Nat /\ \A n \in TrialNames : j[n].reward \in 0..2 \cup {None}
  BY HarborSets DEF Harbor!ConstantsAreSane
<1>2. o \in [1..N -> L]
  BY TrialsAreOrdered
<1>3. t = Harbor!Fitting(E, long)
  <2> DEFINE f == Harbor!Fitting(E, long)
  <2>1. t = f
    <3>1. Harbor!Evidence(j, lost, long) =
            [rewards |-> Harbor!Few(Harbor!Recorded(j), MaxRewards),
             omittedRewards |-> Len(Harbor!Recorded(j)) - Len(Harbor!Few(Harbor!Recorded(j), MaxRewards)),
             trials |-> f, omitted |-> Harbor!Cardinality(Harbor!Listed(j)) - Len(f)]
      BY Zenon DEF Harbor!Evidence
    <3> HIDE DEF f
    <3> QED
      BY <3>1
  <2> QED
    BY <2>1
<1> HIDE DEF L, N, o, t
<1>4. o \in Seq(L) /\ Len(o) = N
  <2>1. o \in Seq(L)
    BY <1>1, <1>2, SeqDef
  <2> QED
    BY <1>1, <1>2, <2>1, LenProperties
<1>5. few \in Seq(L) /\ Len(few) \in 0..N /\ DOMAIN few = 1..Len(few)
  BY <1>1, <1>4, FewOf, LenProperties
<1> HIDE DEF few
<1>6. \A l \in 1..Len(few) : Harbor!Entry(j, o[l], lost) \in Harbor!Shown
  <2> SUFFICES ASSUME NEW l \in 1..Len(few) PROVE Harbor!Entry(j, o[l], lost) \in Harbor!Shown
    OBVIOUS
  <2>1. o[l] \in TrialNames
    BY <1>1, <1>2, <1>5
  <2> HIDE DEF o
  <2> QED
    BY <1>1, <2>1 DEF Harbor!Entry, Harbor!Shown, Harbor!Scores, Harbor!Full
<1>7. /\ E \in Seq(Harbor!Shown) /\ Len(E) = Len(few)
      /\ \A l \in 1..Len(few) : E[l] = Harbor!Entry(j, o[l], lost)
  <2>1. E \in [1..Len(few) -> Harbor!Shown] /\ \A l \in 1..Len(few) : E[l] = Harbor!Entry(j, o[l], lost)
    BY <1>5, <1>6
  <2> HIDE DEF E
  <2>2. Len(few) \in Nat
    BY <1>1, <1>5
  <2>3. E \in Seq(Harbor!Shown)
    BY <2>1, <2>2, SeqDef
  <2> QED
    BY <2>1, <2>2, <2>3, LenProperties
<1> HIDE DEF E
<1>8. PICK k \in 0..Len(E) : t = SubSeq(E, 1, k)
  BY <1>3, <1>7, SomeFit
<1>9. k \in 0..N /\ \A l \in 1..k : l \in 1..Len(few)
  BY <1>1, <1>5, <1>7, <1>8
<1>10. t \in Seq(Harbor!Shown) /\ Len(t) = k /\ \A l \in 1..k : t[l] = E[l]
  BY <1>7, <1>8, PrefixOfSeq
<1> QED
  BY <1>7, <1>9, <1>10 DEF L, N, o, t

LEMMA EvidenceAccounts ==
  ASSUME Harbor!ConstantsAreSane, NEW j \in Harbor!Jobs, NEW lost, NEW long
  PROVE  Accounts(Harbor!Evidence(j, lost, long), j)
<1> DEFINE L == Harbor!Listed(j)
           N == Cardinality(L)
           o == Harbor!Ordered(j)
           rec == Harbor!Recorded(j)
           few == Harbor!Few(rec, MaxRewards)
           e == Harbor!Evidence(j, lost, long)
           t == e.trials
<1>1. PICK k \in 0..N : t \in Seq(Harbor!Shown) /\ Len(t) = k /\ \A l \in 1..k : t[l] = Harbor!Entry(j, o[l], lost)
  BY FirstTrials
<1>2. /\ o \in [1..N -> L] /\ \A n \in L : \E l \in 1..N : o[l] = n
      /\ \A l, m \in 1..N : l < m => o[l] # o[m] /\ Harbor!Precedes(j, o[l], o[m])
  BY TrialsAreOrdered
<1>3. N \in Nat /\ IsFiniteSet(L) /\ L \subseteq TrialNames
  BY HarborSets
<1>4. rec \in Seq(0..2) /\ Len(rec) = Cardinality(Harbor!Scored(j))
  BY RecordedIsCounted
<1>5. e = [rewards |-> few, omittedRewards |-> Len(rec) - Len(few), trials |-> t, omitted |-> N - Len(t)]
  <2> DEFINE f == Harbor!Fitting([l \in DOMAIN Harbor!Few(Harbor!Ordered(j), MaxTrials) |->
                                    Harbor!Entry(j, Harbor!Ordered(j)[l], lost)], long)
  <2>1. e = [rewards |-> few, omittedRewards |-> Len(rec) - Len(few), trials |-> f,
             omitted |-> Harbor!Cardinality(L) - Len(f)]
    BY Zenon DEF Harbor!Evidence
  <2>2. Harbor!Cardinality(L) = N
    BY Zenon, CardinalityIsTheSame
  <2>3. t = f
    <3> HIDE DEF f, e, few, rec
    <3> QED
      BY <2>1
  <2> HIDE DEF f, e, few, rec, t, N, L
  <2> QED
    BY Zenon, <2>1, <2>2, <2>3
<1> HIDE DEF L, N, o, rec, e
<1>6. few \in Seq(0..2) /\ Len(few) \in 0..Len(rec)
  <2>1. MaxRewards \in Nat
    BY DEF Harbor!ConstantsAreSane
  <2> QED
    BY <1>4, <2>1, FewOf
<1> HIDE DEF few
<1> DEFINE met == {t[l].trial : l \in DOMAIN t}
<1>7. DOMAIN t = 1..k /\ \A l \in 1..k : t[l].trial = o[l] /\ t[l].reward = j[o[l]].reward /\ o[l] \in L /\ l \in 1..N
  <2>1. DOMAIN t = 1..k
    BY <1>1, LenProperties
  <2>2. \A l \in 1..k : l \in 1..N
    BY <1>1, <1>3
  <2>3. \A l \in 1..k : t[l] = [trial |-> o[l], reward |-> j[o[l]].reward, opened |-> o[l] \notin lost]
    BY Zenon, <1>1 DEF Harbor!Entry
  <2> HIDE DEF t
  <2>4. ASSUME NEW l \in 1..k PROVE t[l].trial = o[l] /\ t[l].reward = j[o[l]].reward
    <3> DEFINE v == j[o[l]].reward
               w == o[l] \notin lost
               u == o[l]
    <3>1. t[l] = [trial |-> u, reward |-> v, opened |-> w]
      BY Zenon, <2>3
    <3> HIDE DEF u, v, w
    <3>2. t[l].trial = u /\ t[l].reward = v
      BY <3>1
    <3> QED
      BY Zenon, <3>2 DEF u, v
  <2>5. \A l \in 1..k : o[l] \in L
    BY <1>2, <2>2
  <2> QED
    BY <2>1, <2>2, <2>4, <2>5
<1>8. met = {o[l] : l \in 1..k}
  <2> HIDE DEF t
  <2> QED
    BY <1>7
<1> HIDE DEF met, t
<1>9. met \subseteq L
  BY <1>7, <1>8
<1>10. Cardinality(met) = k
  <2> DEFINE f == [l \in 1..k |-> o[l]]
  <2>1. \A l, m \in 1..k : o[l] = o[m] => l = m
    BY <1>2, <1>3, <1>7
  <2>2. f \in Surjection(1..k, met) /\ f \in Injection(1..k, met)
    BY <1>8, <2>1 DEF Surjection, Injection, IsInjective
  <2> HIDE DEF f
  <2>3. IsFiniteSet(1..k) /\ Cardinality(1..k) = k
    BY <1>1, <1>3, FS_Interval
  <2> QED
    BY <2>2, <2>3, FS_Surjection
<1>11. Cardinality(L \ met) = N - k
  <2>1. L \cap met = met
    BY <1>9
  <2>2. Cardinality(L \ met) = N - Cardinality(L \cap met)
    BY <1>3, FS_Difference DEF N
  <2> QED
    BY <1>10, <2>1, <2>2
<1>12. ASSUME NEW m \in L \ met, NEW n \in met, j[m].exception PROVE j[n].exception
  <2>1. PICK l \in 1..k : n = o[l]
    BY <1>8
  <2>2. PICK h \in 1..N : m = o[h]
    BY <1>2
  <2>3. h \notin 1..k
    BY <1>8, <2>2
  <2>4. l < h /\ l \in 1..N
    BY <1>1, <1>3, <2>3, <1>7
  <2>5. Harbor!Precedes(j, n, m)
    BY <1>2, <2>1, <2>2, <2>4
  <2> QED
    BY <1>12, <2>5 DEF Harbor!Precedes
<1>13. e \in Harbor!Evidences
  <2>1. Len(rec) - Len(few) \in Nat /\ N - Len(t) \in Nat
    <3>1. Len(rec) \in Nat
      BY <1>4, LenProperties
    <3> QED
      BY <1>1, <1>3, <1>6, <3>1 DEF t
  <2>2. t \in Seq(Harbor!Shown) /\ few \in Seq(Harbor!Scores)
    BY <1>1, <1>6 DEF t, Harbor!Scores, Harbor!Full
  <2> QED
    BY <1>5, <2>1, <2>2 DEF Harbor!Evidences
<1>14. Len(t) = k
  BY <1>1 DEF t
<1>15. e.omittedRewards + Len(e.rewards) = Cardinality(Harbor!Scored(j))
  <2>1. e.omittedRewards = Len(rec) - Len(few) /\ e.rewards = few
    BY <1>5
  <2>2. Len(rec) \in Nat /\ Len(few) \in Nat
    BY <1>4, <1>6, LenProperties
  <2> QED
    BY <1>4, <2>1, <2>2
<1>16. e.omitted = N - k /\ e.trials = t
  BY <1>5, <1>14
<1>17. met = {e.trials[l].trial : l \in DOMAIN e.trials}
  BY Zenon, <1>16 DEF met
<1>18. \A l \in DOMAIN e.trials : e.trials[l].reward = j[e.trials[l].trial].reward
  <2>1. \A l \in DOMAIN t : t[l].reward = j[t[l].trial].reward
    BY <1>7 DEF t
  <2> QED
    BY Zenon, <2>1, <1>16
<1>19. e.omitted = Cardinality(L \ met)
  BY <1>11, <1>16
<1>20. Cardinality(met) = Len(e.trials)
  BY <1>10, <1>14, <1>16
<1> QED
  <2> HIDE DEF e
  <2> QED
    BY Zenon, <1>9, <1>12, <1>13, <1>15, <1>17, <1>18, <1>19, <1>20 DEF Accounts, L, e

(* The runs of each agent among the first n Harbor runs of the profile, and where they are. *)
RunsOf(agent, n) == IF agent = "oracle" THEN (n + 1) \div 2 ELSE n \div 2
PlaceOf(agent, n) == IF agent = "oracle" THEN 2 * n - 1 ELSE 2 * n
Truths == {"full", "less", "one", "several"}

(* When every run gave rewards, each agent has one for each of its runs; when it has no     *)
(* more than that, they are those of its runs, in their order.                              *)
Earned ==
  missing = 0 =>
    \A agent \in Harbor!Agents :
      /\ Len(rewards[agent]) >= RunsOf(agent, Len(past))
      /\ Len(rewards[agent]) = RunsOf(agent, Len(past)) =>
           \A n \in 1..RunsOf(agent, Len(past)) : Fits(rewards[agent][n], past[PlaceOf(agent, n)])

RunsHarborNow == Harbor!Profile(req.profile)[at] \in Harbor!Agents

(* The Harbor profile has made as many of its four runs as it has come to.                  *)
OnPace ==
  /\ past \in Seq(Truths) /\ Len(past) <= 4 /\ missing \in 0..Len(past)
  /\ req.kind = "profile" /\ req.profile = "dynamo-harbor-task" =>
       /\ at \in 1..6
       /\ pc \in {"begin", "run", "ended"} => Len(past) = IF at <= 3 THEN 0 ELSE at - 3
       /\ pc = "verdict" => failed \/ (at = 6 /\ Len(past) = 4)
  /\ req.kind = "profile" /\ req.profile # "dynamo-harbor-task" => at \in 1..2 /\ past = <<>>
  /\ req.kind # "profile" => past = <<>> /\ pc # "verdict"

(* A Harbor run that ended has a job, and the tool for one run nothing before.              *)
HasItsJob ==
  /\ req.kind = "profile" /\ pc = "ended" /\ RunsHarborNow => job \in Harbor!Jobs
  /\ req.kind = "harbor" /\ pc = "ended" => job \in Harbor!Jobs
  /\ req.kind = "harbor" /\ pc \in {"begin", "run"} => job = None

HarborInv ==
  /\ Harbor!TypeOK /\ rewards \in [Harbor!Agents -> Seq(0..2)]
  /\ OnPace /\ HasItsJob /\ Earned
  /\ Harbor!PassesWhatScored /\ Harbor!AccountsForTrials

LEMMA DynamoCommands ==
  LET C == Harbor!Profile("dynamo-harbor-task")
  IN /\ Len(C) = 6 /\ \A k \in 1..6 : C[k] \in Harbor!Agents <=> k >= 3
     /\ C[3] = "oracle" /\ C[4] = "nop" /\ C[5] = "oracle" /\ C[6] = "nop"
<1> DEFINE C == Harbor!Profile("dynamo-harbor-task")
<1>1. C = <<"git", "bash", "oracle", "nop", "oracle", "nop">>
  BY DEF Harbor!Profile
<1> HIDE DEF C
<1>2. /\ Len(C) = 6 /\ C[1] = "git" /\ C[2] = "bash"
      /\ C[3] = "oracle" /\ C[4] = "nop" /\ C[5] = "oracle" /\ C[6] = "nop"
  BY <1>1
<1>3. ASSUME NEW k \in 1..6 PROVE C[k] \in Harbor!Agents <=> k >= 3
  <2>1. k = 1 \/ k = 2 \/ k = 3 \/ k = 4 \/ k = 5 \/ k = 6
    OBVIOUS
  <2> QED
    BY <1>2, <2>1 DEF Harbor!Agents
<1> QED
  BY <1>2, <1>3 DEF C

LEMMA OtherCommands ==
  ASSUME NEW name, name # "dynamo-harbor-task"
  PROVE  Len(Harbor!Profile(name)) = 2 /\ \A k \in 1..2 : Harbor!Profile(name)[k] \notin Harbor!Agents
<1> DEFINE C == Harbor!Profile(name)
<1>1. C = <<"git", "git">>
  BY DEF Harbor!Profile
<1> HIDE DEF C
<1>2. Len(C) = 2 /\ C[1] = "git" /\ C[2] = "git"
  BY <1>1
<1>3. ASSUME NEW k \in 1..2 PROVE C[k] \notin Harbor!Agents
  <2>1. k = 1 \/ k = 2
    OBVIOUS
  <2> QED
    BY <1>2, <2>1 DEF Harbor!Agents
<1> QED
  BY <1>2, <1>3 DEF C

LEMMA RepliesAreNotNone ==
  ASSUME Harbor!ConstantsAreSane
  PROVE  \A r \in Harbor!Replies : r # None
  BY DEF Harbor!ConstantsAreSane

LEMMA HarborInit ==
  ASSUME Harbor!ConstantsAreSane, Harbor!Init
  PROVE  HarborInv
<1> USE DEF Harbor!Init
<1>1. Harbor!TypeOK
  <2>1. \A agent \in Harbor!Agents : rewards[agent] = <<>>
    OBVIOUS
  <2>2. \A agent \in Harbor!Agents : \A k \in DOMAIN rewards[agent] : rewards[agent][k] \in Harbor!Scores
    BY <2>1
  <2>3. /\ pc = "begin" /\ at = 1 /\ exit = None /\ job = None /\ failed = FALSE /\ timedOut = FALSE
        /\ missing = 0 /\ az = None /\ report = None /\ req \in Harbor!HarborCalls
    OBVIOUS
  <2> HIDE DEF Harbor!Init
  <2>5. at \in 1..7 /\ missing \in 0..4 /\ failed \in BOOLEAN /\ timedOut \in BOOLEAN
    <3>1. 1 \in 1..7 /\ 0 \in 0..4
      OBVIOUS
    <3> QED
      BY Zenon, <2>3, <3>1
  <2>4. /\ pc \in {"begin", "run", "ended", "verdict", "end"} /\ pc # "end" /\ az \in {None, "what-if", "create"}
        /\ exit \in Harbor!Exits \cup {None} /\ job \in Harbor!Jobs \cup {None} /\ report \in Harbor!Replies \cup {None}
    BY Zenon, <2>3
  <2> QED
    BY Zenon, <2>2, <2>3, <2>4, <2>5 DEF Harbor!TypeOK
<1>2. rewards \in [Harbor!Agents -> Seq(0..2)]
  <2>1. <<>> \in Seq(0..2)
    OBVIOUS
  <2> QED
    BY <2>1
<1>3. OnPace
  <2>1. past = <<>> /\ <<>> \in Seq(Truths) /\ Len(<<>>) = 0
    OBVIOUS
  <2> QED
    BY <2>1 DEF OnPace
<1>4. HasItsJob
  BY DEF HasItsJob
<1>5. Earned
  <2>1. Len(past) = 0 /\ \A agent \in Harbor!Agents : Len(rewards[agent]) = 0
    OBVIOUS
  <2>2. \A agent \in Harbor!Agents : RunsOf(agent, 0) = 0
    BY DEF RunsOf
  <2> QED
    BY <2>1, <2>2 DEF Earned
<1>6. Harbor!PassesWhatScored /\ Harbor!AccountsForTrials
  BY DEF Harbor!PassesWhatScored, Harbor!AccountsForTrials
<1> QED
  BY <1>1, <1>2, <1>3, <1>4, <1>5, <1>6 DEF HarborInv

(* What only the last reply can break holds as long as there is none. *)
LEMMA NoReplyYet ==
  ASSUME report' = None
  PROVE  Harbor!PassesWhatScored' /\ Harbor!AccountsForTrials'
  BY DEF Harbor!PassesWhatScored, Harbor!AccountsForTrials

LEMMA BeginKeeps ==
  ASSUME Harbor!ConstantsAreSane, HarborInv, Harbor!Begin
  PROVE  HarborInv'
<1>1. /\ UNCHANGED <<req, at, exit, job, failed, timedOut, rewards, missing, past>> /\ pc = "begin"
      /\ \/ pc' = "run" /\ UNCHANGED report /\ az' \in {None, "what-if", "create"}
         \/ /\ pc' = "end" /\ report' = [status |-> "refused"] /\ UNCHANGED az /\ req.kind # "profile"
  BY DEF Harbor!Begin, Harbor!Report, Harbor!gathered, HarborInv, Harbor!TypeOK, Harbor!HarborCalls
<1>2. HarborInv /\ (pc = "begin" => report = None) /\ [status |-> "refused"] \in Harbor!Replies
  BY <1>1 DEF HarborInv, Harbor!TypeOK, Harbor!Replies, Harbor!Statuses
<1>3. Harbor!TypeOK'
  BY <1>1, <1>2, RepliesAreNotNone DEF HarborInv, Harbor!TypeOK
<1>4. rewards' \in [Harbor!Agents -> Seq(0..2)] /\ OnPace' /\ HasItsJob' /\ Earned'
  BY <1>1 DEF HarborInv, OnPace, HasItsJob, Earned, RunsHarborNow
<1>5. Harbor!PassesWhatScored' /\ Harbor!AccountsForTrials'
  <2>1. CASE pc' = "run"
    BY <1>1, <1>2, <2>1, NoReplyYet
  <2>2. CASE pc' = "end" /\ report' = [status |-> "refused"] /\ req.kind # "profile"
    BY <1>1, <2>2 DEF Harbor!PassesWhatScored, Harbor!AccountsForTrials
  <2> QED
    BY <1>1, <2>1, <2>2
<1> QED
  BY <1>3, <1>4, <1>5 DEF HarborInv

LEMMA RunKeeps ==
  ASSUME Harbor!ConstantsAreSane, HarborInv, Harbor!Run
  PROVE  HarborInv'
<1>1. /\ UNCHANGED <<req, at, failed, timedOut, rewards, missing, past, az>> /\ pc = "run"
      /\ \/ /\ pc' = "ended" /\ exit' \in Harbor!Exits /\ UNCHANGED report
            /\ job' \in Harbor!Jobs \/ (~Harbor!RunsHarbor /\ UNCHANGED job)
         \/ /\ pc' = "end" /\ report' = [status |-> "failed"] /\ UNCHANGED <<exit, job>>
  BY DEF Harbor!Run, Harbor!Report, Harbor!gathered
<1>2. report = None /\ [status |-> "failed"] \in Harbor!Replies
  BY <1>1 DEF HarborInv, Harbor!TypeOK, Harbor!Replies, Harbor!Statuses
<1>3. Harbor!TypeOK'
  BY <1>1, <1>2, RepliesAreNotNone DEF HarborInv, Harbor!TypeOK
<1>4. rewards' \in [Harbor!Agents -> Seq(0..2)] /\ OnPace' /\ Earned'
  BY <1>1 DEF HarborInv, OnPace, Earned
<1>5. HasItsJob'
  BY <1>1 DEF HarborInv, HasItsJob, RunsHarborNow, Harbor!RunsHarbor, Harbor!Commands
<1>6. Harbor!PassesWhatScored' /\ Harbor!AccountsForTrials'
  <2>1. CASE pc' = "ended"
    BY <1>1, <1>2, <2>1, NoReplyYet
  <2>2. CASE pc' = "end" /\ report' = [status |-> "failed"] /\ UNCHANGED job
    <3>1. Harbor!PassesWhatScored'
      BY <2>2 DEF Harbor!PassesWhatScored
    <3>2. req.kind = "harbor" => job' = None
      BY <1>1, <2>2 DEF HarborInv, HasItsJob
    <3> QED
      BY <1>1, <3>1, <3>2 DEF Harbor!AccountsForTrials
  <2> QED
    BY <1>1, <2>1, <2>2
<1> QED
  BY <1>3, <1>4, <1>5, <1>6 DEF HarborInv

LEMMA AzureKeeps ==
  ASSUME Harbor!ConstantsAreSane, HarborInv, Harbor!Azure
  PROVE  HarborInv'
<1> DEFINE status == IF req.dryRun THEN "previewed" ELSE Harbor!Outcome(exit)
<1>1. /\ UNCHANGED <<req, at, exit, job, failed, timedOut, rewards, missing, past, az>> /\ pc = "ended"
      /\ pc' = "end" /\ report' = [status |-> status] /\ req.kind = "azure"
  BY DEF Harbor!Azure, Harbor!Report, Harbor!gathered
<1>2. status \in Harbor!Statuses
  BY DEF Harbor!Outcome, Harbor!Statuses
<1> HIDE DEF status
<1>3. [status |-> status] \in Harbor!Replies
  BY <1>2 DEF Harbor!Replies
<1>4. Harbor!TypeOK'
  BY <1>1, <1>3, RepliesAreNotNone DEF HarborInv, Harbor!TypeOK
<1>5. rewards' \in [Harbor!Agents -> Seq(0..2)] /\ OnPace' /\ HasItsJob' /\ Earned'
  BY <1>1 DEF HarborInv, OnPace, HasItsJob, Earned, RunsHarborNow
<1>6. Harbor!PassesWhatScored' /\ Harbor!AccountsForTrials'
  BY <1>1 DEF Harbor!PassesWhatScored, Harbor!AccountsForTrials
<1> QED
  BY <1>4, <1>5, <1>6 DEF HarborInv

Accounted == report.evidence # None => Accounts(report.evidence, job)

LEMMA AccountedFor ==
  Accounted => Harbor!AccountsForTrials
<1>1. \A S : Harbor!Cardinality(S) = Cardinality(S)
  BY CardinalityIsTheSame
<1> QED
  BY Zenon, <1>1 DEF Accounted, Accounts, Harbor!AccountsForTrials

LEMMA CollectKeeps ==
  ASSUME Harbor!ConstantsAreSane, HarborInv, Harbor!Collect
  PROVE  HarborInv'
<1> DEFINE status == Harbor!Outcome(exit)
<1>1. PICK e : /\ UNCHANGED <<req, at, exit, job, failed, timedOut, rewards, missing, past, az>> /\ pc = "ended"
               /\ pc' = "end" /\ report' = [status |-> status, evidence |-> e] /\ req.kind = "harbor"
               /\ e = None \/ \E lost, long : e = Harbor!Evidence(job, lost, long)
  <2>1. /\ UNCHANGED <<req, at, exit, job, failed, timedOut, rewards, missing, past, az>> /\ pc = "ended"
        /\ pc' = "end" /\ req.kind = "harbor"
        /\ \/ \E lost, long : report' = [status |-> status, evidence |-> Harbor!Evidence(job, lost, long)]
           \/ report' = [status |-> status, evidence |-> None]
    BY DEF Harbor!Collect, Harbor!Report, Harbor!gathered
  <2> HIDE DEF status
  <2> QED
    BY Zenon, <2>1
<1>2. status \in Harbor!Statuses
  BY DEF Harbor!Outcome, Harbor!Statuses
<1>3. job \in Harbor!Jobs
  BY <1>1 DEF HarborInv, HasItsJob
<1>4. e # None => Accounts(e, job)
  BY <1>1, <1>3, EvidenceAccounts
<1> HIDE DEF status
<1>5. report' \in Harbor!Replies
  <2>1. e \in Harbor!Evidences \cup {None}
    BY <1>4 DEF Accounts
  <2> DEFINE V == Harbor!Evidences \cup {None}
  <2> HIDE DEF V
  <2>2. [status |-> status, evidence |-> e] \in [status : Harbor!Statuses, evidence : V]
    BY <1>2, <2>1 DEF V
  <2> QED
    BY <1>1, <2>2 DEF Harbor!Replies, V
<1>6. Harbor!TypeOK'
  BY <1>1, <1>5, RepliesAreNotNone DEF HarborInv, Harbor!TypeOK
<1>7. rewards' \in [Harbor!Agents -> Seq(0..2)] /\ OnPace' /\ HasItsJob' /\ Earned'
  BY <1>1 DEF HarborInv, OnPace, HasItsJob, Earned, RunsHarborNow
<1>8. Harbor!PassesWhatScored'
  BY <1>1 DEF Harbor!PassesWhatScored
<1>9. Harbor!AccountsForTrials'
  <2>1. report'.evidence = e /\ UNCHANGED job
    BY <1>1
  <2>2. Accounted'
    BY Zenon, <1>4, <2>1 DEF Accounted
  <2> QED
    BY <2>2, AccountedFor, PTL
<1> QED
  BY <1>6, <1>7, <1>8, <1>9 DEF HarborInv

(* What a command's end adds to what the profile has gathered. *)
LEMMA GatherAdds ==
  ASSUME Harbor!ConstantsAreSane, rewards \in [Harbor!Agents -> Seq(0..2)], missing \in Nat,
         NEW j \in Harbor!Jobs, NEW found, NEW shows, NEW values \in Harbor!Readings(j, found, shows),
         NEW agent \in Harbor!Agents, Harbor!Profile(req.profile)[at] = agent, Harbor!Gather(values)
  PROVE  \/ missing' = missing + 1 /\ UNCHANGED rewards
         \/ /\ missing' = missing /\ rewards' = [rewards EXCEPT ![agent] = @ \o values]
            /\ values \in Seq(0..2) /\ Len(values) >= 1
            /\ Len(values) = 1 => Fits(values[1], Harbor!Truth(j, found, shows))
<1>1. CASE values = None
  BY Zenon, <1>1 DEF Harbor!Gather
<1>2. CASE values # None
  <2>1. UNCHANGED missing /\ rewards' = [rewards EXCEPT ![Harbor!Profile(req.profile)[at]] = @ \o values]
    BY Zenon, <1>2 DEF Harbor!Gather, Harbor!Commands
  <2> QED
    BY <1>2, <2>1, ReadingsFit
<1> QED
  BY <1>1, <1>2

(* The run of an agent either gives no rewards or some that show how it went.               *)
Gathers(agent, truth) ==
  \/ missing' = missing + 1 /\ UNCHANGED rewards
  \/ \E values \in Seq(0..2) : /\ missing' = missing /\ rewards' = [rewards EXCEPT ![agent] = @ \o values]
                               /\ Len(values) >= 1 /\ (Len(values) = 1 => Fits(values[1], truth))
TurnOf(agent, n) == n \in 0..3 /\ (agent = "oracle" <=> n \in {0, 2}) /\ (agent = "nop" <=> n \in {1, 3})

LEMMA Turns ==
  ASSUME NEW agent, NEW n, TurnOf(agent, n)
  PROVE  /\ RunsOf(agent, n) \in 0..1 /\ RunsOf(agent, n + 1) = RunsOf(agent, n) + 1
         /\ PlaceOf(agent, RunsOf(agent, n) + 1) = n + 1
         /\ \A k \in 1..RunsOf(agent, n) : PlaceOf(agent, k) \in 1..n
         /\ \A a \in Harbor!Agents : a # agent => /\ RunsOf(a, n + 1) = RunsOf(a, n)
                                              /\ \A k \in 1..RunsOf(a, n) : PlaceOf(a, k) \in 1..n
<1>1. n = 0 \/ n = 1 \/ n = 2 \/ n = 3
  BY DEF TurnOf
<1> QED
  BY <1>1 DEF TurnOf, RunsOf, PlaceOf, Harbor!Agents

LEMMA OneMore ==
  ASSUME NEW k \in Nat, NEW l \in Nat, NEW m \in Nat, k + l = m + 1, k >= m, l >= 1
  PROVE  k = m /\ l = 1
  OBVIOUS

(* A run of the agent whose turn it is earns as the runs before it did. *)
LEMMA EarnsItsOwn ==
  ASSUME rewards \in [Harbor!Agents -> Seq(0..2)], past \in Seq(Truths), Earned, missing \in Nat,
         NEW agent \in Harbor!Agents, TurnOf(agent, Len(past)),
         NEW truth \in Truths, past' = Append(past, truth), Gathers(agent, truth)
  PROVE  Earned' /\ rewards' \in [Harbor!Agents -> Seq(0..2)]
<1> DEFINE L == Len(past)
<1>1. L \in 0..3 /\ L \in Nat
  BY DEF TurnOf
<1>2. past' \in Seq(Truths) /\ Len(past') = L + 1 /\ past'[L + 1] = truth /\ \A n \in 1..L : past'[n] = past[n]
  BY AppendProperties
<1>3. CASE missing' = missing + 1 /\ UNCHANGED rewards
  BY <1>3 DEF Earned
<1>4. CASE \E values \in Seq(0..2) : /\ missing' = missing /\ rewards' = [rewards EXCEPT ![agent] = @ \o values]
                                     /\ Len(values) >= 1 /\ (Len(values) = 1 => Fits(values[1], truth))
  <2>1. PICK values \in Seq(0..2) : /\ missing' = missing /\ rewards' = [rewards EXCEPT ![agent] = @ \o values]
                                    /\ Len(values) >= 1 /\ (Len(values) = 1 => Fits(values[1], truth))
    BY <1>4
  <2> DEFINE old == rewards[agent]
             new == old \o values
  <2>2. old \in Seq(0..2) /\ Len(old) \in Nat /\ Len(values) \in Nat
    BY LenProperties
  <2>3. /\ new \in Seq(0..2) /\ Len(new) = Len(old) + Len(values)
        /\ \A n \in 1..(Len(old) + Len(values)) : new[n] = IF n <= Len(old) THEN old[n] ELSE values[n - Len(old)]
    <3> HIDE DEF old
    <3> QED
      BY <2>2, ConcatProperties
  <2>4. rewards'[agent] = new /\ \A a \in Harbor!Agents : a # agent => rewards'[a] = rewards[a]
    BY <2>1
  <2>5. rewards' \in [Harbor!Agents -> Seq(0..2)]
    BY <2>1, <2>3
  <2> HIDE DEF old, new, L
  <2>6. SUFFICES ASSUME missing = 0 PROVE Earned'
    BY <2>1, <2>5 DEF Earned
  <2>7. ASSUME NEW a \in Harbor!Agents, a # agent
        PROVE  /\ Len(rewards'[a]) >= RunsOf(a, L + 1)
               /\ Len(rewards'[a]) = RunsOf(a, L + 1) =>
                    \A n \in 1..RunsOf(a, L + 1) : Fits(rewards'[a][n], past'[PlaceOf(a, n)])
    <3>1. RunsOf(a, L + 1) = RunsOf(a, L) /\ \A n \in 1..RunsOf(a, L) : PlaceOf(a, n) \in 1..L
      BY <2>7, Turns DEF L
    <3>3. rewards'[a] = rewards[a]
      BY <2>4, <2>7
    <3>4. /\ Len(rewards[a]) >= RunsOf(a, L)
          /\ Len(rewards[a]) = RunsOf(a, L) => \A n \in 1..RunsOf(a, L) : Fits(rewards[a][n], past[PlaceOf(a, n)])
      BY Zenon, <2>6 DEF Earned, L
    <3>5. Len(rewards[a]) = RunsOf(a, L) => \A n \in 1..RunsOf(a, L) : Fits(rewards[a][n], past'[PlaceOf(a, n)])
      BY <1>2, <3>1, <3>4
    <3> QED
      BY <3>1, <3>3, <3>4, <3>5
  <2>8. /\ Len(new) >= RunsOf(agent, L + 1)
        /\ Len(new) = RunsOf(agent, L + 1) =>
             \A n \in 1..RunsOf(agent, L + 1) : Fits(new[n], past'[PlaceOf(agent, n)])
    <3> DEFINE R == RunsOf(agent, L)
    <3>1. RunsOf(agent, L + 1) = R + 1 /\ R \in Nat /\ PlaceOf(agent, R + 1) = L + 1
      BY Turns DEF L
    <3>2. \A n \in 1..R : PlaceOf(agent, n) \in 1..L
      BY Turns DEF L
    <3>3. /\ Len(old) >= R
          /\ Len(old) = R => \A n \in 1..R : Fits(old[n], past[PlaceOf(agent, n)])
      BY Zenon, <2>6 DEF Earned, L, old
    <3> HIDE DEF R
    <3>4. Len(new) >= R + 1
      BY <2>1, <2>2, <2>3, <3>1, <3>3
    <3>5. ASSUME Len(new) = R + 1, NEW n \in 1..(R + 1) PROVE Fits(new[n], past'[PlaceOf(agent, n)])
      <4>1. Len(old) = R /\ Len(values) = 1
        <5>1. Len(old) + Len(values) = R + 1 /\ Len(old) >= R /\ Len(values) >= 1
          BY <2>1, <2>3, <3>3, <3>5
        <5>2. R \in Nat /\ Len(old) \in Nat /\ Len(values) \in Nat
          BY <2>2, <3>1
        <5> QED
          BY <5>1, <5>2, OneMore
      <4>2. CASE n = R + 1
        <5>1. new[n] = values[1] /\ past'[PlaceOf(agent, n)] = truth
          BY <1>2, <2>3, <3>1, <4>1, <4>2
        <5> QED
          BY <2>1, <4>1, <5>1
      <4>3. CASE n # R + 1
        <5>1. n \in 1..R
          BY <3>1, <4>3
        <5>2. past'[PlaceOf(agent, n)] = past[PlaceOf(agent, n)]
          BY <1>2, <3>2, <5>1
        <5>4. n \in 1..(Len(old) + Len(values)) /\ n <= Len(old)
          BY <3>1, <4>1, <5>1
        <5>5. new[n] = old[n]
          BY <2>3, <5>4
        <5>3. Fits(old[n], past[PlaceOf(agent, n)])
          BY <3>3, <4>1, <5>1
        <5> QED
          BY <5>2, <5>3, <5>5
      <4> QED
        BY <4>2, <4>3
    <3> QED
      BY <3>1, <3>4, <3>5
  <2>9. \A a \in Harbor!Agents :
          /\ Len(rewards'[a]) >= RunsOf(a, L + 1)
          /\ Len(rewards'[a]) = RunsOf(a, L + 1) =>
               \A n \in 1..RunsOf(a, L + 1) : Fits(rewards'[a][n], past'[PlaceOf(a, n)])
    BY Zenon, <2>4, <2>7, <2>8
  <2>10. Len(past') = L + 1
    BY <1>2 DEF L
  <2> QED
    BY Zenon, <2>9, <2>10 DEF Earned
<1> QED
  BY <1>3, <1>4 DEF Gathers

LEMMA JudgeKeeps ==
  ASSUME Harbor!ConstantsAreSane, HarborInv, Harbor!Judge
  PROVE  HarborInv'
<1> DEFINE harbor == req.profile = "dynamo-harbor-task"
           stops == (exit # "zero" /\ req.stop) \/ at = Len(Harbor!Commands)
           bad == failed \/ exit # "zero"
<1>1. /\ pc = "ended" /\ req.kind = "profile" /\ UNCHANGED <<req, az, report>> /\ job' = None /\ exit' = None
      /\ \/ stops /\ pc' = "verdict" /\ UNCHANGED at
         \/ ~stops /\ pc' = "run" /\ at' = at + 1
      /\ failed' = bad /\ timedOut' = (timedOut \/ exit = "timeout")
  BY DEF Harbor!Judge, Harbor!NextCommand, Harbor!CommandFailed
<1>2. /\ report = None /\ at \in 1..7 /\ missing \in 0..Len(past) /\ past \in Seq(Truths)
      /\ rewards \in [Harbor!Agents -> Seq(0..2)] /\ Earned
  BY <1>1 DEF HarborInv, Harbor!TypeOK, OnPace
<1>3. /\ harbor => Len(Harbor!Commands) = 6 /\ at \in 1..6 /\ Len(past) = IF at <= 3 THEN 0 ELSE at - 3
      /\ ~harbor => Len(Harbor!Commands) = 2 /\ at \in 1..2 /\ past = <<>>
      /\ Harbor!RunsHarbor <=> harbor /\ at >= 3
      /\ Harbor!RunsHarbor => TurnOf(Harbor!Commands[at], Len(past)) /\ Harbor!Commands[at] \in Harbor!Agents
  <2>1. CASE harbor
    <3>1. at \in 1..6 /\ Len(past) = IF at <= 3 THEN 0 ELSE at - 3
      BY <1>1, <2>1 DEF HarborInv, OnPace
    <3>2. Harbor!Commands = Harbor!Profile("dynamo-harbor-task")
      BY Zenon, <2>1 DEF Harbor!Commands
    <3>3. Len(Harbor!Commands) = 6 /\ (Harbor!Commands[at] \in Harbor!Agents <=> at >= 3)
      BY <3>1, <3>2, DynamoCommands
    <3>4. at >= 3 => TurnOf(Harbor!Commands[at], Len(past))
      <4> SUFFICES ASSUME at >= 3 PROVE TurnOf(Harbor!Commands[at], Len(past))
        OBVIOUS
      <4>1. at = 3 \/ at = 4 \/ at = 5 \/ at = 6
        BY <3>1
      <4>2. /\ at = 3 => Harbor!Commands[at] = "oracle" /\ Len(past) = 0
            /\ at = 4 => Harbor!Commands[at] = "nop" /\ Len(past) = 1
            /\ at = 5 => Harbor!Commands[at] = "oracle" /\ Len(past) = 2
            /\ at = 6 => Harbor!Commands[at] = "nop" /\ Len(past) = 3
        BY <3>1, <3>2, DynamoCommands
      <4>3. TurnOf("oracle", 0) /\ TurnOf("nop", 1) /\ TurnOf("oracle", 2) /\ TurnOf("nop", 3)
        BY DEF TurnOf
      <4> QED
        BY <4>1, <4>2, <4>3
    <3>5. Harbor!RunsHarbor <=> Harbor!Commands[at] \in Harbor!Agents
      BY <1>1 DEF Harbor!RunsHarbor
    <3> QED
      BY <2>1, <3>1, <3>3, <3>4, <3>5
  <2>2. CASE ~harbor
    <3>1. at \in 1..2 /\ past = <<>>
      BY <1>1, <2>2 DEF HarborInv, OnPace
    <3>2. Len(Harbor!Commands) = 2 /\ Harbor!Commands[at] \notin Harbor!Agents
      BY <2>2, <3>1, OtherCommands DEF Harbor!Commands
    <3>3. Harbor!RunsHarbor <=> Harbor!Commands[at] \in Harbor!Agents
      BY <1>1 DEF Harbor!RunsHarbor
    <3> QED
      BY <2>2, <3>1, <3>2, <3>3
  <2> QED
    BY <2>1, <2>2
<1>4. /\ rewards' \in [Harbor!Agents -> Seq(0..2)] /\ Earned' /\ missing' \in 0..Len(past')
      /\ past' \in Seq(Truths) /\ Len(past') = Len(past) + (IF Harbor!RunsHarbor THEN 1 ELSE 0)
  <2>1. CASE ~Harbor!RunsHarbor
    <3>1. UNCHANGED <<rewards, missing, past>>
      BY <2>1 DEF Harbor!Judge
    <3>2. Len(past) \in Nat
      BY <1>2, LenProperties
    <3> QED
      BY <1>2, <2>1, <3>1, <3>2 DEF Earned
  <2>2. CASE Harbor!RunsHarbor
    <3> DEFINE agent == Harbor!Commands[at]
    <3>1. PICK found, shows : \E values \in Harbor!Readings(job, found, shows) :
                                Harbor!Gather(values) /\ past' = Append(past, Harbor!Truth(job, found, shows))
      BY Zenon, <2>2 DEF Harbor!Judge
    <3>2. PICK values \in Harbor!Readings(job, found, shows) :
                 Harbor!Gather(values) /\ past' = Append(past, Harbor!Truth(job, found, shows))
      BY <3>1
    <3> DEFINE truth == Harbor!Truth(job, found, shows)
    <3>3. truth \in Truths
      BY DEF Harbor!Truth, Truths
    <3>4. job \in Harbor!Jobs
      BY <1>1, <2>2 DEF HarborInv, HasItsJob, RunsHarborNow, Harbor!RunsHarbor, Harbor!Commands
    <3>5. Len(past) \in Nat /\ missing \in Nat
      BY <1>2, LenProperties
    <3>6. agent \in Harbor!Agents /\ TurnOf(agent, Len(past))
      BY <1>3, <2>2
    <3>7. Harbor!Profile(req.profile)[at] = agent
      BY Zenon DEF Harbor!Commands
    <3>8. \/ missing' = missing + 1 /\ UNCHANGED rewards
          \/ /\ missing' = missing /\ rewards' = [rewards EXCEPT ![agent] = @ \o values]
             /\ values \in Seq(0..2) /\ Len(values) >= 1
             /\ Len(values) = 1 => Fits(values[1], truth)
      <4> HIDE DEF agent
      <4> QED
        BY <1>2, <3>2, <3>4, <3>5, <3>6, <3>7, GatherAdds
    <3> HIDE DEF agent, truth
    <3>9. Gathers(agent, truth)
      BY <3>8 DEF Gathers
    <3>10. past' = Append(past, truth)
      BY Zenon, <3>2 DEF truth
    <3>11. Earned' /\ rewards' \in [Harbor!Agents -> Seq(0..2)]
      BY <1>2, <3>3, <3>5, <3>6, <3>9, <3>10, EarnsItsOwn
    <3>12. past' \in Seq(Truths) /\ Len(past') = Len(past) + 1
      BY <1>2, <3>3, <3>10, AppendProperties
    <3>13. missing' \in 0..(Len(past) + 1)
      BY <1>2, <3>5, <3>8
    <3> QED
      BY <2>2, <3>11, <3>12, <3>13
  <2> QED
    BY <2>1, <2>2
<1> HIDE DEF harbor, stops, bad
<1>5. Len(past) \in Nat /\ Len(past') <= 4
  <2>1. Len(past) \in Nat /\ (~harbor => Len(past) = 0)
    BY <1>2, <1>3, LenProperties
  <2> QED
    BY <1>3, <1>4, <2>1
<1>6. OnPace'
  <2>1. harbor =>
          /\ at' \in 1..6
          /\ pc' = "run" => Len(past') = IF at' <= 3 THEN 0 ELSE at' - 3
          /\ pc' = "verdict" => failed' \/ (at' = 6 /\ Len(past') = 4)
    <3> SUFFICES ASSUME harbor
                 PROVE  /\ at' \in 1..6
                        /\ pc' = "run" => Len(past') = IF at' <= 3 THEN 0 ELSE at' - 3
                        /\ pc' = "verdict" => failed' \/ (at' = 6 /\ Len(past') = 4)
      OBVIOUS
    <3>1. at \in 1..6 /\ Len(past') = IF at < 3 THEN 0 ELSE at - 2
      <4>1. at \in 1..6 /\ Len(past) = (IF at <= 3 THEN 0 ELSE at - 3) /\ (Harbor!RunsHarbor <=> at >= 3)
        BY <1>3
      <4>2. CASE at >= 3
        BY <1>4, <4>1, <4>2
      <4>3. CASE at < 3
        BY <1>4, <4>1, <4>3
      <4> QED
        BY <4>1, <4>2, <4>3
    <3>2. CASE stops /\ pc' = "verdict" /\ UNCHANGED at
      <4>1. bad \/ at = 6
        BY <1>3, <3>2 DEF stops, bad
      <4> QED
        BY <1>1, <3>1, <3>2, <4>1
    <3>3. CASE ~stops /\ pc' = "run" /\ at' = at + 1
      <4>1. at # 6
        BY <1>3, <3>3 DEF stops
      <4> QED
        BY <3>1, <3>3, <4>1
    <3> QED
      BY <1>1, <3>2, <3>3
  <2>2. ~harbor => at' \in 1..2 /\ past' = <<>>
    <3>1. ~Harbor!RunsHarbor => UNCHANGED past
      BY DEF Harbor!Judge
    <3> QED
      BY <1>1, <1>3, <3>1 DEF stops
  <2> QED
    BY <1>1, <1>4, <1>5, <2>1, <2>2 DEF OnPace, harbor
<1>7. HasItsJob'
  BY <1>1 DEF HasItsJob
<1>8. Harbor!TypeOK'
  <2>1. /\ req' \in Harbor!HarborCalls /\ pc' \in {"begin", "run", "ended", "verdict", "end"} /\ pc' # "end"
        /\ exit' \in Harbor!Exits \cup {None} /\ job' \in Harbor!Jobs \cup {None}
        /\ failed' \in BOOLEAN /\ timedOut' \in BOOLEAN
        /\ az' \in {None, "what-if", "create"} /\ report' = None
    BY <1>1, <1>2 DEF HarborInv, Harbor!TypeOK, bad
  <2>2. at' \in 1..7
    BY <1>1, <1>3 DEF stops
  <2>3. missing' \in 0..4
    BY <1>4, <1>5
  <2>4. \A agent \in Harbor!Agents : \A k \in DOMAIN rewards'[agent] : rewards'[agent][k] \in Harbor!Scores
    <3> SUFFICES ASSUME NEW agent \in Harbor!Agents, NEW k \in DOMAIN rewards'[agent]
                 PROVE  rewards'[agent][k] \in Harbor!Scores
      OBVIOUS
    <3> DEFINE s == rewards'[agent]
    <3>1. s \in Seq(0..2) /\ k \in DOMAIN s
      BY <1>4
    <3> HIDE DEF s
    <3>2. k \in 1..Len(s)
      BY <3>1, LenProperties
    <3>3. s[k] \in 0..2
      BY <3>1, <3>2, ElementOfSeq
    <3> QED
      BY <3>3 DEF s, Harbor!Scores, Harbor!Full
  <2> QED
    BY Zenon, <2>1, <2>2, <2>3, <2>4 DEF Harbor!TypeOK
<1>9. Harbor!PassesWhatScored' /\ Harbor!AccountsForTrials'
  BY <1>1, <1>2, NoReplyYet
<1> QED
  BY <1>4, <1>6, <1>7, <1>8, <1>9 DEF HarborInv

LEMMA VerdictKeeps ==
  ASSUME Harbor!ConstantsAreSane, HarborInv, Harbor!Verdict
  PROVE  HarborInv'
<1> DEFINE bad == failed \/ (req.profile = "dynamo-harbor-task" /\ ~Harbor!HarborPassed)
           status == IF timedOut THEN "timed_out" ELSE IF bad THEN "failed" ELSE "completed"
<1>1. /\ UNCHANGED <<req, at, exit, job, failed, timedOut, rewards, missing, past, az>> /\ pc = "verdict"
      /\ pc' = "end" /\ report' = [status |-> status, ran |-> at, failed |-> bad]
  BY Zenon DEF Harbor!Verdict, Harbor!Report, Harbor!gathered
<1>0. req.kind = "profile"
  BY <1>1 DEF HarborInv, OnPace
<1>2. status \in Harbor!Statuses /\ bad \in BOOLEAN /\ at \in Nat
  <2>1. failed \in BOOLEAN /\ at \in Nat
    BY DEF HarborInv, Harbor!TypeOK
  <2>2. Harbor!HarborPassed \in BOOLEAN
    BY DEF Harbor!HarborPassed
  <2> QED
    BY <2>1, <2>2 DEF Harbor!Statuses
<1>3. status = "completed" => ~timedOut /\ ~bad
  OBVIOUS
<1>4. ~bad /\ req.profile = "dynamo-harbor-task" => ~failed /\ Harbor!HarborPassed
  OBVIOUS
<1> HIDE DEF status, bad
<1>5. report' \in Harbor!Replies
  <2>1. [status |-> status, ran |-> at, failed |-> bad] \in [status : Harbor!Statuses, ran : Nat, failed : BOOLEAN]
    BY <1>2
  <2> QED
    BY <1>1, <2>1 DEF Harbor!Replies
<1>6. Harbor!TypeOK'
  BY <1>1, <1>5, RepliesAreNotNone DEF HarborInv, Harbor!TypeOK
<1>7. rewards' \in [Harbor!Agents -> Seq(0..2)] /\ OnPace' /\ HasItsJob' /\ Earned'
  BY <1>1 DEF HarborInv, OnPace, HasItsJob, Earned, RunsHarborNow
<1>8. report'.status = status /\ report'.ran = at
  BY <1>1
<1>9. Harbor!PassesWhatScored'
  <2> SUFFICES ASSUME req.profile = "dynamo-harbor-task", status = "completed"
               PROVE  /\ at = Len(Harbor!Commands) /\ ~failed /\ ~timedOut /\ Len(past) = 4
                      /\ \A k \in 1..4 : past[k] \in {IF k % 2 = 1 THEN "full" ELSE "less", "one"}
    BY Zenon, <1>1, <1>8 DEF Harbor!PassesWhatScored, Harbor!Commands
  <2>1. ~failed /\ ~timedOut /\ Harbor!HarborPassed
    BY <1>3, <1>4
  <2>2. at = 6 /\ Len(past) = 4
    BY <1>0, <1>1, <2>1 DEF HarborInv, OnPace
  <2>3. Len(Harbor!Commands) = 6
    BY DynamoCommands DEF Harbor!Commands
  <2>4. /\ missing = 0 /\ Len(rewards["oracle"]) = 2 /\ Len(rewards["nop"]) = 2
        /\ \A k \in 1..2 : rewards["oracle"][k] = 2 /\ rewards["nop"][k] < 2
    BY <2>1 DEF Harbor!HarborPassed, Harbor!Full
  <2>5. RunsOf("oracle", 4) = 2 /\ RunsOf("nop", 4) = 2
    BY DEF RunsOf
  <2>6. \A agent \in Harbor!Agents : \A k \in 1..2 : Fits(rewards[agent][k], past[PlaceOf(agent, k)])
    <3>1. /\ "oracle" \in Harbor!Agents /\ "nop" \in Harbor!Agents
          /\ \A agent \in Harbor!Agents : agent \in {"oracle", "nop"}
      BY DEF Harbor!Agents
    <3>2. Earned
      BY DEF HarborInv
    <3> QED
      BY <2>2, <2>4, <2>5, <3>1, <3>2 DEF Earned
  <2>7. /\ Fits(rewards["oracle"][1], past[1]) /\ Fits(rewards["nop"][1], past[2])
        /\ Fits(rewards["oracle"][2], past[3]) /\ Fits(rewards["nop"][2], past[4])
    <3>1. /\ PlaceOf("oracle", 1) = 1 /\ PlaceOf("nop", 1) = 2 /\ PlaceOf("oracle", 2) = 3 /\ PlaceOf("nop", 2) = 4
          /\ "oracle" \in Harbor!Agents /\ "nop" \in Harbor!Agents
      BY DEF PlaceOf, Harbor!Agents
    <3> QED
      BY <2>6, <3>1
  <2>8. /\ past[1] \in {"full", "one"} /\ past[2] \in {"less", "one"}
        /\ past[3] \in {"full", "one"} /\ past[4] \in {"less", "one"}
    BY <2>4, <2>7 DEF Fits
  <2>9. ASSUME NEW k \in 1..4 PROVE past[k] \in {IF k % 2 = 1 THEN "full" ELSE "less", "one"}
    <3>1. k = 1 \/ k = 2 \/ k = 3 \/ k = 4
      OBVIOUS
    <3> QED
      BY <2>8, <3>1
  <2> QED
    BY <2>1, <2>2, <2>3, <2>9
<1>10. Harbor!AccountsForTrials'
  BY <1>0, <1>1 DEF Harbor!AccountsForTrials
<1> QED
  BY <1>6, <1>7, <1>9, <1>10 DEF HarborInv

LEMMA HarborStays ==
  ASSUME Harbor!ConstantsAreSane, HarborInv, Harbor!Next \/ UNCHANGED harbors
  PROVE  HarborInv'
<1>1. CASE UNCHANGED harbors
  BY <1>1
  DEF harbors, HarborInv, Harbor!TypeOK, OnPace, HasItsJob, RunsHarborNow, Earned, Harbor!PassesWhatScored,
      Harbor!AccountsForTrials, Harbor!Commands
<1>2. CASE Harbor!Next
  BY <1>2, BeginKeeps, RunKeeps, JudgeKeeps, VerdictKeeps, CollectKeeps, AzureKeeps DEF Harbor!Next
<1> QED
  BY <1>1, <1>2

HarborsInv == part = "harbor" => HarborInv

(* A Harbor profile that is said to have completed scored in each of its four runs as it    *)
(* must, wherever the rewards were read; and the evidence of a run shows every trial with   *)
(* its own reward or counts it among the omitted, none that raised before one that did not  *)
(* (run_validation_profile_sync, rewards_for_run, structured_evidence_result).              *)
THEOREM HarborJudgesFairly == MCSpec => []HarborIsJudgedFairly
<1>1. MCInit => HarborsInv
  BY HarborInit, PartsAreSane DEF MCInit, HarborsInv
<1>2. HarborsInv /\ [MCNext]_everything => HarborsInv'
  BY EachPartAlone, HarborStays, PartsAreSane DEF HarborsInv
<1>3. HarborsInv => HarborIsJudgedFairly
  BY DEF HarborsInv, HarborInv, HarborIsJudgedFairly
<1> QED
  BY <1>1, <1>2, <1>3, PTL DEF MCSpec


=============================================================================
