----------------------- MODULE WorktreeChangesProofs -----------------------
(***************************************************************************)
(* Proofs of the safety of WorktreeChanges: replies are true and nothing   *)
(* is taken that was not examined, for any number of paths, whatever       *)
(* editors and a user's own Git do; and, while nobody else runs Git during *)
(* a call, results can be reviewed and no tracked file is taken.           *)
(***************************************************************************)
EXTENDS WorktreeChanges, TLAPS

-----------------------------------------------------------------------------
(* What holds whoever else runs Git. *)

(* A call has the paths its kind needs. *)
HasPaths == call # None => Len(call.paths) >= 1 /\ (Moves => Len(call.paths) >= 2)

(* Which kind of call takes which steps. *)
Fits(kind, step) ==
  /\ step \in {"destination", "fresh", "index", "move", "moved", "entries"} => kind = "move"
  /\ step \in {"source", "tracked", "clean", "hash"} => kind \in {"delete", "move"}
  /\ step \in {"rehash", "remove", "gone", "deletion"} => kind = "delete"
  /\ step \in {"status", "known", "restore", "restored"} => kind = "restore"
  /\ step = "untracked" => kind = "untracked"
  /\ step \in {"ls-files", "list", "walk"} => kind = "generated"
  /\ step = "unlink" => kind \in {"untracked", "generated"}

StepsOfKind == call # None => Fits(call.kind, call.pc)

(* What a call notes as changed, before the reply and with it. *)
OwnChanges ==
  call # None =>
    /\ call.kind = "delete" =>
         call.changed = IF call.pc \in {"gone", "deletion"} \/ call.reply \in {"ok", "verification failed"}
                          THEN {From} ELSE {}
    /\ call.kind = "move" /\ (call.pc \in {"moved", "entries"} \/ call.reply = "ok") =>
         call.changed = {From, To}
    /\ call.kind = "untracked" => /\ call.pc = "untracked" => call.changed = {}
                                  /\ call.pc = "unlink" => call.changed \cup call.todo = Asked
                                  /\ call.reply = "ok" => call.changed = Asked

(* The digest that was checked speaks for the file until somebody writes it. *)
Hashed ==
  call # None /\ call.kind = "delete" =>
    /\ call.pc = "remove" /\ ~call.stale => work[From] = call.hash
    /\ call.changed # {} /\ ~call.stale => call.took = call.hash

IInv == TypeOK /\ HasPaths /\ StepsOfKind /\ OwnChanges /\ Hashed

LEMMA Constants ==
  /\ None \notin Contents /\ Ignored \subseteq Paths /\ None \notin Replies
  /\ Requests \subseteq [kind: Kinds, paths: Seq(Paths), hash: File]
  /\ \A r \in Requests : Len(r.paths) >= 1 /\ (r.kind = "move" => Len(r.paths) >= 2)
BY TreesAreSane, RequestsAreSane DEF Kinds

LEMMA PathsOfCall ==
  ASSUME call # None, TypeOK, HasPaths
  PROVE  /\ From \in Paths /\ From \in Asked /\ Asked \subseteq Paths
         /\ Moves => To \in Paths
<1>1. call.paths \in Seq(Paths)
  BY DEF CallType, TypeOK
<1>. QED  BY <1>1 DEF From, To, Asked, HasPaths

LEMMA InitIInv == Init => IInv
BY DEF Init, TreesInit, IInv, TypeOK, TreesOK, File, HasPaths, StepsOfKind, OwnChanges, Hashed

Between == Steps \ {"done", "unlink", "untracked"}

(* A refusal, or a verification that failed, where the call has changed what such a reply says. *)
LEMMA ReplyKeeps ==
  ASSUME IInv, call # None, call.pc # "done", UNCHANGED trees, NEW r \in {"refused", "verification failed"}, Reply(r),
         call.kind = "delete" => (r = "verification failed" <=> call.pc \in {"gone", "deletion"})
  PROVE  IInv'
<1>. USE Constants DEF IInv, Reply
<1>1. TypeOK'
  BY DEF TypeOK, CallType, TreesOK, trees, Steps, Replies
<1>2. HasPaths' /\ StepsOfKind'
  BY DEF TypeOK, CallType, HasPaths, Moves, StepsOfKind, Fits
<1>3. OwnChanges'
  BY DEF TypeOK, CallType, OwnChanges, From, To, Asked, Replies
<1>4. Hashed'
  BY DEF TypeOK, CallType, Hashed, From
<1>. QED  BY <1>1, <1>2, <1>3, <1>4

(* A step on which nothing was changed and nothing is claimed. *)
LEMMA GotoKeeps ==
  ASSUME IInv, call # None, call.pc # "done", UNCHANGED trees, NEW l \in Between, Goto(l),
         Fits(call.kind, l),
         l \in {"gone", "deletion"} <=> call.pc \in {"gone", "deletion"},
         l \in {"moved", "entries"} => call.pc \in {"moved", "entries"},
         l = "remove" => work[From] = call.hash
  PROVE  IInv'
<1>1. call \in CallType /\ (call.reply = None <=> call.pc # "done") /\ TreesOK /\ l \in Steps /\ l # "done"
  BY DEF IInv, TypeOK, Between
<1>2. /\ call' \in CallType /\ call'.pc = l /\ call'.reply = call.reply /\ call'.kind = call.kind
      /\ call'.paths = call.paths /\ call'.hash = call.hash /\ call'.changed = call.changed
      /\ call'.took = call.took /\ call'.todo = call.todo /\ call'.stale = call.stale
  BY <1>1 DEF CallType, Goto
<1>3. TypeOK'
  BY <1>1, <1>2 DEF TypeOK, TreesOK, trees
<1>4. HasPaths' /\ StepsOfKind'
  BY <1>1, <1>2 DEF IInv, HasPaths, Moves, StepsOfKind
<1>5. OwnChanges'
  <2>1. From' = From /\ To' = To /\ Asked' = Asked
    BY <1>2 DEF From, To, Asked
  <2>2. OwnChanges /\ l # "untracked" /\ l # "unlink"
    BY DEF IInv, Between
  <2>3. CASE call.kind = "delete"
    BY <1>2, <2>1, <2>2, <2>3 DEF OwnChanges
  <2>4. CASE call.kind = "move"
    BY <1>2, <2>1, <2>2, <2>4 DEF OwnChanges
  <2>5. CASE call.kind \notin {"delete", "move"}
    BY <1>2, <2>1, <2>2, <2>5 DEF OwnChanges
  <2>. QED  BY <2>3, <2>4, <2>5
<1>6. Hashed'
  BY <1>1, <1>2 DEF IInv, Hashed, From, trees
<1>. QED  BY <1>3, <1>4, <1>5, <1>6 DEF IInv

LEMMA StartKeeps ==
  ASSUME IInv, Start
  PROVE  IInv'
<1>1. PICK r \in Requests :
        call' = [kind |-> r.kind, paths |-> r.paths, hash |-> r.hash, listed |-> {}, todo |-> {},
                 whole |-> FALSE, changed |-> {}, took |-> None, tracked |-> {},
                 stale |-> FALSE, reply |-> None,
                 pc |-> CASE r.kind \in {"delete", "move"} -> "source"
                          [] r.kind = "restore" -> "status"
                          [] r.kind = "untracked" -> "untracked"
                          [] OTHER -> "ls-files"]
  BY DEF Start
<1>2. /\ r \in [kind: Kinds, paths: Seq(Paths), hash: File]
      /\ Len(r.paths) >= 1 /\ (r.kind = "move" => Len(r.paths) >= 2)
  BY Constants
<1>3. TypeOK'
  <2>1. call' \in CallType /\ (call'.reply = None <=> call'.pc # "done")
    BY <1>1, <1>2 DEF CallType, Kinds, Steps, File
  <2>. QED  BY <2>1 DEF IInv, TypeOK, TreesOK, Start, trees
<1>4. HasPaths' /\ StepsOfKind'
  BY <1>1, <1>2 DEF HasPaths, Moves, StepsOfKind, Fits, Kinds
<1>5. OwnChanges' /\ Hashed'
  BY <1>1, <1>2, Constants DEF OwnChanges, Hashed, Kinds, Replies
<1>. QED  BY <1>3, <1>4, <1>5 DEF IInv


(* Where the looks go is a step of the same kind of call. *)
LEMMA NextFits ==
  ASSUME call.kind \in Kinds, Fits(call.kind, call.pc)
  PROVE  /\ call.pc = "source" => Fits(call.kind, IF Moves THEN "destination" ELSE "tracked")
         /\ call.pc = "destination" => Fits(call.kind, "tracked")
         /\ call.pc = "tracked" => Fits(call.kind, IF Moves THEN "fresh" ELSE "clean")
         /\ call.pc = "fresh" => Fits(call.kind, "clean")
         /\ call.pc = "clean" => Fits(call.kind, IF Moves THEN "index" ELSE "hash")
         /\ call.pc = "index" => Fits(call.kind, "hash")
         /\ call.pc = "rehash" => Fits(call.kind, "remove")
         /\ call.pc = "gone" => Fits(call.kind, "deletion")
         /\ call.pc = "moved" => Fits(call.kind, "entries")
         /\ call.pc = "status" => Fits(call.kind, "known")
         /\ call.pc = "known" => Fits(call.kind, "restore")
         /\ call.pc \in {"gone", "deletion"} => call.kind = "delete"
         /\ call.pc \in {"moved", "entries"} => call.kind = "move"
BY DEF Fits, Moves

LEMMA NextIsBetween ==
  /\ "destination" \in Between /\ "tracked" \in Between /\ "fresh" \in Between
  /\ "clean" \in Between /\ "index" \in Between /\ "hash" \in Between
  /\ "remove" \in Between /\ "deletion" \in Between /\ "entries" \in Between
  /\ "known" \in Between /\ "restore" \in Between
BY DEF Between, Steps

(* The looks: each goes on or refuses. *)
LEMMA LooksKeep ==
  ASSUME IInv,
         \/ ResolveExistingFile \/ ResolveAbsentFile \/ EnsureTracked \/ EnsureNotTracked
         \/ EnsurePathClean \/ EnsureIndexClean \/ Rehash \/ VerifyGone \/ VerifyMoved
         \/ PlanRestore \/ EnsurePathsTracked
  PROVE  IInv'
<1>. call # None /\ call.kind \in Kinds /\ Fits(call.kind, call.pc) /\ UNCHANGED trees
  BY DEF IInv, TypeOK, CallType, StepsOfKind, Look, At, ResolveExistingFile, ResolveAbsentFile,
     EnsureTracked, EnsureNotTracked, EnsurePathClean, EnsureIndexClean, Rehash, VerifyGone, VerifyMoved,
     PlanRestore, EnsurePathsTracked
<1>. USE GotoKeeps, ReplyKeeps, NextFits, NextIsBetween DEF Look, At
<1>1. CASE ResolveExistingFile  BY <1>1 DEF ResolveExistingFile
<1>2. CASE ResolveAbsentFile    BY <1>2 DEF ResolveAbsentFile
<1>3. CASE EnsureTracked        BY <1>3 DEF EnsureTracked
<1>4. CASE EnsureNotTracked     BY <1>4 DEF EnsureNotTracked
<1>5. CASE EnsurePathClean      BY <1>5 DEF EnsurePathClean
<1>6. CASE EnsureIndexClean     BY <1>6 DEF EnsureIndexClean
<1>7. CASE Rehash               BY <1>7 DEF Rehash
<1>8. CASE VerifyGone           BY <1>8 DEF VerifyGone
<1>9. CASE VerifyMoved          BY <1>9 DEF VerifyMoved
<1>10. CASE PlanRestore         BY <1>10 DEF PlanRestore
<1>11. CASE EnsurePathsTracked  BY <1>11 DEF EnsurePathsTracked
<1>. QED  BY <1>1, <1>2, <1>3, <1>4, <1>5, <1>6, <1>7, <1>8, <1>9, <1>10, <1>11

(* The verifications that end a call, and the digest. *)
LEMMA VerificationsKeep ==
  ASSUME IInv, VerifyDeletion \/ VerifyEntries \/ VerifyRestored \/ Hash
  PROVE  IInv'
<1>. USE Constants DEF At, Reply, Goto, IInv
<1>1. CASE VerifyDeletion
  <2>1. TypeOK' /\ HasPaths' /\ StepsOfKind'
    BY <1>1 DEF VerifyDeletion, TypeOK, CallType, TreesOK, trees, Steps, Replies, HasPaths, Moves, StepsOfKind, Fits
  <2>2. OwnChanges' /\ Hashed'
    BY <1>1 DEF VerifyDeletion, TypeOK, CallType, OwnChanges, Hashed, StepsOfKind, Fits, From, Replies
  <2>. QED  BY <2>1, <2>2
<1>2. CASE VerifyEntries
  <2>1. TypeOK' /\ HasPaths' /\ StepsOfKind'
    BY <1>2 DEF VerifyEntries, TypeOK, CallType, TreesOK, trees, Steps, Replies, HasPaths, Moves, StepsOfKind, Fits
  <2>2. OwnChanges' /\ Hashed'
    BY <1>2 DEF VerifyEntries, TypeOK, CallType, OwnChanges, Hashed, StepsOfKind, Fits, From, To, Replies, Moves
  <2>. QED  BY <2>1, <2>2
<1>3. CASE VerifyRestored
  <2>1. TypeOK' /\ HasPaths' /\ StepsOfKind'
    BY <1>3 DEF VerifyRestored, TypeOK, CallType, TreesOK, trees, Steps, Replies, HasPaths, Moves, StepsOfKind, Fits
  <2>2. OwnChanges' /\ Hashed'
    BY <1>3 DEF VerifyRestored, TypeOK, CallType, OwnChanges, Hashed, StepsOfKind, Fits, From, Replies
  <2>. QED  BY <2>1, <2>2
<1>4. CASE Hash
  <2>1. call.kind \in {"delete", "move"} /\ call.pc = "hash" /\ call # None
    BY <1>4 DEF Hash, StepsOfKind, Fits
  <2>2. CASE Moves /\ work[From] # None /\ call' = [call EXCEPT !.hash = work[From], !.pc = "move"] /\ UNCHANGED trees
    <3>1. work[From] \in File
      BY <2>1, PathsOfCall DEF TypeOK, TreesOK
    <3>2. TypeOK' /\ HasPaths' /\ StepsOfKind'
      BY <2>1, <2>2, <3>1 DEF TypeOK, CallType, TreesOK, trees, Steps, HasPaths, Moves, StepsOfKind, Fits
    <3>3. OwnChanges' /\ Hashed'
      BY <2>1, <2>2 DEF TypeOK, CallType, OwnChanges, Hashed, Moves, Replies
    <3>. QED  BY <3>2, <3>3
  <2>3. CASE ~Moves /\ work[From] = call.hash /\ Goto("rehash") /\ UNCHANGED trees
    <3>1. TypeOK' /\ HasPaths' /\ StepsOfKind'
      BY <2>1, <2>3 DEF TypeOK, CallType, TreesOK, trees, Steps, HasPaths, Moves, StepsOfKind, Fits
    <3>2. OwnChanges' /\ Hashed'
      BY <2>1, <2>3 DEF TypeOK, CallType, OwnChanges, Hashed, Moves, From, Replies
    <3>. QED  BY <3>1, <3>2
  <2>4. CASE Reply("refused") /\ UNCHANGED trees
    BY <2>1, <2>4, ReplyKeeps DEF IInv, Reply
  <2>. QED  BY <1>4, <2>2, <2>3, <2>4 DEF Hash
<1>. QED  BY <1>1, <1>2, <1>3, <1>4

(* An act goes on, or it timed out after it took effect. *)
LEMMA ActKeepsType ==
  ASSUME TypeOK, call # None, call.pc # "done", NEW changed \in SUBSET Paths, NEW l \in Steps \ {"done"},
         \/ call' = [call EXCEPT !.changed = changed, !.pc = l]
         \/ call' = [call EXCEPT !.changed = changed, !.pc = "done", !.reply = "refused"]
  PROVE  call' \in CallType /\ (call'.reply = None <=> call'.pc # "done")
<1>1. CASE call' = [call EXCEPT !.changed = changed, !.pc = l]
  BY <1>1 DEF TypeOK, CallType
<1>2. CASE call' = [call EXCEPT !.changed = changed, !.pc = "done", !.reply = "refused"]
  BY <1>2, Constants DEF TypeOK, CallType, Steps, Replies
<1>. QED  BY <1>1, <1>2

(* The acts of a deletion, a move and a restore. *)
LEMMA RemoveKeeps ==
  ASSUME IInv, Remove
  PROVE  IInv'
<1>. USE DEF IInv, At
<1>1. call # None /\ call.pc = "remove" /\ call.kind = "delete" /\ UNCHANGED <<head, index>>
  BY DEF Remove, StepsOfKind, Fits
<1>2. CASE /\ work[From] # None /\ work' = [work EXCEPT ![From] = None]
           /\ call' = [call EXCEPT !.pc = "gone", !.took = work[From], !.changed = {From}]
  <2>1. From \in Paths /\ work \in [Paths -> File] /\ work[From] \in File
    BY <1>1, PathsOfCall DEF TypeOK, TreesOK
  <2>2. TypeOK' /\ HasPaths' /\ StepsOfKind'
    BY <1>1, <1>2, <2>1 DEF TypeOK, CallType, TreesOK, File, Steps, HasPaths, Moves, StepsOfKind, Fits
  <2>3. OwnChanges' /\ Hashed'
    BY <1>1, <1>2, Constants DEF TypeOK, CallType, OwnChanges, Hashed, From, Replies
  <2>. QED  BY <2>2, <2>3
<1>3. CASE UNCHANGED work /\ Reply("refused")
  BY <1>1, <1>3, ReplyKeeps DEF trees
<1>. QED  BY <1>2, <1>3 DEF Remove

LEMMA MoveWithGitKeeps ==
  ASSUME IInv, MoveWithGit
  PROVE  IInv'
<1>. USE DEF IInv, At
<1>1. call # None /\ call.pc = "move" /\ Moves /\ UNCHANGED head
  BY DEF MoveWithGit, StepsOfKind, Fits, Moves
<1>. DEFINE moved(t) == [t EXCEPT ![From] = None, ![To] = t[From]]
<1>2. CASE /\ work' = moved(work) /\ index' = moved(index)
           /\ \/ call' = [call EXCEPT !.changed = {From, To}, !.pc = "moved"]
              \/ call' = [call EXCEPT !.changed = {From, To}, !.pc = "done", !.reply = "refused"]
  <2>1. From \in Paths /\ To \in Paths
    BY <1>1, PathsOfCall
  <2>2. TypeOK'
    <3>1. TreesOK'
      BY <1>1, <1>2, <2>1 DEF TypeOK, TreesOK, File
    <3>2. {From, To} \subseteq Paths
      BY <2>1
    <3>3. call' \in CallType /\ (call'.reply = None <=> call'.pc # "done")
      BY <1>1, <1>2, <3>2, ActKeepsType DEF Steps
    <3>. QED  BY <3>1, <3>3 DEF TypeOK
  <2>3. HasPaths' /\ StepsOfKind'
    <3>1. call'.kind = call.kind /\ call'.paths = call.paths /\ call'.pc \in {"moved", "done"}
      BY <1>1, <1>2 DEF TypeOK, CallType
    <3>. QED  BY <1>1, <3>1 DEF HasPaths, Moves, StepsOfKind, Fits
  <2>4. OwnChanges' /\ Hashed'
    BY <1>1, <1>2 DEF TypeOK, CallType, OwnChanges, Hashed, From, To, Moves
  <2>. QED  BY <2>2, <2>3, <2>4
<1>3. CASE UNCHANGED <<work, index>> /\ Reply("refused")
  BY <1>1, <1>3, ReplyKeeps DEF trees, Moves
<1>. QED  BY <1>2, <1>3 DEF MoveWithGit

LEMMA RestoreKeeps ==
  ASSUME IInv, Restore
  PROVE  IInv'
<1>. USE DEF IInv, At
<1>1. call # None /\ call.pc = "restore" /\ call.kind = "restore" /\ UNCHANGED head
  BY DEF Restore, StepsOfKind, Fits
<1>. DEFINE restored(t) == [q \in Paths |-> IF q \in Asked THEN head[q] ELSE t[q]]
<1>2. CASE /\ index' = restored(index) /\ work' = restored(work)
           /\ \/ call' = [call EXCEPT !.changed = Asked, !.pc = "restored"]
              \/ call' = [call EXCEPT !.changed = Asked, !.pc = "done", !.reply = "refused"]
  <2>1. Asked \subseteq Paths
    BY <1>1, PathsOfCall
  <2>2. TypeOK'
    <3>1. TreesOK'
      BY <1>1, <1>2, <2>1 DEF TypeOK, TreesOK
    <3>2. call' \in CallType /\ (call'.reply = None <=> call'.pc # "done")
      BY <1>1, <1>2, <2>1, Constants DEF TypeOK, CallType, Steps, Replies
    <3>. QED  BY <3>1, <3>2 DEF TypeOK
  <2>3. HasPaths' /\ StepsOfKind' /\ OwnChanges' /\ Hashed'
    BY <1>1, <1>2 DEF TypeOK, CallType, HasPaths, Moves, StepsOfKind, Fits, OwnChanges, Hashed
  <2>. QED  BY <2>2, <2>3
<1>3. CASE UNCHANGED <<work, index>> /\ Reply("refused")
  BY <1>1, <1>3, ReplyKeeps DEF trees
<1>. QED  BY <1>2, <1>3 DEF Restore

(* The plans of the cleanup tools. *)
LEMMA PlansKeep ==
  ASSUME IInv, PlanUntracked \/ ListTracked \/ ListGenerated \/ Walk
  PROVE  IInv'
<1>. USE DEF IInv, At
<1>1. /\ call # None /\ UNCHANGED trees
      /\ call.pc \in {"untracked", "ls-files", "list", "walk"} /\ Fits(call.kind, call.pc)
  BY DEF PlanUntracked, ListTracked, ListGenerated, Walk, StepsOfKind
<1>2. Asked \subseteq Paths /\ Tracked \subseteq Paths /\ Ignored \subseteq Paths
  BY <1>1, PathsOfCall, Constants DEF Tracked
<1>3. CASE Reply("refused")
  BY <1>1, <1>3, ReplyKeeps DEF Fits
<1>4. CASE PlanUntracked /\ call' = [call EXCEPT !.todo = Asked, !.pc = "unlink"]
  <2>1. call.kind = "untracked" /\ call.pc = "untracked"
    BY <1>1, <1>4 DEF PlanUntracked, Fits
  <2>2. TypeOK' /\ HasPaths' /\ StepsOfKind'
    BY <1>1, <1>2, <1>4, <2>1 DEF TypeOK, CallType, TreesOK, trees, Steps, HasPaths, Moves, StepsOfKind, Fits
  <2>3. OwnChanges' /\ Hashed'
    <3>1. /\ call'.kind = "untracked" /\ call'.pc = "unlink" /\ call'.reply \notin Replies
          /\ call'.changed = {} /\ call'.todo = Asked /\ call'.paths = call.paths
      BY <1>1, <1>4, <2>1, Constants DEF TypeOK, CallType, OwnChanges
    <3>. QED  BY <3>1 DEF OwnChanges, Hashed, Asked, Replies
  <2>. QED  BY <2>2, <2>3
<1>5. ASSUME NEW listed \in SUBSET Paths, NEW todo \in SUBSET Paths, NEW tracked \in SUBSET Paths,
             NEW whole \in BOOLEAN, NEW l \in {"list", "walk", "unlink"}, call.kind = "generated",
             call' = [call EXCEPT !.listed = listed, !.todo = todo, !.tracked = tracked, !.whole = whole, !.pc = l]
      PROVE  IInv'
  <2>1. TypeOK' /\ HasPaths' /\ StepsOfKind'
    BY <1>1, <1>5 DEF TypeOK, CallType, TreesOK, trees, Steps, HasPaths, Moves, StepsOfKind, Fits
  <2>2. OwnChanges' /\ Hashed'
    BY <1>1, <1>5 DEF TypeOK, CallType, OwnChanges, Hashed
  <2>. QED  BY <2>1, <2>2
<1>6. CASE ListTracked /\ ~Reply("refused")
  <2>1. /\ call.kind = "generated"
        /\ call' = [call EXCEPT !.listed = Tracked, !.pc = "list"]
    BY <1>1, <1>6 DEF ListTracked, Fits
  <2>2. TypeOK' /\ HasPaths' /\ StepsOfKind'
    BY <1>1, <1>2, <2>1 DEF TypeOK, CallType, TreesOK, trees, Steps, HasPaths, Moves, StepsOfKind, Fits
  <2>3. OwnChanges' /\ Hashed'
    BY <1>1, <2>1 DEF TypeOK, CallType, OwnChanges, Hashed
  <2>. QED  BY <2>2, <2>3
<1>7. CASE ListGenerated /\ ~Reply("refused")
  <2>1. PICK files \in SUBSET Paths, whole \in BOOLEAN :
          call' = [call EXCEPT !.todo = files, !.whole = whole, !.pc = IF whole THEN "walk" ELSE "unlink"]
    BY <1>2, <1>7 DEF ListGenerated, Collapsed
  <2>2. call.kind = "generated"
    BY <1>1, <1>7 DEF ListGenerated, Fits
  <2>3. call.listed \in SUBSET Paths /\ call.tracked \in SUBSET Paths
    BY <1>1 DEF TypeOK, CallType
  <2>4. call' = [call EXCEPT !.listed = call.listed, !.todo = files, !.tracked = call.tracked,
                             !.whole = whole, !.pc = IF whole THEN "walk" ELSE "unlink"]
    BY <1>1, <2>1 DEF TypeOK, CallType
  <2>. QED  BY <1>5, <2>2, <2>3, <2>4
<1>8. CASE Walk /\ ~Reply("refused")
  <2>1. PICK todo, tracked \in SUBSET Paths :
          call' = [call EXCEPT !.todo = todo, !.tracked = tracked, !.pc = "unlink"]
    <3>1. call.todo \in SUBSET Paths
      BY <1>1 DEF TypeOK, CallType
    <3>2. call' = [call EXCEPT !.todo = @ \cup {q \in Ignored : work[q] # None},
                               !.tracked = {q \in Ignored : work[q] # None} \cap Tracked, !.pc = "unlink"]
      BY <1>8 DEF Walk
    <3>. QED  BY <1>2, <3>1, <3>2
  <2>2. call.kind = "generated"
    BY <1>1, <1>8 DEF Walk, Fits
  <2>3. call.listed \in SUBSET Paths /\ call.whole \in BOOLEAN
    BY <1>1 DEF TypeOK, CallType
  <2>4. call' = [call EXCEPT !.listed = call.listed, !.todo = todo, !.tracked = tracked,
                             !.whole = call.whole, !.pc = "unlink"]
    BY <1>1, <2>1 DEF TypeOK, CallType
  <2>. QED  BY <1>5, <2>2, <2>3, <2>4
<1>. QED  BY <1>3, <1>4, <1>6, <1>7, <1>8 DEF PlanUntracked

(* The removals of the cleanup tools, one file at a time, and their ends. *)
LEMMA UnlinkKeeps ==
  ASSUME IInv, Unlink
  PROVE  IInv'
<1>. USE DEF IInv, At
<1>1. /\ call # None /\ call.pc = "unlink" /\ UNCHANGED <<head, index>>
      /\ call.kind \in {"untracked", "generated"}
  BY DEF Unlink, StepsOfKind, Fits
<1>2. CASE UNCHANGED work /\ Reply("refused")
  BY <1>1, <1>2, ReplyKeeps DEF trees
<1>3. ASSUME NEW q \in call.todo, NEW w, NEW changed \in SUBSET Paths, NEW tracked \in SUBSET Paths,
             work' = [work EXCEPT ![q] = w], w \in File,
             call' = [call EXCEPT !.todo = @ \ {q}, !.changed = changed, !.tracked = tracked],
             call.kind = "untracked" => changed = call.changed \cup {q}
      PROVE  IInv'
  <2>1. q \in Paths /\ call.todo \subseteq Paths
    BY <1>1, <1>3 DEF TypeOK, CallType
  <2>2. TypeOK' /\ HasPaths' /\ StepsOfKind'
    BY <1>1, <1>3, <2>1 DEF TypeOK, CallType, TreesOK, HasPaths, Moves, StepsOfKind
  <2>3. /\ call'.kind = call.kind /\ call'.pc = "unlink" /\ call'.paths = call.paths
        /\ call'.todo = call.todo \ {q} /\ call'.changed = changed /\ call'.reply \notin Replies
    BY <1>1, <1>3, Constants DEF TypeOK, CallType
  <2>4. OwnChanges' /\ Hashed'
    <3>1. call.kind = "untracked" => changed \cup (call.todo \ {q}) = Asked
      BY <1>1, <1>3 DEF OwnChanges
    <3>2. Asked' = Asked
      BY <2>3 DEF Asked
    <3>. QED  BY <1>1, <2>3, <3>1, <3>2 DEF OwnChanges, Hashed, Replies
  <2>. QED  BY <2>2, <2>4
<1>4. PICK q \in call.todo :
        \/ /\ work' = [work EXCEPT ![q] = None]
           /\ call' = [call EXCEPT !.todo = @ \ {q}, !.changed = @ \cup {q},
                                   !.tracked = @ \cup ({q} \cap Tracked)]
        \/ /\ call.kind = "generated" /\ UNCHANGED work
           /\ call' = [call EXCEPT !.todo = @ \ {q}]
        \/ UNCHANGED work /\ Reply("refused")
  BY DEF Unlink
<1>5. /\ q \in Paths /\ call.changed \in SUBSET Paths /\ call.tracked \in SUBSET Paths
      /\ work[q] \in File /\ None \in File /\ work \in [Paths -> File]
  BY <1>1 DEF TypeOK, CallType, TreesOK, File
<1>6. CASE /\ work' = [work EXCEPT ![q] = None]
           /\ call' = [call EXCEPT !.todo = @ \ {q}, !.changed = @ \cup {q},
                                   !.tracked = @ \cup ({q} \cap Tracked)]
  <2>1. call.changed \cup {q} \in SUBSET Paths /\ call.tracked \cup ({q} \cap Tracked) \in SUBSET Paths
    BY <1>5
  <2>. QED  BY <1>3, <1>5, <1>6, <2>1
<1>7. CASE /\ call.kind = "generated" /\ UNCHANGED work
           /\ call' = [call EXCEPT !.todo = @ \ {q}]
  <2>1. work' = [work EXCEPT ![q] = work[q]]
    BY <1>5, <1>7
  <2>2. call' = [call EXCEPT !.todo = @ \ {q}, !.changed = call.changed, !.tracked = call.tracked]
    BY <1>1, <1>7 DEF TypeOK, CallType
  <2>. QED  BY <1>3, <1>5, <1>7, <2>1, <2>2
<1>. QED  BY <1>2, <1>4, <1>6, <1>7

LEMMA CleanupsEnd ==
  ASSUME IInv, VerifyUntracked \/ RemoveDirectory
  PROVE  IInv'
<1>. USE DEF IInv, At
<1>1. call # None /\ call.pc = "unlink" /\ call.todo = {} /\ UNCHANGED <<head, index>>
  BY DEF VerifyUntracked, RemoveDirectory, trees
<1>2. CASE VerifyUntracked
  <2>1. CASE Reply("ok")
    <3>1. TypeOK'
      <4>1. TreesOK'
        BY <1>2 DEF VerifyUntracked, TypeOK, TreesOK, trees
      <4>2. call' \in CallType /\ (call'.reply = None <=> call'.pc # "done")
        BY <1>1, <2>1, Constants DEF Reply, TypeOK, CallType, Steps, Replies
      <4>. QED  BY <4>1, <4>2 DEF TypeOK
    <3>2. /\ call'.kind = "untracked" /\ call'.pc = "done" /\ call'.reply = "ok" /\ call'.paths = call.paths
          /\ call'.changed = call.changed
      BY <1>1, <1>2, <2>1 DEF VerifyUntracked, Reply, TypeOK, CallType
    <3>3. call.changed = Asked
      BY <1>1, <1>2 DEF VerifyUntracked, OwnChanges
    <3>4. HasPaths' /\ StepsOfKind'
      BY <1>1, <3>2 DEF HasPaths, Moves, StepsOfKind, Fits
    <3>5. Asked' = Asked
      BY <3>2 DEF Asked
    <3>6. OwnChanges' /\ Hashed'
      BY <3>2, <3>3, <3>5 DEF OwnChanges, Hashed
    <3>. QED  BY <3>1, <3>4, <3>6
  <2>. QED  BY <1>1, <1>2, <2>1, ReplyKeeps DEF VerifyUntracked
<1>3. CASE RemoveDirectory
  <2>1. PICK gone \in SUBSET Paths, reply \in {"ok", "refused"} :
          /\ work' = [q \in Paths |-> IF q \in gone THEN None ELSE work[q]]
          /\ call' = [call EXCEPT !.changed = @ \cup gone, !.tracked = @ \cup (gone \cap Tracked),
                                  !.pc = "done", !.reply = reply]
    BY <1>3, Constants DEF RemoveDirectory
  <2>2. call.kind = "generated"
    BY <1>3 DEF RemoveDirectory
  <2>3. TreesOK'
    BY <1>1, <2>1 DEF TypeOK, TreesOK, File
  <2>4. call' \in CallType /\ (call'.reply = None <=> call'.pc # "done")
    BY <1>1, <2>1, Constants DEF TypeOK, CallType, Steps, Replies
  <2>5. call'.kind = "generated" /\ call'.paths = call.paths /\ call'.pc = "done"
    BY <1>1, <2>1, <2>2 DEF TypeOK, CallType
  <2>6. HasPaths' /\ StepsOfKind' /\ OwnChanges' /\ Hashed'
    BY <1>1, <2>2, <2>5 DEF HasPaths, Moves, StepsOfKind, Fits, OwnChanges, Hashed
  <2>. QED  BY <2>3, <2>4, <2>6 DEF TypeOK
<1>. QED  BY <1>2, <1>3

(* The end of a call, and everybody else. *)
LEMMA OthersKeep ==
  ASSUME IInv, Return \/ Edit \/ OtherIndex \/ OtherCommit
  PROVE  IInv'
<1>. USE DEF IInv
<1>1. CASE Return
  BY <1>1 DEF Return, TypeOK, TreesOK, trees, HasPaths, StepsOfKind, OwnChanges, Hashed
<1>2. CASE Edit
  <2>1. TreesOK'
    BY <1>2 DEF Edit, EditAnywhere, TypeOK, TreesOK
  <2>2. CASE At("remove")
    <3>1. call' = [call EXCEPT !.stale = TRUE] /\ call # None /\ call.pc = "remove"
      BY <1>2, <2>2 DEF Edit, At
    <3>2. TypeOK' /\ HasPaths' /\ StepsOfKind'
      BY <2>1, <3>1 DEF TypeOK, CallType, HasPaths, Moves, StepsOfKind
    <3>3. /\ call'.kind = call.kind /\ call'.pc = call.pc /\ call'.reply = call.reply
          /\ call'.changed = call.changed /\ call'.todo = call.todo /\ call'.paths = call.paths
          /\ call'.stale
      BY <3>1 DEF TypeOK, CallType
    <3>4. From' = From /\ To' = To /\ Asked' = Asked
      BY <3>3 DEF From, To, Asked
    <3>5. OwnChanges' /\ Hashed'
      BY <3>1, <3>3, <3>4 DEF OwnChanges, Hashed
    <3>. QED  BY <3>2, <3>5
  <2>3. CASE ~At("remove")
    <3>1. call' = call
      BY <1>2, <2>3 DEF Edit
    <3>. QED  BY <2>1, <2>3, <3>1 DEF At, TypeOK, HasPaths, Moves, StepsOfKind, OwnChanges, Hashed, From, To, Asked
  <2>. QED  BY <2>2, <2>3
<1>3. CASE OtherIndex
  <2>1. UNCHANGED <<work, head, call>>
    BY <1>3 DEF OtherIndex, ChangeIndex
  <2>2. TreesOK'
    BY <1>3, <2>1 DEF OtherIndex, ChangeIndex, TypeOK, TreesOK, File
  <2>. QED  BY <2>1, <2>2 DEF TypeOK, HasPaths, Moves, StepsOfKind, OwnChanges, Hashed, From, To, Asked
<1>4. CASE OtherCommit
  <2>1. UNCHANGED <<work, index, call>> /\ TreesOK'
    BY <1>4 DEF OtherCommit, CommitIndex, TypeOK, TreesOK
  <2>. QED  BY <2>1 DEF TypeOK, HasPaths, Moves, StepsOfKind, OwnChanges, Hashed, From, To, Asked
<1>. QED  BY <1>1, <1>2, <1>3, <1>4

LEMMA NextKeeps == IInv /\ [Next]_vars => IInv'
<1>. SUFFICES ASSUME IInv, [Next]_vars PROVE IInv'
  OBVIOUS
<1>1. CASE UNCHANGED vars
  BY <1>1 DEF IInv, vars, TypeOK, TreesOK, HasPaths, Moves, StepsOfKind, OwnChanges, Hashed, From, To, Asked
<1>. QED  BY <1>1, StartKeeps, LooksKeep, VerificationsKeep, RemoveKeeps, MoveWithGitKeeps, RestoreKeeps,
             PlansKeep, UnlinkKeeps, CleanupsEnd, OthersKeep DEF Next

THEOREM Invariance == Spec => []IInv
BY InitIInv, NextKeeps, PTL DEF Spec

-----------------------------------------------------------------------------
(* What holds as long as nobody else runs Git during a call. *)

(* What the looks of a move found is still so, and git mv stages the move and nothing else. *)
MoveIsAlone ==
  call # None /\ Moves =>
    /\ call.pc \in {"fresh", "clean", "index", "hash", "move"} => From \in Tracked
    /\ call.pc \in {"clean", "index", "hash", "move"} => To \notin Tracked
    /\ call.pc \in {"index", "hash", "move"} => index[From] = head[From]
    /\ call.pc \in {"hash", "move"} => Staged = {}
    /\ call.pc \in {"moved", "entries"} \/ call.reply = "ok" =>
         Staged = {From, To} /\ head[From] # None /\ index[To] = head[From]

RestoredIsHead ==
  call # None /\ call.kind = "restore" /\ (call.pc = "restored" \/ call.reply = "ok") =>
    \A q \in Asked : index[q] = head[q]

DeletedIsUnstaged ==
  call # None /\ call.kind = "delete" /\ call.reply = "ok" => head[From] # None /\ index[From] = head[From]

(* What is to be removed was and is untracked; a directory that is to go holds no tracked file. *)
OnlyUntracked ==
  call # None /\ call.kind \in {"untracked", "generated"} =>
    /\ call.kind = "generated" /\ call.pc \in {"list", "walk", "unlink"} => call.listed = Tracked
    /\ call.todo \cap Tracked = {} /\ call.tracked = {}
    /\ call.whole => Ignored \cap Tracked = {}

GitInv == MoveIsAlone /\ RestoredIsHead /\ DeletedIsUnstaged /\ OnlyUntracked

LEMMA InitGitInv == Init => GitInv
BY DEF Init, GitInv, MoveIsAlone, RestoredIsHead, DeletedIsUnstaged, OnlyUntracked

LEMMA StartKeepsGit ==
  ASSUME Start
  PROVE  GitInv'
<1>1. PICK r \in Requests :
        call' = [kind |-> r.kind, paths |-> r.paths, hash |-> r.hash, listed |-> {}, todo |-> {},
                 whole |-> FALSE, changed |-> {}, took |-> None, tracked |-> {},
                 stale |-> FALSE, reply |-> None,
                 pc |-> CASE r.kind \in {"delete", "move"} -> "source"
                          [] r.kind = "restore" -> "status"
                          [] r.kind = "untracked" -> "untracked"
                          [] OTHER -> "ls-files"]
  BY DEF Start
<1>2. r.kind \in Kinds
  BY Constants
<1>3. call'.pc \in {"source", "status", "untracked", "ls-files"} /\ call'.reply \notin Replies
  BY <1>1, <1>2, Constants DEF Kinds
<1>4. call'.todo = {} /\ call'.tracked = {} /\ ~call'.whole
  BY <1>1
<1>. QED  BY <1>3, <1>4 DEF GitInv, MoveIsAlone, RestoredIsHead, DeletedIsUnstaged, OnlyUntracked, Replies

(* A refusal claims nothing. *)
LEMMA ReplyKeepsGit ==
  ASSUME IInv, GitInv, call # None, call.pc # "done", UNCHANGED <<head, index>>,
         NEW r \in {"refused", "verification failed"}, Reply(r)
  PROVE  GitInv'
<1>. /\ call'.kind = call.kind /\ call'.pc = "done" /\ call'.reply = r
     /\ call'.todo = call.todo /\ call'.tracked = call.tracked /\ call'.whole = call.whole
  BY DEF IInv, TypeOK, CallType, Reply
<1>. Tracked' = Tracked
  BY DEF Tracked
<1>. QED  BY DEF GitInv, MoveIsAlone, RestoredIsHead, DeletedIsUnstaged, OnlyUntracked, Moves

(* What the looks of a move have shown when it comes to a step. *)
Seen(l) ==
  Moves =>
    /\ l \in {"fresh", "clean", "index", "hash", "move"} => From \in Tracked
    /\ l \in {"clean", "index", "hash", "move"} => To \notin Tracked
    /\ l \in {"index", "hash", "move"} => index[From] = head[From]
    /\ l \in {"hash", "move"} => Staged = {}

(* A step that leaves the index and the plan of the call alone. *)
LEMMA GotoKeepsGit ==
  ASSUME IInv, GitInv, call # None, call.pc # "done", UNCHANGED <<head, index>>,
         NEW l \in Between, l \notin {"restored", "list", "walk", "moved"},
         call'.pc = l, Seen(l), l = "entries" => call.pc = "moved",
         call'.kind = call.kind, call'.paths = call.paths, call'.reply = call.reply, call'.listed = call.listed,
         call'.todo = call.todo, call'.tracked = call.tracked, call'.whole = call.whole
  PROVE  GitInv'
<1>. Tracked' = Tracked /\ Staged' = Staged /\ From' = From /\ To' = To /\ Asked' = Asked
  BY DEF Tracked, Staged, From, To, Asked
<1>. Moves' = Moves /\ call.reply \notin Replies
  BY Constants DEF Moves, IInv, TypeOK
<1>1. MoveIsAlone'
  BY DEF GitInv, MoveIsAlone, Replies, Seen, Between
<1>2. RestoredIsHead' /\ DeletedIsUnstaged'
  BY DEF GitInv, RestoredIsHead, DeletedIsUnstaged, Replies
<1>3. OnlyUntracked'
  BY DEF GitInv, OnlyUntracked, Between
<1>. QED  BY <1>1, <1>2, <1>3 DEF GitInv

LEMMA LookKeepsGit ==
  ASSUME IInv, GitInv, call # None, call.pc # "done", UNCHANGED trees,
         NEW l \in Between, l \notin {"restored", "list", "walk", "moved"},
         Goto(l), Seen(l), l = "entries" => call.pc = "moved"
  PROVE  GitInv'
<1>1. /\ call'.pc = l
      /\ call'.kind = call.kind /\ call'.paths = call.paths /\ call'.reply = call.reply
      /\ call'.listed = call.listed /\ call'.todo = call.todo /\ call'.tracked = call.tracked
      /\ call'.whole = call.whole
  BY DEF IInv, TypeOK, CallType, Goto
<1>. QED  BY <1>1, GotoKeepsGit DEF trees

(* What each look shows. *)
LEMMA LooksShow ==
  ASSUME IInv, GitInv, call # None
  PROVE  /\ Seen("destination") /\ Seen("tracked")
         /\ From \in Tracked => Seen("fresh")
         /\ call.pc = "fresh" /\ To \notin Tracked => Seen("clean")
         /\ call.pc = "clean" /\ From \notin Dirty => Seen("index")
         /\ call.pc = "index" /\ Staged = {} => Seen("hash")
         /\ ~Moves => \A l \in Between : Seen(l)
<1>1. From \in Paths
  BY PathsOfCall DEF IInv
<1>. QED  BY <1>1 DEF Seen, GitInv, MoveIsAlone, Dirty, Staged

LEMMA LooksKeepGit ==
  ASSUME IInv, GitInv,
         \/ ResolveExistingFile \/ ResolveAbsentFile \/ EnsureTracked \/ EnsureNotTracked
         \/ EnsurePathClean \/ EnsureIndexClean \/ Rehash \/ VerifyGone \/ VerifyMoved
         \/ PlanRestore \/ EnsurePathsTracked
  PROVE  GitInv'
<1>1. call # None /\ call.pc # "done" /\ UNCHANGED trees /\ UNCHANGED <<head, index>>
  BY DEF Look, At, trees, ResolveExistingFile, ResolveAbsentFile,
     EnsureTracked, EnsureNotTracked, EnsurePathClean, EnsureIndexClean, Rehash, VerifyGone, VerifyMoved,
     PlanRestore, EnsurePathsTracked
<1>2. CASE \E r \in {"refused", "verification failed"} : Reply(r)
  BY <1>1, <1>2, ReplyKeepsGit
<1>3. CASE \E l \in Between :
             l \notin {"restored", "list", "walk", "moved"} /\ Goto(l) /\ Seen(l) /\ (l = "entries" => call.pc = "moved")
  BY <1>1, <1>3, LookKeepsGit
<1>. SUFFICES ASSUME ~Reply("refused"), ~Reply("verification failed")
              PROVE  \E l \in Between :
                       l \notin {"restored", "list", "walk", "moved"} /\ Goto(l) /\ Seen(l) /\ (l = "entries" => call.pc = "moved")
  BY <1>2, <1>3
<1>. USE <1>1, NextIsBetween, LooksShow DEF Look, At
<1>4. CASE ResolveExistingFile  BY <1>4 DEF ResolveExistingFile
<1>5. CASE ResolveAbsentFile    BY <1>5 DEF ResolveAbsentFile
<1>6. CASE EnsureTracked
  BY <1>6 DEF EnsureTracked
<1>7. CASE EnsureNotTracked     BY <1>7 DEF EnsureNotTracked
<1>8. CASE EnsurePathClean      BY <1>8 DEF EnsurePathClean
<1>9. CASE EnsureIndexClean     BY <1>9 DEF EnsureIndexClean
<1>10. ~Moves => \A l \in Between : Seen(l)
  OBVIOUS
<1>11. call.pc \in {"rehash", "gone", "status", "known"} => ~Moves
  BY DEF IInv, StepsOfKind, Fits, Moves
<1>12. CASE Rehash              BY <1>10, <1>11, <1>12 DEF Rehash
<1>13. CASE VerifyGone          BY <1>10, <1>11, <1>13 DEF VerifyGone
<1>14. CASE VerifyMoved         BY <1>14 DEF VerifyMoved, Seen
<1>15. CASE PlanRestore         BY <1>10, <1>11, <1>15 DEF PlanRestore
<1>16. CASE EnsurePathsTracked  BY <1>10, <1>11, <1>16 DEF EnsurePathsTracked
<1>. QED  BY <1>4, <1>5, <1>6, <1>7, <1>8, <1>9, <1>12, <1>13, <1>14, <1>15, <1>16

(* A success, with what it claims. *)
LEMMA SuccessKeepsGit ==
  ASSUME IInv, GitInv, call # None, UNCHANGED <<head, index>>, Reply("ok"),
         Moves => Staged = {From, To} /\ head[From] # None /\ index[To] = head[From],
         call.kind = "restore" => \A q \in Asked : index[q] = head[q],
         call.kind = "delete" => head[From] # None /\ index[From] = head[From]
  PROVE  GitInv'
<1>1. /\ call'.kind = call.kind /\ call'.pc = "done" /\ call'.reply = "ok" /\ call'.paths = call.paths
      /\ call'.todo = call.todo /\ call'.tracked = call.tracked /\ call'.whole = call.whole
  BY DEF IInv, TypeOK, CallType, Reply
<1>2. Tracked' = Tracked /\ Staged' = Staged /\ From' = From /\ To' = To /\ Asked' = Asked /\ Moves' = Moves
  BY <1>1 DEF Tracked, Staged, From, To, Asked, Moves
<1>3. MoveIsAlone' /\ RestoredIsHead' /\ DeletedIsUnstaged'
  BY <1>1, <1>2 DEF MoveIsAlone, RestoredIsHead, DeletedIsUnstaged
<1>4. OnlyUntracked'
  BY <1>1, <1>2 DEF GitInv, OnlyUntracked
<1>. QED  BY <1>3, <1>4 DEF GitInv

LEMMA VerificationsKeepGit ==
  ASSUME IInv, GitInv, VerifyDeletion \/ VerifyEntries \/ VerifyRestored \/ VerifyUntracked
  PROVE  GitInv'
<1>1. call # None /\ call.pc # "done" /\ UNCHANGED <<head, index>> /\ Fits(call.kind, call.pc)
  BY DEF VerifyDeletion, VerifyEntries, VerifyRestored, VerifyUntracked, At, trees, IInv, StepsOfKind
<1>2. CASE Reply("refused") \/ Reply("verification failed")
  BY <1>1, <1>2, ReplyKeepsGit
<1>3. From \in Paths
  BY <1>1, PathsOfCall DEF IInv
<1>4. CASE VerifyDeletion /\ Reply("ok")
  <2>1. call.kind = "delete" /\ From \in Tracked \ Staged
    BY <1>1, <1>2, <1>4 DEF VerifyDeletion, At, Fits, Reply, IInv, TypeOK, CallType
  <2>. QED  BY <1>1, <1>3, <1>4, <2>1, SuccessKeepsGit DEF Moves, Tracked, Staged
<1>5. CASE VerifyEntries /\ Reply("ok")
  <2>1. call.kind = "move" /\ call.pc = "entries"
    BY <1>1, <1>5 DEF VerifyEntries, At, Fits
  <2>. QED  BY <1>1, <1>5, <2>1, SuccessKeepsGit DEF Moves, GitInv, MoveIsAlone
<1>6. CASE VerifyRestored /\ Reply("ok")
  <2>1. call.kind = "restore" /\ call.pc = "restored"
    BY <1>1, <1>6 DEF VerifyRestored, At, Fits
  <2>. QED  BY <1>1, <1>6, <2>1, SuccessKeepsGit DEF Moves, GitInv, RestoredIsHead
<1>7. CASE VerifyUntracked /\ Reply("ok")
  BY <1>1, <1>7, SuccessKeepsGit DEF Moves, VerifyUntracked
<1>. QED  BY <1>2, <1>4, <1>5, <1>6, <1>7 DEF VerifyDeletion, VerifyEntries, VerifyRestored, VerifyUntracked

LEMMA ExaminesKeepGit ==
  ASSUME IInv, GitInv, Hash \/ Remove
  PROVE  GitInv'
<1>1. call # None /\ call.pc # "done" /\ UNCHANGED <<head, index>> /\ Fits(call.kind, call.pc)
  BY DEF Hash, Remove, At, trees, IInv, StepsOfKind
<1>2. CASE Reply("refused")
  BY <1>1, <1>2, ReplyKeepsGit
<1>3. CASE Moves /\ call.pc = "hash" /\ call' = [call EXCEPT !.hash = work[From], !.pc = "move"]
  <2>1. Seen("move") /\ "move" \in Between
    BY <1>1, <1>3 DEF Seen, GitInv, MoveIsAlone, Between, Steps
  <2>2. /\ call'.pc = "move" /\ call'.kind = call.kind /\ call'.paths = call.paths
        /\ call'.reply = call.reply /\ call'.listed = call.listed /\ call'.todo = call.todo
        /\ call'.tracked = call.tracked /\ call'.whole = call.whole
    BY <1>1, <1>3 DEF IInv, TypeOK, CallType
  <2>. QED  BY <1>1, <2>1, <2>2, GotoKeepsGit
<1>4. CASE ~Moves /\ Goto("rehash")
  <2>1. Seen("rehash") /\ "rehash" \in Between
    BY <1>4 DEF Seen, Between, Steps
  <2>2. /\ call'.pc = "rehash" /\ call'.kind = call.kind /\ call'.paths = call.paths
        /\ call'.reply = call.reply /\ call'.listed = call.listed /\ call'.todo = call.todo
        /\ call'.tracked = call.tracked /\ call'.whole = call.whole
    BY <1>1, <1>4 DEF IInv, TypeOK, CallType, Goto
  <2>. QED  BY <1>1, <2>1, <2>2, GotoKeepsGit
<1>5. CASE /\ call.pc = "remove"
           /\ call' = [call EXCEPT !.pc = "gone", !.took = work[From], !.changed = {From}]
  <2>1. Seen("gone") /\ "gone" \in Between
    BY DEF Seen, Between, Steps
  <2>2. /\ call'.pc = "gone" /\ call'.kind = call.kind /\ call'.paths = call.paths
        /\ call'.reply = call.reply /\ call'.listed = call.listed /\ call'.todo = call.todo
        /\ call'.tracked = call.tracked /\ call'.whole = call.whole
    BY <1>1, <1>5 DEF IInv, TypeOK, CallType
  <2>. QED  BY <1>1, <2>1, <2>2, GotoKeepsGit
<1>. QED  BY <1>2, <1>3, <1>4, <1>5 DEF Hash, Remove, At

(* git mv from a clean index stages the two paths and nothing else. *)
LEMMA MoveWithGitKeepsGit ==
  ASSUME IInv, GitInv, MoveWithGit
  PROVE  GitInv'
<1>1. call # None /\ call.pc = "move" /\ Moves /\ UNCHANGED head
  BY DEF MoveWithGit, At, IInv, StepsOfKind, Fits, Moves
<1>2. From \in Paths /\ To \in Paths
  BY <1>1, PathsOfCall DEF IInv
<1>3. From \in Tracked /\ To \notin Tracked /\ Staged = {}
  BY <1>1 DEF GitInv, MoveIsAlone
<1>4. CASE /\ index' = [index EXCEPT ![From] = None, ![To] = index[From]]
           /\ \/ call' = [call EXCEPT !.changed = {From, To}, !.pc = "moved"]
              \/ call' = [call EXCEPT !.changed = {From, To}, !.pc = "done", !.reply = "refused"]
  <2>1. /\ call'.kind = "move" /\ call'.paths = call.paths
        /\ \/ call'.pc = "moved" /\ call'.reply = call.reply
           \/ call'.pc = "done" /\ call'.reply = "refused"
    BY <1>1, <1>4 DEF IInv, TypeOK, CallType, Moves
  <2>2. From' = From /\ To' = To
    BY <2>1 DEF From, To
  <2>3. index \in [Paths -> File] /\ head \in [Paths -> File] /\ \A q \in Paths : index[q] = head[q]
    BY <1>3 DEF IInv, TypeOK, TreesOK, Staged
  <2>4. From # To /\ index[From] # None /\ index[To] = None
    BY <1>2, <1>3 DEF Tracked
  <2>5. Staged' = {From, To} /\ head'[From] # None /\ index'[To] = head'[From]
    BY <1>1, <1>2, <1>4, <2>3, <2>4 DEF Staged
  <2>. QED  BY <2>1, <2>2, <2>5 DEF GitInv, MoveIsAlone, RestoredIsHead, DeletedIsUnstaged, OnlyUntracked
<1>5. CASE UNCHANGED index /\ Reply("refused")
  BY <1>1, <1>5, ReplyKeepsGit
<1>. QED  BY <1>4, <1>5 DEF MoveWithGit

LEMMA RestoreKeepsGit ==
  ASSUME IInv, GitInv, Restore
  PROVE  GitInv'
<1>1. call # None /\ call.pc = "restore" /\ call.kind = "restore" /\ UNCHANGED head
  BY DEF Restore, At, IInv, StepsOfKind, Fits
<1>2. CASE /\ index' = [q \in Paths |-> IF q \in Asked THEN head[q] ELSE index[q]]
           /\ \/ call' = [call EXCEPT !.changed = Asked, !.pc = "restored"]
              \/ call' = [call EXCEPT !.changed = Asked, !.pc = "done", !.reply = "refused"]
  <2>1. call'.kind = "restore" /\ call'.paths = call.paths
    BY <1>1, <1>2 DEF IInv, TypeOK, CallType
  <2>2. Asked' = Asked /\ Asked \subseteq Paths
    BY <1>1, <2>1, PathsOfCall DEF Asked, IInv
  <2>3. \A q \in Asked : index'[q] = head'[q]
    BY <1>1, <1>2, <2>2
  <2>. QED  BY <2>1, <2>2, <2>3 DEF GitInv, MoveIsAlone, Moves, RestoredIsHead, DeletedIsUnstaged, OnlyUntracked
<1>3. CASE UNCHANGED index /\ Reply("refused")
  BY <1>1, <1>3, ReplyKeepsGit
<1>. QED  BY <1>2, <1>3 DEF Restore

(* The plans hold untracked files only, and a directory goes as a whole only when all of it is. *)
LEMMA PlansKeepGit ==
  ASSUME IInv, GitInv, PlanUntracked \/ ListTracked \/ ListGenerated \/ Walk
  PROVE  GitInv'
<1>1. /\ call # None /\ call.pc # "done" /\ UNCHANGED <<head, index>> /\ Fits(call.kind, call.pc)
      /\ call.pc \in {"untracked", "ls-files", "list", "walk"}
  BY DEF PlanUntracked, ListTracked, ListGenerated, Walk, At, trees, IInv, StepsOfKind
<1>2. CASE Reply("refused")
  BY <1>1, <1>2, ReplyKeepsGit
<1>3. /\ call.kind \in {"untracked", "generated"} /\ call.todo \cap Tracked = {} /\ call.tracked = {}
      /\ call.whole \in BOOLEAN /\ (call.whole => Ignored \cap Tracked = {})
  BY <1>1 DEF Fits, GitInv, OnlyUntracked, IInv, TypeOK, CallType
<1>4. ASSUME NEW listed, NEW todo, NEW tracked, NEW whole \in BOOLEAN, NEW l,
             call' = [call EXCEPT !.listed = listed, !.todo = todo, !.tracked = tracked, !.whole = whole, !.pc = l],
             call.kind = "generated" => listed = Tracked,
             todo \cap Tracked = {}, tracked = {}, whole => Ignored \cap Tracked = {}
      PROVE  GitInv'
  <2>1. /\ call'.kind = call.kind /\ call'.listed = listed /\ call'.todo = todo /\ call'.tracked = tracked
        /\ call'.whole = whole
    BY <1>1, <1>4 DEF IInv, TypeOK, CallType
  <2>2. Tracked' = Tracked
    BY <1>1 DEF Tracked
  <2>. QED  BY <1>3, <1>4, <2>1, <2>2
            DEF GitInv, MoveIsAlone, Moves, RestoredIsHead, DeletedIsUnstaged, OnlyUntracked
<1>5. CASE PlanUntracked /\ ~Reply("refused")
  <2>1. /\ call' = [call EXCEPT !.todo = Asked, !.pc = "unlink"]
        /\ Asked \subseteq Untracked /\ call.pc = "untracked"
    BY <1>1, <1>5 DEF PlanUntracked, At
  <2>2. call' = [call EXCEPT !.listed = call.listed, !.todo = Asked, !.tracked = call.tracked,
                             !.whole = call.whole, !.pc = "unlink"]
    BY <1>1, <2>1 DEF IInv, TypeOK, CallType
  <2>3. Asked \cap Tracked = {}
    BY <2>1 DEF Untracked, UntrackedOrIgnored, Tracked
  <2>4. call.kind = "untracked"
    BY <1>1, <2>1 DEF Fits
  <2>. QED  BY <1>3, <1>4, <2>2, <2>3, <2>4
<1>6. CASE ListTracked /\ ~Reply("refused")
  <2>1. call' = [call EXCEPT !.listed = Tracked, !.todo = call.todo, !.tracked = call.tracked,
                             !.whole = call.whole, !.pc = "list"]
    BY <1>1, <1>6 DEF ListTracked, IInv, TypeOK, CallType
  <2>. QED  BY <1>3, <1>4, <2>1
<1>7. CASE ListGenerated /\ ~Reply("refused")
  <2>1. PICK files \in SUBSET UntrackedOrIgnored, whole \in BOOLEAN, l \in {"walk", "unlink"} :
          call' = [call EXCEPT !.todo = files, !.whole = whole, !.pc = l] /\ (whole => Collapsed)
    BY <1>1, <1>7 DEF ListGenerated
  <2>2. files \cap Tracked = {} /\ (whole => Ignored \cap Tracked = {})
    BY <2>1 DEF UntrackedOrIgnored, Tracked, Collapsed
  <2>3. call.kind = "generated" => call.listed = Tracked
    BY <1>1, <1>7 DEF ListGenerated, At, GitInv, OnlyUntracked
  <2>4. call' = [call EXCEPT !.listed = call.listed, !.todo = files, !.tracked = call.tracked,
                             !.whole = whole, !.pc = l]
    BY <1>1, <2>1 DEF IInv, TypeOK, CallType
  <2>. QED  BY <1>3, <1>4, <2>2, <2>3, <2>4
<1>8. CASE Walk /\ ~Reply("refused")
  <2>. DEFINE files == {q \in Ignored : work[q] # None}
  <2>1. /\ call' = [call EXCEPT !.todo = @ \cup files, !.tracked = files \cap Tracked, !.pc = "unlink"]
        /\ files \cap call.listed = {} /\ call.pc = "walk"
    BY <1>1, <1>8 DEF Walk, At
  <2>2. call.kind = "generated" /\ call.listed = Tracked
    BY <1>1, <2>1 DEF Fits, GitInv, OnlyUntracked
  <2>. HIDE DEF files
  <2>3. files \cap Tracked = {} /\ (call.todo \cup files) \cap Tracked = {}
    BY <1>3, <2>1, <2>2
  <2>4. call' = [call EXCEPT !.listed = call.listed, !.todo = call.todo \cup files,
                             !.tracked = files \cap Tracked, !.whole = call.whole, !.pc = "unlink"]
    BY <1>1, <2>1 DEF IInv, TypeOK, CallType
  <2>. QED  BY <1>3, <1>4, <2>2, <2>3, <2>4
<1>. QED  BY <1>5, <1>2, <1>6, <1>7, <1>8

LEMMA RemovalsKeepGit ==
  ASSUME IInv, GitInv, Unlink \/ RemoveDirectory
  PROVE  GitInv'
<1>1. /\ call # None /\ call.pc = "unlink" /\ UNCHANGED <<head, index>>
      /\ call.kind \in {"untracked", "generated"}
  BY DEF Unlink, RemoveDirectory, At, IInv, StepsOfKind, Fits
<1>2. CASE Reply("refused")
  BY <1>1, <1>2, ReplyKeepsGit
<1>3. call.todo \cap Tracked = {} /\ call.tracked = {}
  BY <1>1 DEF GitInv, OnlyUntracked
<1>4. ASSUME call'.kind = call.kind, call'.listed = call.listed, call'.whole = call.whole,
             call'.todo \subseteq call.todo, call'.tracked = {}, call'.pc \in {"unlink", "done"}
      PROVE  GitInv'
  <2>1. Tracked' = Tracked
    BY <1>1 DEF Tracked
  <2>. QED  BY <1>1, <1>3, <1>4, <2>1
            DEF GitInv, MoveIsAlone, Moves, RestoredIsHead, DeletedIsUnstaged, OnlyUntracked
<1>5. CASE Unlink /\ ~Reply("refused")
  <2>1. PICK q \in call.todo :
          \/ call' = [call EXCEPT !.todo = @ \ {q}, !.changed = @ \cup {q}, !.tracked = @ \cup ({q} \cap Tracked)]
          \/ call' = [call EXCEPT !.todo = @ \ {q}]
    BY <1>5 DEF Unlink
  <2>2. q \notin Tracked
    BY <1>3
  <2>3. /\ call'.kind = call.kind /\ call'.listed = call.listed /\ call'.whole = call.whole
        /\ call'.todo = call.todo \ {q} /\ call'.pc = "unlink"
        /\ call'.tracked \in {call.tracked, call.tracked \cup ({q} \cap Tracked)}
    BY <1>1, <2>1 DEF IInv, TypeOK, CallType
  <2>4. call'.tracked = {}
    BY <1>3, <2>2, <2>3
  <2>. QED  BY <1>4, <2>3, <2>4
<1>6. CASE RemoveDirectory
  <2>1. PICK gone \in SUBSET (IF call.whole THEN {q \in Ignored : work[q] # None} ELSE {}) : \E reply :
          call' = [call EXCEPT !.changed = @ \cup gone, !.tracked = @ \cup (gone \cap Tracked),
                               !.pc = "done", !.reply = reply]
    BY <1>6 DEF RemoveDirectory
  <2>2. gone \cap Tracked = {}
    BY <1>1, <2>1 DEF GitInv, OnlyUntracked
  <2>3. /\ call'.kind = call.kind /\ call'.listed = call.listed /\ call'.whole = call.whole
        /\ call'.todo = call.todo /\ call'.pc = "done"
        /\ call'.tracked = call.tracked \cup (gone \cap Tracked)
    BY <1>1, <2>1 DEF IInv, TypeOK, CallType
  <2>. QED  BY <1>3, <1>4, <2>2, <2>3
<1>. QED  BY <1>2, <1>5, <1>6

(* Somebody else's Git runs between calls, or never. *)
LEMMA OthersKeepGit ==
  ASSUME IInv, GitInv, OtherGit # "any", Return \/ Edit \/ OtherIndex \/ OtherCommit
  PROVE  GitInv'
<1>1. CASE call' = None
  BY <1>1 DEF GitInv, MoveIsAlone, RestoredIsHead, DeletedIsUnstaged, OnlyUntracked
<1>2. CASE Edit /\ call' # None
  <2>1. UNCHANGED <<head, index>>
    BY <1>2 DEF Edit, EditAnywhere
  <2>2. call # None
    BY <1>2 DEF Edit, At
  <2>3. /\ call'.kind = call.kind /\ call'.pc = call.pc /\ call'.reply = call.reply /\ call'.paths = call.paths
        /\ call'.listed = call.listed /\ call'.todo = call.todo /\ call'.tracked = call.tracked
        /\ call'.whole = call.whole
    BY <1>2, <2>2 DEF Edit, IInv, TypeOK, CallType
  <2>4. Tracked' = Tracked /\ Staged' = Staged /\ From' = From /\ To' = To /\ Asked' = Asked /\ Moves' = Moves
    BY <2>1, <2>3 DEF Tracked, Staged, From, To, Asked, Moves
  <2>5. MoveIsAlone'
    BY <2>1, <2>2, <2>3, <2>4 DEF GitInv, MoveIsAlone
  <2>6. RestoredIsHead' /\ DeletedIsUnstaged' /\ OnlyUntracked'
    BY <2>1, <2>2, <2>3, <2>4 DEF GitInv, RestoredIsHead, DeletedIsUnstaged, OnlyUntracked
  <2>. QED  BY <2>5, <2>6 DEF GitInv
<1>. QED  BY <1>1, <1>2 DEF Return, OtherIndex, OtherCommit, MayRunGit

LEMMA NextKeepsGit == OtherGit # "any" /\ IInv /\ GitInv /\ [Next]_vars => GitInv'
<1>. SUFFICES ASSUME OtherGit # "any", IInv, GitInv, [Next]_vars PROVE GitInv'
  OBVIOUS
<1>1. CASE UNCHANGED vars
  <2>1. Tracked' = Tracked /\ Staged' = Staged /\ From' = From /\ To' = To /\ Asked' = Asked /\ Moves' = Moves
    BY <1>1 DEF vars, Tracked, Staged, From, To, Asked, Moves
  <2>. QED  BY <1>1, <2>1 DEF GitInv, vars, MoveIsAlone, RestoredIsHead, DeletedIsUnstaged, OnlyUntracked
<1>. QED  BY <1>1, StartKeepsGit, LooksKeepGit, VerificationsKeepGit, ExaminesKeepGit, MoveWithGitKeepsGit,
             RestoreKeepsGit, PlansKeepGit, RemovalsKeepGit, OthersKeepGit DEF Next

-----------------------------------------------------------------------------
(* The results. *)

(***************************************************************************)
(* A call is one of the five kinds with well-formed paths, and it has an   *)
(* answer exactly when it is done.                                         *)
(***************************************************************************)
THEOREM Typing == Spec => []TypeOK
<1>1. IInv => TypeOK
  BY DEF IInv
<1>. QED  BY <1>1, Invariance, PTL

(***************************************************************************)
(* delete_guarded, move_tracked and delete_untracked_exact report as done  *)
(* what they did themselves, whatever editors and a user's own Git did     *)
(* between their looks; a refused deletion took nothing.                   *)
(***************************************************************************)
THEOREM Honesty == Spec => []HonestReplies
<1>1. IInv => HonestReplies
  BY Constants DEF IInv, TypeOK, CallType, OwnChanges, HonestReplies, Answered, At, Replies
<1>. QED  BY <1>1, Invariance, PTL

(***************************************************************************)
(* delete_guarded takes the content whose digest it compared, unless       *)
(* somebody writes between the second digest and the unlink by path.       *)
(***************************************************************************)
THEOREM TakesTheHashed == Spec => []TakesWhatItHashed
<1>1. IInv => TakesWhatItHashed
  BY DEF IInv, Hashed, TakesWhatItHashed
<1>. QED  BY <1>1, Invariance, PTL

(***************************************************************************)
(* As long as nobody else runs Git during a call, what the tools report as *)
(* done can be reviewed and taken back: the deletion is unstaged, the move *)
(* is the only staged change, the restored entries are HEAD's.             *)
(***************************************************************************)
THEOREM Reviewable ==
  ASSUME OtherGit # "any"
  PROVE  Spec => []ReviewableResults
<1>1. Init => GitInv
  BY InitGitInv
<1>2. IInv /\ GitInv /\ [Next]_vars => GitInv'
  BY NextKeepsGit
<1>3. GitInv => ReviewableResults
  BY DEF GitInv, MoveIsAlone, RestoredIsHead, DeletedIsUnstaged, ReviewableResults, Answered, At, Moves
<1>. QED  BY <1>1, <1>2, <1>3, Invariance, PTL DEF Spec

(***************************************************************************)
(* As long as nobody else runs Git during a call, no tool takes away a     *)
(* file that it may not: the cleanup tools never a tracked one, and        *)
(* delete_guarded only what it hashed.                                     *)
(***************************************************************************)
THEOREM TakesOnly ==
  ASSUME OtherGit # "any"
  PROVE  Spec => []TakesOnlyWhatItMay
<1>1. Init => GitInv
  BY InitGitInv
<1>2. IInv /\ GitInv /\ [Next]_vars => GitInv'
  BY NextKeepsGit
<1>3. IInv /\ GitInv => TakesOnlyWhatItMay
  BY DEF IInv, Hashed, GitInv, OnlyUntracked, TakesOnlyWhatItMay, KeepsTrackedFiles, TakesWhatItHashed
<1>. QED  BY <1>1, <1>2, <1>3, Invariance, PTL DEF Spec
=============================================================================
