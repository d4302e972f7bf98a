------------------------ MODULE GuardedFileProofs ------------------------
(***************************************************************************)
(* GuardedFile keeps its inductive invariant and implements AtomicFile,    *)
(* for every set of callers, paths, inodes, contents and requests.         *)
(***************************************************************************)
EXTENDS GuardedFile, TLAPS

(* A request is well formed, and its edit maps contents to contents. *)
LEMMA RequestFields ==
  ASSUME NEW r \in Requests
  PROVE  /\ r.op \in Ops /\ r.path \in Paths /\ r.from \in Modes /\ r.to \in Modes /\ r.data \in Contents
         /\ \A c \in DOMAIN r.edit : c \in Contents /\ r.edit[c] \in Contents
<1>1. r \in RequestType
  BY RequestsType
<1>2. r.edit \in Edits
  BY <1>1 DEF RequestType
<1>3. PICK D \in SUBSET Contents : r.edit \in [D -> Contents]
  BY <1>2 DEF Edits
<1>. QED
  BY <1>1, <1>3 DEF RequestType

(* While it is staged, a temporary file exists and its planned bytes are a content. *)
LEMMA TempAndPlan ==
  ASSUME IInv, NEW p \in Callers
  PROVE  /\ Private(p) \/ pc[p] = "unlink" => temp[p] \in Inodes
         /\ Private(p) /\ pc[p] # "discard" => Planned(p) \in Contents
<1>1. Private(p) \/ pc[p] = "unlink" => temp[p] \in Inodes
  BY DEF IInv, TempIsPrivate
<1>2. ASSUME Private(p), pc[p] # "discard" PROVE Planned(p) \in Contents
  <2>1. req[p] \in Requests
    BY <1>2 DEF IInv, StepOfRequest, Private
  <2>2. CASE Op(p) = "create"
    BY <2>1, <2>2, RequestFields DEF Planned
  <2>3. CASE Op(p) # "create"
    <3>1. orig[p] \in DOMAIN req[p].edit
      BY <1>2, <2>3 DEF IInv, VerifiedBytes, Private, StepOfRequest
    <3>. QED
      BY <2>1, <2>3, <3>1, RequestFields DEF Planned
  <2>. QED
    BY <2>2, <2>3
<1>. QED
  BY <1>1, <1>2

(* From staging to the commit, a caller owns the lock of the inode it opened. *)
LEMMA HoldsItsInode ==
  ASSUME IInv, NEW p \in Callers,
         pc[p] \in {"mode", "current", "rename", "checked", "fchmod", "verify"}
  PROVE  fd[p] \in Inodes /\ lock[fd[p]] = p
  BY DEF IInv, LockOnOpenedInode, Holding, StepOfRequest, FirstPass, SecondPass, Op

-----------------------------------------------------------------------------
(* One lemma per conjunct of the inductive invariant; one step per action. *)

(* Types are preserved. *)
LEMMA TypeOKStep == IInv /\ [Next]_vars => TypeOK'
<1> SUFFICES ASSUME IInv, [Next]_vars PROVE TypeOK'
  OBVIOUS
<1> USE DEF TypeOK, PCs, fsvars, vars
<1>1. ASSUME NEW p \in Callers, Refuse(p) PROVE TypeOK'
  BY <1>1 DEF IInv, Refuse, Reply, Goto, Unlocked
<1>2. ASSUME NEW p \in Callers, Start(p) PROVE TypeOK'
  BY <1>2 DEF IInv, Start, Goto
<1>3. ASSUME NEW p \in Callers, Open(p) PROVE TypeOK'
  BY <1>1, <1>3, RequestFields DEF IInv, StepOfRequest, Open, Goto, Target
<1>4. ASSUME NEW p \in Callers, Lock(p) PROVE TypeOK'
  BY <1>1, <1>4 DEF IInv, Lock, Goto
<1>5. ASSUME NEW p \in Callers, ReadFirstPass(p) PROVE TypeOK'
  BY <1>1, <1>5, RequestFields DEF IInv, StepOfRequest, ReadFirstPass, Goto, Unlocked, Readable
<1>6. ASSUME NEW p \in Callers, ReadTarget(p) PROVE TypeOK'
  BY <1>1, <1>6, RequestFields DEF IInv, StepOfRequest, ReadTarget, Goto, Readable
<1>7. ASSUME NEW p \in Callers, Stage(p) PROVE TypeOK'
  BY <1>1, <1>7, NewModeIsMode DEF IInv, Stage, Goto
<1>8. ASSUME NEW p \in Callers, Write(p) PROVE TypeOK'
  BY <1>1, <1>8, TempAndPlan DEF IInv, Private, Write, Fault, Goto
<1>9. ASSUME NEW p \in Callers, Sync(p) PROVE TypeOK'
  BY <1>1, <1>9, TempAndPlan DEF IInv, Private, Sync, Fault, Goto
<1>10. ASSUME NEW p \in Callers, CopyMode(p) PROVE TypeOK'
  BY <1>10, TempAndPlan, HoldsItsInode DEF IInv, Private, CopyMode, Fault, Goto
<1>11. ASSUME NEW p \in Callers, Revalidate(p) PROVE TypeOK'
  BY <1>11 DEF IInv, Revalidate, Goto
<1>12. ASSUME NEW p \in Callers, Rename(p) PROVE TypeOK'
  BY <1>12 DEF IInv, StepOfRequest, Rename, Fault, Goto, Target
<1>13. ASSUME NEW p \in Callers, Discard(p) PROVE TypeOK'
  BY <1>1, <1>13, TempAndPlan DEF IInv, Private, Discard, RemoveTemp, Reply, Unlocked, Goto
<1>14. ASSUME NEW p \in Callers, Inspect(p) PROVE TypeOK'
  BY <1>1, <1>14, RequestFields DEF IInv, StepOfRequest, Inspect, Goto, Readable
<1>15. ASSUME NEW p \in Callers, RevalidateMode(p) PROVE TypeOK'
  BY <1>1, <1>15 DEF IInv, RevalidateMode, Goto
<1>16. ASSUME NEW p \in Callers, Fchmod(p) PROVE TypeOK'
  BY <1>1, <1>16, RequestFields DEF IInv, StepOfRequest, Fchmod, Goto
<1>17. ASSUME NEW p \in Callers, VerifyMode(p) PROVE TypeOK'
  BY <1>1, <1>17 DEF IInv, VerifyMode, Goto
<1>18. ASSUME NEW p \in Callers, Probe(p) PROVE TypeOK'
  BY <1>1, <1>18 DEF IInv, Probe, Goto
<1>19. ASSUME NEW p \in Callers, Link(p) PROVE TypeOK'
  BY <1>19 DEF IInv, StepOfRequest, Link, Fault, Goto, Target
<1>20. ASSUME NEW p \in Callers, Unlink(p) PROVE TypeOK'
  BY <1>1, <1>20, TempAndPlan DEF IInv, Private, Unlink, RemoveTemp, Reply, Unlocked, Goto
<1>21. ASSUME NEW p \in Callers, Release(p) PROVE TypeOK'
  BY <1>21 DEF IInv, Release, Reply, Unlocked, Goto
<1>22. ASSUME NEW p \in Callers, Return(p) PROVE TypeOK'
  BY <1>22 DEF IInv, Return, Goto
<1>30. ASSUME NEW S \in SUBSET Callers, Gone(S), durable' \subseteq Inodes,
              content' \in [Inodes -> Contents \cup {Torn}]
       PROVE  TypeOK'
  BY <1>30 DEF IInv, Gone
<1>31. ASSUME NEW S \in SUBSET Callers, Kill(S) PROVE TypeOK'
  BY <1>30, <1>31 DEF IInv, Kill
<1>32. CASE PowerLoss
  BY <1>30, <1>32 DEF IInv, PowerLoss
<1>33. CASE UNCHANGED vars
  BY <1>33 DEF IInv
<1> QED
  BY <1>2, <1>3, <1>4, <1>5, <1>6, <1>7, <1>8, <1>9, <1>10, <1>11, <1>12, <1>13, <1>14, <1>15, <1>16, <1>17, <1>18, <1>19, <1>20, <1>21, <1>22, <1>31, <1>32, <1>33 DEF Next, Step

(* A try-lock is granted only on a free lock file, and only its owner frees it. *)
LEMMA LockOnOpenedInodeStep == IInv /\ [Next]_vars => LockOnOpenedInode'
<1> SUFFICES ASSUME IInv, [Next]_vars PROVE LockOnOpenedInode'
  OBVIOUS
<1> USE DEF IInv, TypeOK, LockOnOpenedInode, fsvars, vars, StepOfRequest, Holding, SecondPass, FirstPass, Op
<1>1. ASSUME NEW p \in Callers, Refuse(p) PROVE LockOnOpenedInode'
  BY <1>1 DEF Refuse, Reply, Goto, Unlocked
<1>2. ASSUME NEW p \in Callers, Start(p) PROVE LockOnOpenedInode'
  BY <1>2 DEF Start, Goto
<1>3. ASSUME NEW p \in Callers, Open(p) PROVE LockOnOpenedInode'
  BY <1>1, <1>3 DEF Open, Goto
<1>4. ASSUME NEW p \in Callers, Lock(p) PROVE LockOnOpenedInode'
  BY <1>1, <1>4, NoneIsNoValue DEF Lock, Goto
<1>5. ASSUME NEW p \in Callers, ReadFirstPass(p) PROVE LockOnOpenedInode'
  BY <1>1, <1>5 DEF ReadFirstPass, Goto, Unlocked
<1>6. ASSUME NEW p \in Callers, ReadTarget(p) PROVE LockOnOpenedInode'
  BY <1>1, <1>6 DEF ReadTarget, Goto
<1>7. ASSUME NEW p \in Callers, Stage(p) PROVE LockOnOpenedInode'
  BY <1>1, <1>7 DEF Stage, Goto
<1>8. ASSUME NEW p \in Callers, Write(p) PROVE LockOnOpenedInode'
  BY <1>8 DEF Write, Fault, Goto
<1>9. ASSUME NEW p \in Callers, Sync(p) PROVE LockOnOpenedInode'
  BY <1>9 DEF Sync, Fault, Goto
<1>10. ASSUME NEW p \in Callers, CopyMode(p) PROVE LockOnOpenedInode'
  BY <1>10 DEF CopyMode, Fault, Goto
<1>11. ASSUME NEW p \in Callers, Revalidate(p) PROVE LockOnOpenedInode'
  BY <1>11 DEF Revalidate, Goto
<1>12. ASSUME NEW p \in Callers, Rename(p) PROVE LockOnOpenedInode'
  BY <1>12 DEF Rename, Fault, Goto
<1>13. ASSUME NEW p \in Callers, Discard(p) PROVE LockOnOpenedInode'
  BY <1>13 DEF Discard, RemoveTemp, Reply, Unlocked, Goto
<1>14. ASSUME NEW p \in Callers, Inspect(p) PROVE LockOnOpenedInode'
  BY <1>1, <1>14 DEF Inspect, Goto
<1>15. ASSUME NEW p \in Callers, RevalidateMode(p) PROVE LockOnOpenedInode'
  BY <1>1, <1>15 DEF RevalidateMode, Goto
<1>16. ASSUME NEW p \in Callers, Fchmod(p) PROVE LockOnOpenedInode'
  BY <1>1, <1>16 DEF Fchmod, Goto
<1>17. ASSUME NEW p \in Callers, VerifyMode(p) PROVE LockOnOpenedInode'
  BY <1>1, <1>17 DEF VerifyMode, Goto
<1>18. ASSUME NEW p \in Callers, Probe(p) PROVE LockOnOpenedInode'
  BY <1>1, <1>18 DEF Probe, Goto
<1>19. ASSUME NEW p \in Callers, Link(p) PROVE LockOnOpenedInode'
  BY <1>19 DEF Link, Fault, Goto
<1>20. ASSUME NEW p \in Callers, Unlink(p) PROVE LockOnOpenedInode'
  BY <1>20 DEF Unlink, RemoveTemp, Reply, Unlocked, Goto
<1>21. ASSUME NEW p \in Callers, Release(p) PROVE LockOnOpenedInode'
  BY <1>21 DEF Release, Reply, Unlocked, Goto
<1>22. ASSUME NEW p \in Callers, Return(p) PROVE LockOnOpenedInode'
  BY <1>22 DEF Return, Goto
<1>23. ASSUME NEW S \in SUBSET Callers, Kill(S) PROVE LockOnOpenedInode'
  BY <1>23 DEF Kill, Gone
<1>24. CASE PowerLoss
  BY <1>24 DEF PowerLoss, Gone
<1>25. CASE UNCHANGED vars
  BY <1>25
<1> QED
  BY <1>2, <1>3, <1>4, <1>5, <1>6, <1>7, <1>8, <1>9, <1>10, <1>11, <1>12, <1>13, <1>14, <1>15, <1>16, <1>17, <1>18, <1>19, <1>20, <1>21, <1>22, <1>23, <1>24, <1>25 DEF Next, Step

(* Which step serves which request follows from where each step leads. *)
LEMMA StepOfRequestStep == IInv /\ [Next]_vars => StepOfRequest'
<1> SUFFICES ASSUME IInv, [Next]_vars PROVE StepOfRequest'
  OBVIOUS
<1> USE DEF IInv, TypeOK, StepOfRequest, fsvars, vars, FirstPass, SecondPass, Op, PCs
<1>1. ASSUME NEW p \in Callers, Refuse(p), pc[p] \in {"open", "lock", "read", "stage", "checked", "fchmod", "verify", "probe"} PROVE StepOfRequest'
  BY <1>1 DEF Refuse, Reply, Goto, Unlocked
<1>2. ASSUME NEW p \in Callers, Start(p) PROVE StepOfRequest'
  BY <1>2 DEF Start, Goto
<1>3. ASSUME NEW p \in Callers, Open(p) PROVE StepOfRequest'
  BY <1>1, <1>3, RequestFields DEF Open, Goto, Target
<1>4. ASSUME NEW p \in Callers, Lock(p) PROVE StepOfRequest'
  BY <1>1, <1>4 DEF Lock, Goto
<1>5. ASSUME NEW p \in Callers, ReadFirstPass(p) PROVE StepOfRequest'
  BY <1>1, <1>5 DEF ReadFirstPass, Goto, Unlocked
<1>6. ASSUME NEW p \in Callers, ReadTarget(p) PROVE StepOfRequest'
  BY <1>1, <1>6 DEF ReadTarget, Goto
<1>7. ASSUME NEW p \in Callers, Stage(p) PROVE StepOfRequest'
  BY <1>1, <1>7 DEF Stage, Goto
<1>8. ASSUME NEW p \in Callers, Write(p) PROVE StepOfRequest'
  BY <1>8 DEF Write, Fault, Goto
<1>9. ASSUME NEW p \in Callers, Sync(p) PROVE StepOfRequest'
  BY <1>9, RequestFields DEF Sync, Fault, Goto, Ops
<1>10. ASSUME NEW p \in Callers, CopyMode(p) PROVE StepOfRequest'
  BY <1>10 DEF CopyMode, Fault, Goto
<1>11. ASSUME NEW p \in Callers, Revalidate(p) PROVE StepOfRequest'
  BY <1>11 DEF Revalidate, Goto
<1>12. ASSUME NEW p \in Callers, Rename(p) PROVE StepOfRequest'
  BY <1>12 DEF Rename, Fault, Goto
<1>13. ASSUME NEW p \in Callers, Discard(p) PROVE StepOfRequest'
  BY <1>13 DEF Discard, RemoveTemp, Reply, Unlocked, Goto
<1>14. ASSUME NEW p \in Callers, Inspect(p) PROVE StepOfRequest'
  BY <1>1, <1>14 DEF Inspect, Goto
<1>15. ASSUME NEW p \in Callers, RevalidateMode(p) PROVE StepOfRequest'
  BY <1>1, <1>15 DEF RevalidateMode, Goto
<1>16. ASSUME NEW p \in Callers, Fchmod(p) PROVE StepOfRequest'
  BY <1>1, <1>16 DEF Fchmod, Goto
<1>17. ASSUME NEW p \in Callers, VerifyMode(p) PROVE StepOfRequest'
  BY <1>1, <1>17 DEF VerifyMode, Goto
<1>18. ASSUME NEW p \in Callers, Probe(p) PROVE StepOfRequest'
  BY <1>1, <1>18 DEF Probe, Goto
<1>19. ASSUME NEW p \in Callers, Link(p) PROVE StepOfRequest'
  BY <1>19 DEF Link, Fault, Goto
<1>20. ASSUME NEW p \in Callers, Unlink(p) PROVE StepOfRequest'
  BY <1>20 DEF Unlink, RemoveTemp, Reply, Unlocked, Goto
<1>21. ASSUME NEW p \in Callers, Release(p) PROVE StepOfRequest'
  BY <1>21 DEF Release, Reply, Unlocked, Goto
<1>22. ASSUME NEW p \in Callers, Return(p) PROVE StepOfRequest'
  BY <1>22 DEF Return, Goto
<1>23. ASSUME NEW S \in SUBSET Callers, Kill(S) PROVE StepOfRequest'
  BY <1>23 DEF Kill, Gone
<1>24. CASE PowerLoss
  BY <1>24 DEF PowerLoss, Gone
<1>25. CASE UNCHANGED vars
  BY <1>25
<1> QED
  BY <1>2, <1>3, <1>4, <1>5, <1>6, <1>7, <1>8, <1>9, <1>10, <1>11, <1>12, <1>13, <1>14, <1>15, <1>16, <1>17, <1>18, <1>19, <1>20, <1>21, <1>22, <1>23, <1>24, <1>25 DEF Next, Step

(* A staged inode is free, hence unknown to everyone else, and stays so until it is published. *)
LEMMA TempIsPrivateStep == IInv /\ [Next]_vars => TempIsPrivate'
<1> SUFFICES ASSUME IInv, [Next]_vars PROVE TempIsPrivate'
  OBVIOUS
<1> USE DEF IInv, TypeOK, TempIsPrivate, fsvars, vars, Private
<1>1. ASSUME NEW p \in Callers, Refuse(p), pc[p] \in {"open", "lock", "read", "stage", "checked", "fchmod", "verify", "probe"} PROVE TempIsPrivate'
  BY <1>1, NoneIsNoValue DEF Refuse, Reply, Goto, Unlocked
<1>2. ASSUME NEW p \in Callers, Start(p) PROVE TempIsPrivate'
  BY <1>2 DEF Start, Goto
<1>3. ASSUME NEW p \in Callers, Open(p) PROVE TempIsPrivate'
  BY <1>1, <1>3, RequestFields, NoneIsNoValue DEF Open, Goto, Target, StepOfRequest
<1>4. ASSUME NEW p \in Callers, Lock(p) PROVE TempIsPrivate'
  BY <1>1, <1>4 DEF Lock, Goto
<1>5. ASSUME NEW p \in Callers, ReadFirstPass(p) PROVE TempIsPrivate'
  BY <1>1, <1>5 DEF ReadFirstPass, Goto, Unlocked
<1>6. ASSUME NEW p \in Callers, ReadTarget(p) PROVE TempIsPrivate'
  BY <1>1, <1>6 DEF ReadTarget, Goto
<1>7. ASSUME NEW p \in Callers, Stage(p) PROVE TempIsPrivate'
  BY <1>1, <1>7, NoneIsNoValue DEF Stage, Goto, Free, Links
<1>8. ASSUME NEW p \in Callers, Write(p) PROVE TempIsPrivate'
  BY <1>8 DEF Write, Fault, Goto
<1>9. ASSUME NEW p \in Callers, Sync(p) PROVE TempIsPrivate'
  BY <1>9 DEF Sync, Fault, Goto
<1>10. ASSUME NEW p \in Callers, CopyMode(p) PROVE TempIsPrivate'
  BY <1>10 DEF CopyMode, Fault, Goto
<1>11. ASSUME NEW p \in Callers, Revalidate(p) PROVE TempIsPrivate'
  BY <1>11 DEF Revalidate, Goto
<1>12. ASSUME NEW p \in Callers, Rename(p) PROVE TempIsPrivate'
  BY <1>12, RequestFields, NoneIsNoValue DEF Rename, Fault, Goto, Target, StepOfRequest
<1>13. ASSUME NEW p \in Callers, Discard(p) PROVE TempIsPrivate'
  BY <1>13, NoneIsNoValue DEF Discard, RemoveTemp, Reply, Unlocked, Goto
<1>14. ASSUME NEW p \in Callers, Inspect(p) PROVE TempIsPrivate'
  BY <1>1, <1>14 DEF Inspect, Goto
<1>15. ASSUME NEW p \in Callers, RevalidateMode(p) PROVE TempIsPrivate'
  BY <1>1, <1>15 DEF RevalidateMode, Goto
<1>16. ASSUME NEW p \in Callers, Fchmod(p) PROVE TempIsPrivate'
  BY <1>1, <1>16 DEF Fchmod, Goto
<1>17. ASSUME NEW p \in Callers, VerifyMode(p) PROVE TempIsPrivate'
  BY <1>1, <1>17 DEF VerifyMode, Goto
<1>18. ASSUME NEW p \in Callers, Probe(p) PROVE TempIsPrivate'
  BY <1>1, <1>18 DEF Probe, Goto
<1>19. ASSUME NEW p \in Callers, Link(p) PROVE TempIsPrivate'
  BY <1>19, RequestFields, NoneIsNoValue DEF Link, Fault, Goto, Target, StepOfRequest
<1>20. ASSUME NEW p \in Callers, Unlink(p) PROVE TempIsPrivate'
  BY <1>20, NoneIsNoValue DEF Unlink, RemoveTemp, Reply, Unlocked, Goto
<1>21. ASSUME NEW p \in Callers, Release(p) PROVE TempIsPrivate'
  BY <1>21 DEF Release, Reply, Unlocked, Goto
<1>22. ASSUME NEW p \in Callers, Return(p) PROVE TempIsPrivate'
  BY <1>22 DEF Return, Goto
<1>23. ASSUME NEW S \in SUBSET Callers, Kill(S) PROVE TempIsPrivate'
  BY <1>23, NoneIsNoValue DEF Kill, Gone
<1>24. CASE PowerLoss
  BY <1>24, NoneIsNoValue DEF PowerLoss, Gone
<1>25. CASE UNCHANGED vars
  BY <1>25
<1> QED
  BY <1>2, <1>3, <1>4, <1>5, <1>6, <1>7, <1>8, <1>9, <1>10, <1>11, <1>12, <1>13, <1>14, <1>15, <1>16, <1>17, <1>18, <1>19, <1>20, <1>21, <1>22, <1>23, <1>24, <1>25 DEF Next, Step

(* Only the owner of a temporary file writes to an inode, and no one has it open. *)
LEMMA VerifiedBytesStep == IInv /\ [Next]_vars => VerifiedBytes'
<1> SUFFICES ASSUME IInv, [Next]_vars PROVE VerifiedBytes'
  OBVIOUS
<1> USE DEF IInv, TypeOK, VerifiedBytes, fsvars, vars, Op
<1>1. ASSUME NEW p \in Callers, Refuse(p) PROVE VerifiedBytes'
  BY <1>1 DEF Refuse, Reply, Goto, Unlocked
<1>2. ASSUME NEW p \in Callers, Start(p) PROVE VerifiedBytes'
  BY <1>2 DEF Start, Goto
<1>3. ASSUME NEW p \in Callers, Open(p) PROVE VerifiedBytes'
  BY <1>1, <1>3 DEF Open, Goto
<1>4. ASSUME NEW p \in Callers, Lock(p) PROVE VerifiedBytes'
  BY <1>1, <1>4 DEF Lock, Goto
<1>5. ASSUME NEW p \in Callers, ReadFirstPass(p) PROVE VerifiedBytes'
  BY <1>1, <1>5 DEF ReadFirstPass, Goto, Unlocked
<1>6. ASSUME NEW p \in Callers, ReadTarget(p) PROVE VerifiedBytes'
  BY <1>1, <1>6 DEF ReadTarget, Goto, Readable
<1>7. ASSUME NEW p \in Callers, Stage(p) PROVE VerifiedBytes'
  BY <1>1, <1>7 DEF Stage, Goto, Free, LockOnOpenedInode, Holding, StepOfRequest, FirstPass
<1>8. ASSUME NEW p \in Callers, Write(p) PROVE VerifiedBytes'
  BY <1>8, TempAndPlan DEF Write, Fault, Goto, TempIsPrivate, Private, LockOnOpenedInode, Holding, StepOfRequest, FirstPass
<1>9. ASSUME NEW p \in Callers, Sync(p) PROVE VerifiedBytes'
  BY <1>9 DEF Sync, Fault, Goto
<1>10. ASSUME NEW p \in Callers, CopyMode(p) PROVE VerifiedBytes'
  BY <1>10 DEF CopyMode, Fault, Goto
<1>11. ASSUME NEW p \in Callers, Revalidate(p) PROVE VerifiedBytes'
  BY <1>11 DEF Revalidate, Goto
<1>12. ASSUME NEW p \in Callers, Rename(p) PROVE VerifiedBytes'
  BY <1>12 DEF Rename, Fault, Goto
<1>13. ASSUME NEW p \in Callers, Discard(p) PROVE VerifiedBytes'
  BY <1>13 DEF Discard, RemoveTemp, Reply, Unlocked, Goto
<1>14. ASSUME NEW p \in Callers, Inspect(p) PROVE VerifiedBytes'
  BY <1>1, <1>14 DEF Inspect, Goto, Readable
<1>15. ASSUME NEW p \in Callers, RevalidateMode(p) PROVE VerifiedBytes'
  BY <1>1, <1>15 DEF RevalidateMode, Goto
<1>16. ASSUME NEW p \in Callers, Fchmod(p) PROVE VerifiedBytes'
  BY <1>1, <1>16 DEF Fchmod, Goto
<1>17. ASSUME NEW p \in Callers, VerifyMode(p) PROVE VerifiedBytes'
  BY <1>1, <1>17 DEF VerifyMode, Goto
<1>18. ASSUME NEW p \in Callers, Probe(p) PROVE VerifiedBytes'
  BY <1>1, <1>18 DEF Probe, Goto, StepOfRequest
<1>19. ASSUME NEW p \in Callers, Link(p) PROVE VerifiedBytes'
  BY <1>19 DEF Link, Fault, Goto
<1>20. ASSUME NEW p \in Callers, Unlink(p) PROVE VerifiedBytes'
  BY <1>20 DEF Unlink, RemoveTemp, Reply, Unlocked, Goto
<1>21. ASSUME NEW p \in Callers, Release(p) PROVE VerifiedBytes'
  BY <1>21 DEF Release, Reply, Unlocked, Goto
<1>22. ASSUME NEW p \in Callers, Return(p) PROVE VerifiedBytes'
  BY <1>22 DEF Return, Goto
<1>23. ASSUME NEW S \in SUBSET Callers, Kill(S) PROVE VerifiedBytes'
  BY <1>23 DEF Kill, Gone
<1>24. CASE PowerLoss
  BY <1>24 DEF PowerLoss, Gone
<1>25. CASE UNCHANGED vars
  BY <1>25
<1> QED
  BY <1>2, <1>3, <1>4, <1>5, <1>6, <1>7, <1>8, <1>9, <1>10, <1>11, <1>12, <1>13, <1>14, <1>15, <1>16, <1>17, <1>18, <1>19, <1>20, <1>21, <1>22, <1>23, <1>24, <1>25 DEF Next, Step

(* Nobody but its owner touches a temporary file; the target's mode changes under the lock alone. *)
LEMMA TempIsPlannedStep == IInv /\ [Next]_vars => TempIsPlanned'
<1> SUFFICES ASSUME IInv, [Next]_vars PROVE TempIsPlanned'
  OBVIOUS
<1> USE DEF IInv, TypeOK, TempIsPlanned, fsvars, vars, Planned, Op, Private, TempIsPrivate
<1>1. ASSUME NEW p \in Callers, Refuse(p), pc[p] \in {"open", "lock", "read", "stage", "checked", "fchmod", "verify", "probe"} PROVE TempIsPlanned'
  BY <1>1 DEF Refuse, Reply, Goto, Unlocked
<1>2. ASSUME NEW p \in Callers, Start(p) PROVE TempIsPlanned'
  BY <1>2 DEF Start, Goto
<1>3. ASSUME NEW p \in Callers, Open(p) PROVE TempIsPlanned'
  BY <1>1, <1>3 DEF Open, Goto
<1>4. ASSUME NEW p \in Callers, Lock(p) PROVE TempIsPlanned'
  BY <1>1, <1>4 DEF Lock, Goto
<1>5. ASSUME NEW p \in Callers, ReadFirstPass(p) PROVE TempIsPlanned'
  BY <1>1, <1>5 DEF ReadFirstPass, Goto, Unlocked
<1>6. ASSUME NEW p \in Callers, ReadTarget(p) PROVE TempIsPlanned'
  BY <1>1, <1>6 DEF ReadTarget, Goto
<1>7. ASSUME NEW p \in Callers, Stage(p) PROVE TempIsPlanned'
  BY <1>1, <1>7, TempAndPlan, HoldsItsInode DEF Stage, Goto, Free
<1>8. ASSUME NEW p \in Callers, Write(p) PROVE TempIsPlanned'
  BY <1>8, TempAndPlan DEF Write, Fault, Goto
<1>9. ASSUME NEW p \in Callers, Sync(p) PROVE TempIsPlanned'
  BY <1>9, TempAndPlan DEF Sync, Fault, Goto
<1>10. ASSUME NEW p \in Callers, CopyMode(p) PROVE TempIsPlanned'
  BY <1>10, TempAndPlan, HoldsItsInode DEF CopyMode, Fault, Goto
<1>11. ASSUME NEW p \in Callers, Revalidate(p) PROVE TempIsPlanned'
  BY <1>11 DEF Revalidate, Goto
<1>12. ASSUME NEW p \in Callers, Rename(p) PROVE TempIsPlanned'
  BY <1>12 DEF Rename, Fault, Goto
<1>13. ASSUME NEW p \in Callers, Discard(p) PROVE TempIsPlanned'
  BY <1>13 DEF Discard, RemoveTemp, Reply, Unlocked, Goto
<1>14. ASSUME NEW p \in Callers, Inspect(p) PROVE TempIsPlanned'
  BY <1>1, <1>14 DEF Inspect, Goto
<1>15. ASSUME NEW p \in Callers, RevalidateMode(p) PROVE TempIsPlanned'
  BY <1>1, <1>15 DEF RevalidateMode, Goto
<1>16. ASSUME NEW p \in Callers, Fchmod(p) PROVE TempIsPlanned'
  BY <1>1, <1>16, TempAndPlan, HoldsItsInode DEF Fchmod, Goto
<1>17. ASSUME NEW p \in Callers, VerifyMode(p) PROVE TempIsPlanned'
  BY <1>1, <1>17 DEF VerifyMode, Goto
<1>18. ASSUME NEW p \in Callers, Probe(p) PROVE TempIsPlanned'
  BY <1>1, <1>18 DEF Probe, Goto
<1>19. ASSUME NEW p \in Callers, Link(p) PROVE TempIsPlanned'
  BY <1>19 DEF Link, Fault, Goto
<1>20. ASSUME NEW p \in Callers, Unlink(p) PROVE TempIsPlanned'
  BY <1>20 DEF Unlink, RemoveTemp, Reply, Unlocked, Goto
<1>21. ASSUME NEW p \in Callers, Release(p) PROVE TempIsPlanned'
  BY <1>21 DEF Release, Reply, Unlocked, Goto
<1>22. ASSUME NEW p \in Callers, Return(p) PROVE TempIsPlanned'
  BY <1>22 DEF Return, Goto
<1>23. ASSUME NEW S \in SUBSET Callers, Kill(S) PROVE TempIsPlanned'
  BY <1>23 DEF Kill, Gone
<1>24. CASE PowerLoss
  BY <1>24 DEF PowerLoss, Gone
<1>25. CASE UNCHANGED vars
  BY <1>25
<1> QED
  BY <1>2, <1>3, <1>4, <1>5, <1>6, <1>7, <1>8, <1>9, <1>10, <1>11, <1>12, <1>13, <1>14, <1>15, <1>16, <1>17, <1>18, <1>19, <1>20, <1>21, <1>22, <1>23, <1>24, <1>25 DEF Next, Step

(* Two callers in the commit window of one path would hold the lock of one inode. *)
LEMMA CommitWindowStep == IInv /\ [Next]_vars => CommitWindow'
<1> SUFFICES ASSUME IInv, [Next]_vars PROVE CommitWindow'
  OBVIOUS
<1> USE DEF IInv, TypeOK, CommitWindow, fsvars, vars, StillCurrent, Target
<1>1. ASSUME NEW p \in Callers, Refuse(p) PROVE CommitWindow'
  BY <1>1 DEF Refuse, Reply, Goto, Unlocked
<1>2. ASSUME NEW p \in Callers, Start(p) PROVE CommitWindow'
  BY <1>2 DEF Start, Goto
<1>3. ASSUME NEW p \in Callers, Open(p) PROVE CommitWindow'
  BY <1>1, <1>3 DEF Open, Goto
<1>4. ASSUME NEW p \in Callers, Lock(p) PROVE CommitWindow'
  BY <1>1, <1>4 DEF Lock, Goto
<1>5. ASSUME NEW p \in Callers, ReadFirstPass(p) PROVE CommitWindow'
  BY <1>1, <1>5 DEF ReadFirstPass, Goto, Unlocked
<1>6. ASSUME NEW p \in Callers, ReadTarget(p) PROVE CommitWindow'
  BY <1>1, <1>6 DEF ReadTarget, Goto
<1>7. ASSUME NEW p \in Callers, Stage(p) PROVE CommitWindow'
  BY <1>1, <1>7, HoldsItsInode DEF Stage, Goto, Free
<1>8. ASSUME NEW p \in Callers, Write(p) PROVE CommitWindow'
  BY <1>8 DEF Write, Fault, Goto
<1>9. ASSUME NEW p \in Callers, Sync(p) PROVE CommitWindow'
  BY <1>9 DEF Sync, Fault, Goto
<1>10. ASSUME NEW p \in Callers, CopyMode(p) PROVE CommitWindow'
  BY <1>10, TempAndPlan, HoldsItsInode DEF CopyMode, Fault, Goto, Private, TempIsPrivate
<1>11. ASSUME NEW p \in Callers, Revalidate(p) PROVE CommitWindow'
  BY <1>11 DEF Revalidate, Goto
<1>12. ASSUME NEW p \in Callers, Rename(p) PROVE CommitWindow'
  BY <1>12, TempAndPlan, HoldsItsInode, RequestFields DEF Rename, Fault, Goto, Private, TempIsPrivate, StepOfRequest
<1>13. ASSUME NEW p \in Callers, Discard(p) PROVE CommitWindow'
  BY <1>13 DEF Discard, RemoveTemp, Reply, Unlocked, Goto
<1>14. ASSUME NEW p \in Callers, Inspect(p) PROVE CommitWindow'
  BY <1>1, <1>14 DEF Inspect, Goto
<1>15. ASSUME NEW p \in Callers, RevalidateMode(p) PROVE CommitWindow'
  <2>1. CASE Refuse(p)
    BY <1>1, <2>1
  <2>2. CASE /\ StillCurrent(p) /\ OnlyLink(p) /\ Goto(p, "fchmod")
             /\ UNCHANGED <<fsvars, req, fd>>
    <3>1. Target(p) \in Paths
      BY <1>15, RequestFields DEF RevalidateMode, StepOfRequest
    <3>2. dir[Target(p)] = fd[p]
      BY <2>2
    <3>3. ASSUME NEW q \in Paths, dir[q] = fd[p] PROVE q = Target(p)
      <4>1. <<"path", q>> \in Names(fd[p]) /\ <<"path", Target(p)>> \in Names(fd[p])
        BY <3>1, <3>2, <3>3, Zenon DEF Names, Links
      <4>2. <<"path", q>> = <<"path", Target(p)>>
        BY <2>2, <4>1 DEF OnlyLink
      <4> QED
        BY <4>2
    <3> QED
      BY <1>15, <2>2, <3>3 DEF RevalidateMode, Goto
  <2> QED
    BY <1>15, <2>1, <2>2 DEF RevalidateMode
<1>16. ASSUME NEW p \in Callers, Fchmod(p) PROVE CommitWindow'
  BY <1>1, <1>16, HoldsItsInode, RequestFields DEF Fchmod, Goto, StepOfRequest
<1>17. ASSUME NEW p \in Callers, VerifyMode(p) PROVE CommitWindow'
  BY <1>1, <1>17 DEF VerifyMode, Goto
<1>18. ASSUME NEW p \in Callers, Probe(p) PROVE CommitWindow'
  BY <1>1, <1>18 DEF Probe, Goto
<1>19. ASSUME NEW p \in Callers, Link(p) PROVE CommitWindow'
  BY <1>19, TempAndPlan, HoldsItsInode, RequestFields, NoneIsNoValue DEF Link, Fault, Goto, Private, TempIsPrivate, StepOfRequest
<1>20. ASSUME NEW p \in Callers, Unlink(p) PROVE CommitWindow'
  BY <1>20 DEF Unlink, RemoveTemp, Reply, Unlocked, Goto
<1>21. ASSUME NEW p \in Callers, Release(p) PROVE CommitWindow'
  BY <1>21 DEF Release, Reply, Unlocked, Goto
<1>22. ASSUME NEW p \in Callers, Return(p) PROVE CommitWindow'
  BY <1>22 DEF Return, Goto
<1>23. ASSUME NEW S \in SUBSET Callers, Kill(S) PROVE CommitWindow'
  BY <1>23 DEF Kill, Gone
<1>24. CASE PowerLoss
  BY <1>24 DEF PowerLoss, Gone
<1>25. CASE UNCHANGED vars
  BY <1>25
<1> QED
  BY <1>2, <1>3, <1>4, <1>5, <1>6, <1>7, <1>8, <1>9, <1>10, <1>11, <1>12, <1>13, <1>14, <1>15, <1>16, <1>17, <1>18, <1>19, <1>20, <1>21, <1>22, <1>23, <1>24, <1>25 DEF Next, Step

(* What rename or link publishes was written and fsynced before. *)
LEMMA NoTornFileStep == IInv /\ [Next]_vars => NoTornFile'
<1> SUFFICES ASSUME IInv, [Next]_vars PROVE NoTornFile'
  OBVIOUS
<1> USE DEF IInv, TypeOK, NoTornFile, fsvars, vars
<1>1. ASSUME NEW p \in Callers, Refuse(p) PROVE NoTornFile'
  BY <1>1 DEF Refuse, Reply, Goto, Unlocked
<1>2. ASSUME NEW p \in Callers, Start(p) PROVE NoTornFile'
  BY <1>2 DEF Start, Goto
<1>3. ASSUME NEW p \in Callers, Open(p) PROVE NoTornFile'
  BY <1>1, <1>3 DEF Open, Goto
<1>4. ASSUME NEW p \in Callers, Lock(p) PROVE NoTornFile'
  BY <1>1, <1>4 DEF Lock, Goto
<1>5. ASSUME NEW p \in Callers, ReadFirstPass(p) PROVE NoTornFile'
  BY <1>1, <1>5 DEF ReadFirstPass, Goto, Unlocked
<1>6. ASSUME NEW p \in Callers, ReadTarget(p) PROVE NoTornFile'
  BY <1>1, <1>6 DEF ReadTarget, Goto
<1>7. ASSUME NEW p \in Callers, Stage(p) PROVE NoTornFile'
  BY <1>1, <1>7 DEF Stage, Goto, Free, Links
<1>8. ASSUME NEW p \in Callers, Write(p) PROVE NoTornFile'
  BY <1>8, TempAndPlan DEF Write, Fault, Goto, TempIsPrivate, Private
<1>9. ASSUME NEW p \in Callers, Sync(p) PROVE NoTornFile'
  BY <1>9 DEF Sync, Fault, Goto
<1>10. ASSUME NEW p \in Callers, CopyMode(p) PROVE NoTornFile'
  BY <1>10 DEF CopyMode, Fault, Goto
<1>11. ASSUME NEW p \in Callers, Revalidate(p) PROVE NoTornFile'
  BY <1>11 DEF Revalidate, Goto
<1>12. ASSUME NEW p \in Callers, Rename(p) PROVE NoTornFile'
  BY <1>12, TempAndPlan, RequestFields DEF Rename, Fault, Goto, TempIsPlanned, Private, Target, StepOfRequest
<1>13. ASSUME NEW p \in Callers, Discard(p) PROVE NoTornFile'
  BY <1>13 DEF Discard, RemoveTemp, Reply, Unlocked, Goto
<1>14. ASSUME NEW p \in Callers, Inspect(p) PROVE NoTornFile'
  BY <1>1, <1>14 DEF Inspect, Goto
<1>15. ASSUME NEW p \in Callers, RevalidateMode(p) PROVE NoTornFile'
  BY <1>1, <1>15 DEF RevalidateMode, Goto
<1>16. ASSUME NEW p \in Callers, Fchmod(p) PROVE NoTornFile'
  BY <1>1, <1>16 DEF Fchmod, Goto
<1>17. ASSUME NEW p \in Callers, VerifyMode(p) PROVE NoTornFile'
  BY <1>1, <1>17 DEF VerifyMode, Goto
<1>18. ASSUME NEW p \in Callers, Probe(p) PROVE NoTornFile'
  BY <1>1, <1>18 DEF Probe, Goto
<1>19. ASSUME NEW p \in Callers, Link(p) PROVE NoTornFile'
  BY <1>19, TempAndPlan, RequestFields DEF Link, Fault, Goto, TempIsPlanned, Private, Target, StepOfRequest
<1>20. ASSUME NEW p \in Callers, Unlink(p) PROVE NoTornFile'
  BY <1>20 DEF Unlink, RemoveTemp, Reply, Unlocked, Goto
<1>21. ASSUME NEW p \in Callers, Release(p) PROVE NoTornFile'
  BY <1>21 DEF Release, Reply, Unlocked, Goto
<1>22. ASSUME NEW p \in Callers, Return(p) PROVE NoTornFile'
  BY <1>22 DEF Return, Goto
<1>23. ASSUME NEW S \in SUBSET Callers, Kill(S) PROVE NoTornFile'
  BY <1>23 DEF Kill, Gone
<1>24. CASE PowerLoss
  BY <1>24 DEF PowerLoss, Gone
<1>25. CASE UNCHANGED vars
  BY <1>25
<1> QED
  BY <1>2, <1>3, <1>4, <1>5, <1>6, <1>7, <1>8, <1>9, <1>10, <1>11, <1>12, <1>13, <1>14, <1>15, <1>16, <1>17, <1>18, <1>19, <1>20, <1>21, <1>22, <1>23, <1>24, <1>25 DEF Next, Step

-----------------------------------------------------------------------------
(* The invariant holds of every initial file system. *)
LEMMA InvInit == Init => IInv
<1> SUFFICES ASSUME Init PROVE IInv
  OBVIOUS
<1>1. TypeOK
  BY InitialFilesType DEF Init, TypeOK, FileSystem, PCs
<1>2. LockOnOpenedInode /\ StepOfRequest /\ TempIsPrivate /\ TempIsPlanned /\ VerifiedBytes /\ CommitWindow
  BY DEF Init, LockOnOpenedInode, Holding, StepOfRequest, TempIsPrivate, Private, TempIsPlanned,
         VerifiedBytes, CommitWindow
<1>3. NoTornFile
  BY InitialFilesType DEF Init, NoTornFile, FileSystem
<1> QED
  BY <1>1, <1>2, <1>3 DEF IInv

(***************************************************************************)
(* The inductive invariant holds for every number of callers, paths and    *)
(* inodes, with failing system calls, killed processes and power loss.     *)
(***************************************************************************)
THEOREM Invariant == Spec => []IInv
<1>1. IInv /\ [Next]_vars => IInv'
  BY TypeOKStep, LockOnOpenedInodeStep, StepOfRequestStep, TempIsPrivateStep, TempIsPlannedStep,
     VerifiedBytesStep, CommitWindowStep, NoTornFileStep DEF IInv
<1> QED
  BY InvInit, <1>1, PTL DEF Spec

(* Every variable of the model keeps its type. *)
THEOREM Typing == Spec => []TypeOK
<1>1. IInv => TypeOK
  BY DEF IInv
<1> QED
  BY Invariant, <1>1, PTL

(* No path ever names a file that is torn, or that a power loss would tear. *)
THEOREM NoTornFiles == Spec => []NoTornFile
<1>1. IInv => NoTornFile
  BY DEF IInv
<1> QED
  BY Invariant, <1>1, PTL

(***************************************************************************)
(* Between the last revalidation and renameat or fchmod, nothing that was  *)
(* checked is disturbed: there is no time-of-check to time-of-use window.  *)
(***************************************************************************)
THEOREM ChecksStillHold == Spec => []CheckStillHolds
<1>1. IInv => CheckStillHolds
  <2> SUFFICES ASSUME IInv, NEW p \in Callers, pc[p] \in {"rename", "fchmod"}
               PROVE  /\ StillCurrent(p)
                      /\ content[fd[p]] = orig[p]
                      /\ mode[fd[p]] = IF Op(p) = "chmod" THEN req[p].from ELSE mode[temp[p]]
    BY DEF CheckStillHolds
  <2>1. CASE pc[p] = "rename"
    BY <2>1 DEF IInv, CommitWindow, VerifiedBytes, TempIsPlanned, StepOfRequest
  <2>2. CASE pc[p] = "fchmod"
    BY <2>2 DEF IInv, CommitWindow, VerifiedBytes, StepOfRequest
  <2> QED
    BY <2>1, <2>2
<1> QED
  BY Invariant, <1>1, PTL

-----------------------------------------------------------------------------
(* The refinement: what a call has done so far is a commit, a confirmation, *)
(* a refusal or a return of AtomicFile, or a stutter.                       *)

Applied == {"unlink", "verify", "release"}
Pending == PCs \ (Applied \cup {"idle", "done"})

(* A step inside one phase of a call, which leaves every file as it was. *)
LEMMA StutterStep ==
  ASSUME IInv, NEW p \in Callers, NEW l \in PCs, Goto(p, l),
         \/ pc[p] \in Pending /\ l \in Pending
         \/ pc[p] \in Applied /\ l \in Applied,
         UNCHANGED <<req, result, FileView>>
  PROVE  UNCHANGED Atomic!vars
<1>1. \A c \in Callers : (pc'[c] = "idle") = (pc[c] = "idle") /\ Progress(c)' = Progress(c)
  BY DEF Goto, IInv, TypeOK, PCs, Applied, Pending, Progress
<1>2. CallView' = CallView
  BY <1>1 DEF CallView
<1> QED
  BY <1>2 DEF Atomic!vars

(* The step at which an edit takes effect. *)
LEMMA CommitStep ==
  ASSUME IInv, NEW p \in Callers, NEW l \in Applied, Goto(p, l), pc[p] \in Pending,
         UNCHANGED <<req, result>>,
         Accepts(req[p], FileView[Target(p)]),
         FileView' = [FileView EXCEPT ![Target(p)] = After(req[p], FileView[Target(p)])]
  PROVE  Atomic!Commit(p)
<1>1. CallView[p] = [req |-> req[p], state |-> "pending"]
  BY DEF CallView, Progress, Pending, Applied, PCs
<1>2. CallView' = [CallView EXCEPT ![p] = [req |-> req[p], state |-> "applied"]]
  BY DEF CallView, Progress, Goto, IInv, TypeOK, Pending, Applied, PCs
<1>3. req[p] \in Requests
  BY DEF IInv, StepOfRequest, Pending
<1> QED
  BY <1>1, <1>2, <1>3, NoneIsNoValue
  DEF Atomic!Commit, Atomic!Become, Atomic!Accepts, Atomic!After, Accepts, After, Target

(* A mode change with nothing to change is confirmed. *)
LEMMA ConfirmStep ==
  ASSUME IInv, NEW p \in Callers, Goto(p, "release"), pc[p] \in Pending,
         UNCHANGED <<req, result, FileView>>,
         Op(p) = "chmod", req[p].to = req[p].from
  PROVE  Atomic!Confirm(p)
<1>1. CallView[p] = [req |-> req[p], state |-> "pending"]
  BY DEF CallView, Progress, Pending, Applied, PCs
<1>2. CallView' = [CallView EXCEPT ![p] = [req |-> req[p], state |-> "applied"]]
  BY DEF CallView, Progress, Goto, IInv, TypeOK, Pending, Applied, PCs
<1>3. req[p] \in Requests
  BY DEF IInv, StepOfRequest, Pending
<1> QED
  BY <1>1, <1>2, <1>3, NoneIsNoValue DEF Atomic!Confirm, Atomic!Become, Op

(* A reply that reports an error. *)
LEMMA RefuseStep ==
  ASSUME IInv, NEW p \in Callers, Reply(p, "error"), UNCHANGED <<req, FileView>>,
         \/ pc[p] \in Pending
         \/ pc[p] \in Applied /\ Op(p) \in {"create", "chmod"}
  PROVE  Atomic!Refuse(p)
<1>1. CallView[p] = [req |-> req[p], state |-> IF pc[p] \in Pending THEN "pending" ELSE "applied"]
  BY DEF CallView, Progress, Pending, Applied, PCs
<1>2. CallView' = [CallView EXCEPT ![p] = [req |-> req[p], state |-> "error"]]
  BY DEF CallView, Progress, Reply, Goto, IInv, TypeOK, Pending, Applied, PCs
<1>3. req[p] \in Requests
  BY DEF IInv, StepOfRequest, Pending, Applied
<1> QED
  BY <1>1, <1>2, <1>3, NoneIsNoValue DEF Atomic!Refuse, Atomic!Become, Op, Pending, Applied

(* Inodes that no path names do not show. *)
LEMMA HiddenInode ==
  ASSUME IInv, NEW i \in Inodes, \A q \in Paths : dir[q] # i, UNCHANGED dir,
         \A j \in Inodes \ {i} : content'[j] = content[j] /\ mode'[j] = mode[j]
  PROVE  UNCHANGED FileView
  BY DEF FileView, IInv, TypeOK

(* Every initial file system is an initial state of AtomicFile. *)
LEMMA RefinementInit == Init => Atomic!Init
<1> SUFFICES ASSUME Init PROVE Atomic!Init
  OBVIOUS
<1>1. FileView \in [Paths -> FileState \cup {None}]
  BY InitialFilesType DEF Init, FileView, FileSystem, FileState
<1>2. CallView = [p \in Callers |-> None]
  BY DEF Init, CallView
<1> QED
  BY <1>1, <1>2 DEF Atomic!Init, Atomic!FileState, FileState

(* Every step of GuardedFile is a step of AtomicFile, or one it does not see. *)
LEMMA RefinementStep == IInv /\ [Next]_vars => [Atomic!Next]_(Atomic!vars)
<1> SUFFICES ASSUME IInv, [Next]_vars PROVE [Atomic!Next]_(Atomic!vars)
  OBVIOUS
<1> USE DEF fsvars, vars, Pending, Applied, PCs
<1>a. ASSUME NEW p \in Callers, Refuse(p),
             \/ pc[p] \in Pending
             \/ pc[p] \in Applied /\ Op(p) \in {"create", "chmod"}
      PROVE  [Atomic!Next]_(Atomic!vars)
  BY <1>a, RefuseStep DEF Refuse, FileView, Atomic!Next
<1>b. ASSUME NEW p \in Callers, NEW l \in PCs, Goto(p, l),
             \/ pc[p] \in Pending /\ l \in Pending
             \/ pc[p] \in Applied /\ l \in Applied,
             UNCHANGED <<req, result, dir, content, mode>>
      PROVE  [Atomic!Next]_(Atomic!vars)
  BY <1>b, StutterStep DEF FileView
<1>1. ASSUME NEW p \in Callers, Start(p) PROVE [Atomic!Next]_(Atomic!vars)
  <2>1. PICK r \in Requests : req' = [req EXCEPT ![p] = r] /\ Goto(p, IF r.op = "create" THEN "probe" ELSE "open")
    BY <1>1 DEF Start
  <2>2. CallView[p] = None
    BY <1>1 DEF Start, CallView
  <2>3. CallView' = [CallView EXCEPT ![p] = [req |-> r, state |-> "pending"]]
    BY <1>1, <2>1 DEF Start, Goto, CallView, Progress, IInv, TypeOK
  <2>4. UNCHANGED FileView
    BY <1>1 DEF Start, FileView
  <2> QED
    BY <2>2, <2>3, <2>4 DEF Atomic!Invoke, Atomic!Next
<1>2. ASSUME NEW p \in Callers, Open(p) PROVE [Atomic!Next]_(Atomic!vars)
  BY <1>2, <1>a, <1>b DEF Open
<1>3. ASSUME NEW p \in Callers, Lock(p) PROVE [Atomic!Next]_(Atomic!vars)
  BY <1>3, <1>a, <1>b DEF Lock
<1>4. ASSUME NEW p \in Callers, ReadFirstPass(p) PROVE [Atomic!Next]_(Atomic!vars)
  BY <1>4, <1>a, <1>b DEF ReadFirstPass
<1>5. ASSUME NEW p \in Callers, ReadTarget(p) PROVE [Atomic!Next]_(Atomic!vars)
  BY <1>5, <1>a, <1>b DEF ReadTarget
<1>6. ASSUME NEW p \in Callers, Stage(p) PROVE [Atomic!Next]_(Atomic!vars)
  <2>1. ASSUME NEW i \in Inodes, Free(i), content' = [content EXCEPT ![i] = Torn],
               mode' = [mode EXCEPT ![i] = NewMode], UNCHANGED dir
        PROVE  UNCHANGED FileView
    BY <2>1, HiddenInode DEF Free, Links, IInv, TypeOK
  <2> QED
    BY <1>6, <1>a, <2>1, StutterStep DEF Stage
<1>7. ASSUME NEW p \in Callers, Write(p) PROVE [Atomic!Next]_(Atomic!vars)
  <2>1. temp[p] \in Inodes /\ \A q \in Paths : dir[q] # temp[p]
    BY <1>7 DEF Write, IInv, TempIsPrivate, Private
  <2>2. UNCHANGED FileView
    BY <1>7, <2>1, HiddenInode DEF Write, Fault, IInv, TypeOK
  <2> QED
    BY <1>7, <2>2, StutterStep DEF Write, Fault
<1>8. ASSUME NEW p \in Callers, Sync(p) PROVE [Atomic!Next]_(Atomic!vars)
  BY <1>8, <1>b DEF Sync, Fault
<1>9. ASSUME NEW p \in Callers, CopyMode(p) PROVE [Atomic!Next]_(Atomic!vars)
  <2>1. temp[p] \in Inodes /\ \A q \in Paths : dir[q] # temp[p]
    BY <1>9 DEF CopyMode, IInv, TempIsPrivate, Private
  <2>2. UNCHANGED FileView
    BY <1>9, <2>1, HiddenInode DEF CopyMode, Fault, IInv, TypeOK
  <2> QED
    BY <1>9, <2>2, StutterStep DEF CopyMode, Fault
<1>10. ASSUME NEW p \in Callers, Revalidate(p) PROVE [Atomic!Next]_(Atomic!vars)
  BY <1>10, <1>b DEF Revalidate
<1>11. ASSUME NEW p \in Callers, Rename(p) PROVE [Atomic!Next]_(Atomic!vars)
  <2>1. CASE Fault(p)
    BY <1>11, <2>1, <1>b DEF Rename, Fault
  <2>2. CASE ~Fault(p)
    <3>1. /\ req[p] \in Requests /\ Target(p) \in Paths
          /\ Op(p) \in {"replace", "bulk", "hash"}
          /\ fd[p] \in Inodes /\ temp[p] \in Inodes /\ dir[Target(p)] = fd[p]
      BY <1>11, RequestFields, HoldsItsInode
      DEF Rename, Target, Private, IInv, StepOfRequest, TempIsPrivate, CommitWindow, StillCurrent
    <3>2. /\ orig[p] \in DOMAIN req[p].edit /\ content[fd[p]] = orig[p]
          /\ content[temp[p]] = req[p].edit[orig[p]] /\ mode[temp[p]] = mode[fd[p]]
      BY <1>11, <3>1 DEF Rename, IInv, VerifiedBytes, TempIsPlanned, Planned
    <3>3. FileView[Target(p)] = [content |-> orig[p], mode |-> mode[fd[p]]]
      BY <3>1, <3>2, NoneIsNoValue DEF FileView
    <3>4. Accepts(req[p], FileView[Target(p)])
      <4>1. FileView[Target(p)] \in FileState
        BY <3>1, <3>2, <3>3, RequestFields DEF FileState, IInv, TypeOK
      <4> QED
        BY <3>1, <3>2, <3>3, <4>1, NoneIsNoValue DEF Accepts, Op
    <3>5. dir' = [dir EXCEPT ![Target(p)] = temp[p]] /\ UNCHANGED <<content, mode, req, result>> /\ Goto(p, "release")
      BY <1>11, <2>2 DEF Rename
    <3>6. After(req[p], FileView[Target(p)]) = [content |-> content[temp[p]], mode |-> mode[temp[p]]]
      BY <3>1, <3>2, <3>3 DEF After, Op
    <3>7. FileView' = [FileView EXCEPT ![Target(p)] = After(req[p], FileView[Target(p)])]
      BY <3>1, <3>5, <3>6, NoneIsNoValue DEF FileView, IInv, TypeOK
    <3> QED
      BY <1>11, <3>4, <3>5, <3>7, CommitStep DEF Rename, Atomic!Next
  <2> QED
    BY <2>1, <2>2
<1>12. ASSUME NEW p \in Callers, Discard(p) PROVE [Atomic!Next]_(Atomic!vars)
  BY <1>12, RefuseStep DEF Discard, FileView, Atomic!Next
<1>13. ASSUME NEW p \in Callers, Inspect(p) PROVE [Atomic!Next]_(Atomic!vars)
  <2>1. CASE Refuse(p)
    BY <1>13, <2>1, <1>a DEF Inspect
  <2>2. CASE ~Refuse(p) /\ req[p].to # req[p].from
    BY <1>13, <2>2, <1>b DEF Inspect
  <2>3. CASE ~Refuse(p) /\ req[p].to = req[p].from
    <3>1. Op(p) = "chmod" /\ Goto(p, "release") /\ UNCHANGED <<dir, content, mode, req, result>>
      BY <1>13, <2>3 DEF Inspect
    <3>2. FileView' = FileView
      BY <3>1 DEF FileView
    <3> QED
      BY <1>13, <2>3, <3>1, <3>2, ConfirmStep DEF Inspect, Op, Atomic!Next
  <2> QED
    BY <2>1, <2>2, <2>3
<1>14. ASSUME NEW p \in Callers, RevalidateMode(p) PROVE [Atomic!Next]_(Atomic!vars)
  BY <1>14, <1>a, <1>b DEF RevalidateMode
<1>15. ASSUME NEW p \in Callers, Fchmod(p) PROVE [Atomic!Next]_(Atomic!vars)
  <2>1. CASE Refuse(p)
    BY <1>15, <2>1, <1>a DEF Fchmod
  <2>2. CASE ~Refuse(p)
    <3>1. /\ req[p] \in Requests /\ Target(p) \in Paths /\ Op(p) = "chmod"
          /\ fd[p] \in Inodes /\ dir[Target(p)] = fd[p]
          /\ \A q \in Paths : dir[q] = fd[p] => q = Target(p)
          /\ orig[p] \in DOMAIN req[p].edit /\ content[fd[p]] = orig[p]
          /\ mode[fd[p]] = req[p].from
      BY <1>15, RequestFields, HoldsItsInode
      DEF Fchmod, Target, Op, IInv, StepOfRequest, CommitWindow, StillCurrent, VerifiedBytes
    <3>2. FileView[Target(p)] = [content |-> content[fd[p]], mode |-> mode[fd[p]]]
      BY <3>1, NoneIsNoValue DEF FileView
    <3>3. /\ Goto(p, "verify") /\ UNCHANGED <<dir, content, req, result>>
          /\ mode' = [mode EXCEPT ![fd[p]] = req[p].to]
      BY <1>15, <2>2 DEF Fchmod
    <3>4. Accepts(req[p], FileView[Target(p)])
      <4>1. FileView[Target(p)] \in FileState
        BY <3>1, <3>2, RequestFields DEF FileState, IInv, TypeOK
      <4> QED
        BY <3>1, <3>2, <4>1, NoneIsNoValue DEF Accepts, Op
    <3>5. After(req[p], FileView[Target(p)]) = [content |-> content[fd[p]], mode |-> req[p].to]
      BY <3>1, <3>2 DEF After, Op
    <3>6. FileView' = [FileView EXCEPT ![Target(p)] = After(req[p], FileView[Target(p)])]
      <4>1. ASSUME NEW q \in Paths, q # Target(p) PROVE FileView'[q] = FileView[q]
        BY <3>1, <3>3, <4>1, RequestFields DEF FileView, IInv, TypeOK
      <4>2. FileView'[Target(p)] = After(req[p], FileView[Target(p)])
        BY <3>1, <3>3, <3>5, NoneIsNoValue, RequestFields DEF FileView, IInv, TypeOK
      <4> QED
        BY <4>1, <4>2 DEF FileView
    <3> QED
      BY <1>15, <3>3, <3>4, <3>6, CommitStep DEF Fchmod, Atomic!Next
  <2> QED
    BY <2>1, <2>2
<1>16. ASSUME NEW p \in Callers, VerifyMode(p) PROVE [Atomic!Next]_(Atomic!vars)
  <2>1. Op(p) = "chmod"
    BY <1>16 DEF VerifyMode, IInv, StepOfRequest
  <2> QED
    BY <1>16, <1>a, <1>b, <2>1 DEF VerifyMode
<1>17. ASSUME NEW p \in Callers, Probe(p) PROVE [Atomic!Next]_(Atomic!vars)
  BY <1>17, <1>a, <1>b DEF Probe
<1>18. ASSUME NEW p \in Callers, Link(p) PROVE [Atomic!Next]_(Atomic!vars)
  <2>1. CASE dir[Target(p)] # None \/ Fault(p)
    BY <1>18, <2>1, <1>b DEF Link, Fault
  <2>2. CASE dir[Target(p)] = None /\ ~Fault(p)
    <3>1. /\ req[p] \in Requests /\ Target(p) \in Paths /\ Op(p) = "create"
          /\ temp[p] \in Inodes
          /\ content[temp[p]] = req[p].data /\ mode[temp[p]] = NewMode
      BY <1>18, RequestFields
      DEF Link, Target, Private, IInv, StepOfRequest, TempIsPrivate, TempIsPlanned, Planned
    <3>2. FileView[Target(p)] = None
      BY <2>2, <3>1 DEF FileView
    <3>3. Accepts(req[p], FileView[Target(p)])
      BY <3>1, <3>2 DEF Accepts, Op
    <3>4. After(req[p], FileView[Target(p)]) = [content |-> content[temp[p]], mode |-> mode[temp[p]]]
      BY <3>1 DEF After, Op
    <3>5. dir' = [dir EXCEPT ![Target(p)] = temp[p]] /\ UNCHANGED <<content, mode, req, result>> /\ Goto(p, "unlink")
      BY <1>18, <2>2 DEF Link
    <3>6. FileView' = [FileView EXCEPT ![Target(p)] = After(req[p], FileView[Target(p)])]
      BY <3>1, <3>4, <3>5, NoneIsNoValue DEF FileView, IInv, TypeOK
    <3> QED
      BY <1>18, <3>3, <3>5, <3>6, CommitStep DEF Link, Atomic!Next
  <2> QED
    BY <2>1, <2>2
<1>19. ASSUME NEW p \in Callers, Unlink(p) PROVE [Atomic!Next]_(Atomic!vars)
  <2>1. Op(p) = "create"
    BY <1>19 DEF Unlink, IInv, StepOfRequest
  <2>2. CASE Goto(p, "release") /\ UNCHANGED <<req, result, dir, content, mode>>
    BY <1>19, <2>2, <1>b DEF Unlink
  <2>3. CASE Reply(p, "error") /\ UNCHANGED <<req, dir, content, mode>>
    BY <1>19, <2>1, <2>3, RefuseStep DEF Unlink, FileView, Atomic!Next
  <2> QED
    BY <1>19, <2>2, <2>3 DEF Unlink
<1>20. ASSUME NEW p \in Callers, Release(p) PROVE [Atomic!Next]_(Atomic!vars)
  <2>1. CallView[p] = [req |-> req[p], state |-> "applied"]
    BY <1>20 DEF Release, CallView, Progress
  <2>2. CallView' = [CallView EXCEPT ![p] = [req |-> req[p], state |-> "ok"]]
    BY <1>20 DEF Release, Reply, Goto, CallView, Progress, IInv, TypeOK
  <2>3. req[p] \in Requests /\ UNCHANGED FileView
    BY <1>20 DEF Release, FileView, IInv, StepOfRequest
  <2>4. Atomic!Succeed(p)
    BY <2>1, <2>2, <2>3, NoneIsNoValue DEF Atomic!Succeed, Atomic!Become
  <2> QED
    BY <2>4 DEF Atomic!Next
<1>21. ASSUME NEW p \in Callers, Return(p) PROVE [Atomic!Next]_(Atomic!vars)
  <2>1. CallView[p] = [req |-> req[p], state |-> result[p]]
    BY <1>21 DEF Return, CallView, Progress
  <2>2. CallView' = [CallView EXCEPT ![p] = None]
    BY <1>21 DEF Return, Goto, CallView, Progress, IInv, TypeOK
  <2>3. req[p] \in Requests /\ result[p] \in {"ok", "error"} /\ UNCHANGED FileView
    BY <1>21 DEF Return, FileView, IInv, StepOfRequest
  <2>4. Atomic!Return(p)
    BY <2>1, <2>2, <2>3, NoneIsNoValue DEF Atomic!Return
  <2> QED
    BY <2>4 DEF Atomic!Next
<1>c. ASSUME NEW S \in SUBSET Callers, Gone(S),
             \A q \in Paths : dir[q] # None => content'[dir[q]] = content[dir[q]]
      PROVE  [Atomic!Next]_(Atomic!vars)
  <2>1. CallView' = [p \in Callers |-> IF p \in S THEN None ELSE CallView[p]]
    BY <1>c DEF Gone, CallView, Progress
  <2>2. UNCHANGED FileView
    BY <1>c DEF Gone, FileView
  <2> QED
    BY <2>1, <2>2 DEF Atomic!Die, Atomic!Next
<1>22. ASSUME NEW S \in SUBSET Callers, Kill(S) PROVE [Atomic!Next]_(Atomic!vars)
  BY <1>22, <1>c DEF Kill
<1>23. CASE PowerLoss
  <2>1. \A q \in Paths : dir[q] # None => content'[dir[q]] = content[dir[q]]
    BY <1>23 DEF PowerLoss, IInv, TypeOK, NoTornFile
  <2> QED
    BY <1>23, <1>c, <2>1 DEF PowerLoss
<1>24. CASE UNCHANGED vars
  BY <1>24 DEF FileView, CallView, Progress, Atomic!vars
<1> QED
  BY <1>1, <1>2, <1>3, <1>4, <1>5, <1>6, <1>7, <1>8, <1>9, <1>10, <1>11, <1>12, <1>13, <1>14, <1>15, <1>16, <1>17, <1>18, <1>19, <1>20, <1>21, <1>22, <1>23, <1>24 DEF Next, Step

(***************************************************************************)
(* Every guarded edit is linearizable: it takes effect at one instant on   *)
(* the content and the mode the path has at that instant, or not at all.   *)
(***************************************************************************)
THEOREM Refinement == Spec => ImplementsAtomicFile
<1> QED
  BY Invariant, RefinementInit, RefinementStep, PTL DEF Spec, ImplementsAtomicFile, Atomic!Spec
=============================================================================
