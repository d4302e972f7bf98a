------------------------- MODULE StdioServerProofs -------------------------
(***************************************************************************)
(* Proofs of the safety of StdioServer: replies are true, mutating         *)
(* handlers exclude each other, and permits are accounted for, for any     *)
(* number of requests and any limits.                                      *)
(***************************************************************************)
EXTENDS StdioServer, FiniteSetTheorems, TLAPS

-----------------------------------------------------------------------------
(* The inductive invariant. *)

Working == {"start", "wait", "write", "release"}
InFlight == {r \in ToolCalls : thread[r] \in Working}

(* The queue holds each request once, and holds it until the main thread takes it. *)
QueuedOnce ==
  /\ \A i \in 1..Len(queue) : thread[queue[i]] = "queued"
  /\ \A i, j \in 1..Len(queue) : queue[i] = queue[j] => i = j

(* A call is answered at the end of its thread, and has no handler before its start. *)
InOrder ==
  \A r \in Requests :
    /\ thread[r] \in {"unsent", "queued", "start"} => handler[r] = "none"
    /\ reply[r] # None => thread[r] \in {"release", "over"}

OnlyToolCalls == \A r \in Requests : thread[r] \in Working \/ handler[r] # "none" => r \in ToolCalls

(* What may be answered to r: a refusal when it did not run and will not, a result when it ended with it. *)
Truthful(r, a) ==
  /\ a \in NotStarted => handler[r] = "none" \/ (handler[r] = "ended" /\ outcome[r] = "locked")
  /\ a \in {"result", "panicked"} => handler[r] = "ended" /\ outcome[r] = a

AnswersAreTruthful ==
  \A r \in Requests : Truthful(r, reply[r]) /\ (thread[r] = "write" => Truthful(r, answer[r]))

(* The lock is held by a running handler. *)
LockIsHeld == repo # None => handler[repo] = "running"

LentAreAlive == \A r \in lent : handler[r] # "none"

Control == QueuedOnce /\ InOrder /\ OnlyToolCalls /\ AnswersAreTruthful /\ LockIsHeld /\ LentAreAlive

IInv == TypeOK /\ PermitsAccounted /\ Control /\ MutatorsExclude

-----------------------------------------------------------------------------
(* What the assumptions on the constants say, in the form the provers use. *)
LEMMA Constants ==
  /\ HasDeadline \subseteq ToolCalls /\ Mutates \subseteq ToolCalls /\ ToolCalls \subseteq Requests
  /\ MaxActive \in Nat /\ MaxWorkers \in Nat /\ MaxQueued \in Nat
  /\ None \notin Requests /\ None \notin Replies /\ None \notin NotStarted
  /\ None \notin {"result", "panicked", "locked"}
  /\ IsFiniteSet(Requests)
BY ConstantsAreSane DEF ToolCalls, Replies, NotStarted

(* What the permits count are finite sets. *)
LEMMA CountedSets ==
  ASSUME TypeOK
  PROVE /\ IsFiniteSet(InFlight) /\ IsFiniteSet(lent)
        /\ Cardinality(InFlight) \in Nat /\ Cardinality(lent) \in Nat
<1>1. InFlight \subseteq Requests /\ lent \subseteq Requests
  BY Constants DEF InFlight, TypeOK
<1>2. IsFiniteSet(InFlight) /\ IsFiniteSet(lent)
  BY <1>1, Constants, FS_Subset
<1>. QED  BY <1>2, FS_CardinalityType

LEMMA InitIInv == Init => IInv
<1>. SUFFICES ASSUME Init PROVE IInv
  OBVIOUS
<1>. USE Constants DEF Init
<1>1. TypeOK
  <2>1. queue \in Seq(Requests) /\ Len(queue) <= MaxQueued
    OBVIOUS
  <2>2. {eof, hungup, writeFailed} \subseteq BOOLEAN
    OBVIOUS
  <2>. QED  BY <2>1, <2>2 DEF TypeOK
<1>2. PermitsAccounted
  <2>1. {r \in ToolCalls : thread[r] \in {"start", "wait", "write", "release"}} = {} /\ lent = {}
    BY DEF ToolCalls
  <2>2. \A r \in HasDeadline : handler[r] \notin {"enter", "running"}
    OBVIOUS
  <2>. QED  BY <2>1, <2>2, FS_EmptySet DEF PermitsAccounted
<1>3. Control
  <2>1. QueuedOnce
    BY DEF QueuedOnce
  <2>2. InOrder /\ OnlyToolCalls /\ LockIsHeld /\ LentAreAlive
    BY DEF InOrder, OnlyToolCalls, LockIsHeld, LentAreAlive, Working
  <2>3. AnswersAreTruthful
    BY DEF AnswersAreTruthful, Truthful
  <2>. QED  BY <2>1, <2>2, <2>3 DEF Control
<1>4. MutatorsExclude
  BY DEF MutatorsExclude
<1>. QED  BY <1>1, <1>2, <1>3, <1>4 DEF IInv

-----------------------------------------------------------------------------
(* One lemma per action. *)

(* Closing stdin, hanging up, and the steps of the main thread that take nothing from the queue. *)
LEMMA OthersKeep ==
  ASSUME IInv, CloseStdin \/ HangUp \/ Check \/ Idle \/ Drain
  PROVE  IInv'
<1>1. /\ UNCHANGED <<queue, active, thread, handler, outcome, workers, lent, repo, answer, reply>>
      /\ main' \in {"check", "take", "drain", "failed", "finished"}
      /\ eof' \in BOOLEAN /\ hungup' \in BOOLEAN /\ writeFailed' \in BOOLEAN
  BY DEF IInv, TypeOK, CloseStdin, HangUp, Check, Idle, Drain, Running
<1>2. TypeOK'
  BY <1>1 DEF IInv, TypeOK
<1>3. PermitsAccounted' /\ MutatorsExclude'
  BY <1>1 DEF IInv, PermitsAccounted, MutatorsExclude
<1>4. Control'
  BY <1>1 DEF IInv, Control, QueuedOnce, InOrder, OnlyToolCalls, AnswersAreTruthful, Truthful, LockIsHeld,
     LentAreAlive
<1>. QED  BY <1>2, <1>3, <1>4 DEF IInv

LEMMA SendKeeps ==
  ASSUME IInv, NEW r \in Requests, Send(r)
  PROVE  IInv'
<1>. USE Constants DEF IInv, Send
<1>1. TypeOK'
  BY DEF TypeOK, Replies, NotStarted, ToolCalls
<1>2. PermitsAccounted'
  <2>1. InFlight' = InFlight
    BY DEF InFlight, Working, TypeOK, ToolCalls
  <2>. QED  BY <2>1 DEF PermitsAccounted, InFlight, Working, TypeOK
<1>3. Control'
  <2>1. QueuedOnce'
    BY DEF Control, QueuedOnce, TypeOK
  <2>2. InOrder'
    BY DEF Control, QueuedOnce, InOrder, TypeOK, Replies, NotStarted
  <2>3. OnlyToolCalls'
    BY DEF Control, OnlyToolCalls, Working, TypeOK, ToolCalls
  <2>4. AnswersAreTruthful'
    BY DEF Control, InOrder, AnswersAreTruthful, Truthful, TypeOK, NotStarted
  <2>5. LockIsHeld' /\ LentAreAlive'
    BY DEF Control, InOrder, LockIsHeld, LentAreAlive, TypeOK
  <2>. QED  BY <2>1, <2>2, <2>3, <2>4, <2>5 DEF Control
<1>4. MutatorsExclude'
  BY DEF MutatorsExclude, TypeOK
<1>. QED  BY <1>1, <1>2, <1>3, <1>4

LEMMA RejectKeeps ==
  ASSUME IInv, NEW r \in Requests, Reject(r)
  PROVE  IInv'
<1>. USE Constants DEF IInv, Reject, WillAnswer
<1>1. TypeOK'
  BY DEF TypeOK, Replies, NotStarted, ToolCalls
<1>2. PermitsAccounted'
  <2>1. InFlight' = InFlight
    BY DEF InFlight, Working, TypeOK, ToolCalls
  <2>. QED  BY <2>1 DEF PermitsAccounted, InFlight, Working, TypeOK
<1>3. Control'
  <2>1. QueuedOnce'
    BY DEF Control, QueuedOnce, TypeOK
  <2>2. InOrder'
    BY DEF Control, QueuedOnce, InOrder, TypeOK, Replies, NotStarted
  <2>3. OnlyToolCalls'
    BY DEF Control, OnlyToolCalls, Working, TypeOK, ToolCalls
  <2>4. AnswersAreTruthful'
    BY DEF Control, InOrder, AnswersAreTruthful, Truthful, TypeOK, NotStarted
  <2>5. LockIsHeld' /\ LentAreAlive'
    BY DEF Control, InOrder, LockIsHeld, LentAreAlive, TypeOK
  <2>. QED  BY <2>1, <2>2, <2>3, <2>4, <2>5 DEF Control
<1>4. MutatorsExclude'
  BY DEF MutatorsExclude, TypeOK
<1>. QED  BY <1>1, <1>2, <1>3, <1>4

LEMMA StartDirectKeeps ==
  ASSUME IInv, NEW r \in Requests, StartDirect(r)
  PROVE  IInv'
<1>. USE Constants DEF IInv, StartDirect
<1>1. TypeOK'
  BY DEF TypeOK, Replies, NotStarted, ToolCalls
<1>2. PermitsAccounted'
  <2>1. InFlight' = InFlight
    BY DEF InFlight, Working, TypeOK, ToolCalls
  <2>. QED  BY <2>1 DEF PermitsAccounted, InFlight, Working, TypeOK
<1>3. Control'
  <2>1. QueuedOnce'
    BY DEF Control, QueuedOnce, TypeOK
  <2>2. InOrder'
    BY DEF Control, QueuedOnce, InOrder, TypeOK, Replies, NotStarted
  <2>3. OnlyToolCalls'
    BY DEF Control, OnlyToolCalls, Working, TypeOK, ToolCalls
  <2>4. AnswersAreTruthful'
    BY DEF Control, InOrder, AnswersAreTruthful, Truthful, TypeOK, NotStarted
  <2>5. LockIsHeld' /\ LentAreAlive'
    BY DEF Control, InOrder, LockIsHeld, LentAreAlive, TypeOK
  <2>. QED  BY <2>1, <2>2, <2>3, <2>4, <2>5 DEF Control
<1>4. MutatorsExclude'
  BY DEF MutatorsExclude, TypeOK
<1>. QED  BY <1>1, <1>2, <1>3, <1>4

LEMMA StartWithDeadlineKeeps ==
  ASSUME IInv, NEW r \in Requests, StartWithDeadline(r)
  PROVE  IInv'
<1>. USE Constants DEF IInv, StartWithDeadline, WillAnswer
<1>1. TypeOK'
  BY DEF TypeOK, Replies, NotStarted, ToolCalls
<1>2. PermitsAccounted'
  <2>1. InFlight' = InFlight
    BY DEF InFlight, Working, TypeOK
  <2>2. CASE workers < MaxWorkers /\ workers' = workers + 1 /\ lent' = lent \cup {r}
    <3>1. r \notin lent
      BY DEF Control, InOrder, LentAreAlive
    <3>2. Cardinality(lent') = Cardinality(lent) + 1
      BY <2>2, <3>1, CountedSets, FS_AddElement
    <3>. QED  BY <2>1, <2>2, <3>2 DEF PermitsAccounted, InFlight, Working, TypeOK
  <2>3. CASE UNCHANGED <<workers, lent, handler>>
    BY <2>1, <2>3 DEF PermitsAccounted, InFlight, Working, TypeOK
  <2>. QED  BY <2>2, <2>3
<1>3. Control'
  <2>1. QueuedOnce'
    BY DEF Control, QueuedOnce, TypeOK
  <2>2. InOrder'
    BY DEF Control, QueuedOnce, InOrder, TypeOK, Replies, NotStarted
  <2>3. OnlyToolCalls'
    BY DEF Control, OnlyToolCalls, Working, TypeOK, ToolCalls
  <2>4. AnswersAreTruthful'
    BY DEF Control, InOrder, AnswersAreTruthful, Truthful, TypeOK, NotStarted
  <2>5. LockIsHeld' /\ LentAreAlive'
    BY DEF Control, InOrder, LockIsHeld, LentAreAlive, TypeOK
  <2>. QED  BY <2>1, <2>2, <2>3, <2>4, <2>5 DEF Control
<1>4. MutatorsExclude'
  BY DEF MutatorsExclude, TypeOK
<1>. QED  BY <1>1, <1>2, <1>3, <1>4

LEMMA ReceiveKeeps ==
  ASSUME IInv, NEW r \in Requests, Receive(r)
  PROVE  IInv'
<1>. USE Constants DEF IInv, Receive, WillAnswer
<1>1. TypeOK'
  BY DEF TypeOK, Replies, NotStarted, ToolCalls
<1>2. PermitsAccounted'
  <2>1. InFlight' = InFlight
    BY DEF InFlight, Working, TypeOK, ToolCalls
  <2>. QED  BY <2>1 DEF PermitsAccounted, InFlight, Working, TypeOK
<1>3. Control'
  <2>1. QueuedOnce'
    BY DEF Control, QueuedOnce, TypeOK
  <2>2. InOrder'
    BY DEF Control, QueuedOnce, InOrder, TypeOK, Replies, NotStarted
  <2>3. OnlyToolCalls'
    BY DEF Control, OnlyToolCalls, Working, TypeOK, ToolCalls
  <2>4. AnswersAreTruthful'
    BY DEF Control, InOrder, AnswersAreTruthful, Truthful, TypeOK, NotStarted
  <2>5. LockIsHeld' /\ LentAreAlive'
    BY DEF Control, InOrder, LockIsHeld, LentAreAlive, TypeOK
  <2>. QED  BY <2>1, <2>2, <2>3, <2>4, <2>5 DEF Control
<1>4. MutatorsExclude'
  BY DEF MutatorsExclude, TypeOK
<1>. QED  BY <1>1, <1>2, <1>3, <1>4

LEMMA ExpireKeeps ==
  ASSUME IInv, NEW r \in Requests, Expire(r)
  PROVE  IInv'
<1>. USE Constants DEF IInv, Expire, WillAnswer
<1>1. TypeOK'
  BY DEF TypeOK, Replies, NotStarted, ToolCalls
<1>2. PermitsAccounted'
  <2>1. InFlight' = InFlight
    BY DEF InFlight, Working, TypeOK, ToolCalls
  <2>. QED  BY <2>1 DEF PermitsAccounted, InFlight, Working, TypeOK
<1>3. Control'
  <2>1. QueuedOnce'
    BY DEF Control, QueuedOnce, TypeOK
  <2>2. InOrder'
    BY DEF Control, QueuedOnce, InOrder, TypeOK, Replies, NotStarted
  <2>3. OnlyToolCalls'
    BY DEF Control, OnlyToolCalls, Working, TypeOK, ToolCalls
  <2>4. AnswersAreTruthful'
    BY DEF Control, InOrder, AnswersAreTruthful, Truthful, TypeOK, NotStarted
  <2>5. LockIsHeld' /\ LentAreAlive'
    BY DEF Control, InOrder, LockIsHeld, LentAreAlive, TypeOK
  <2>. QED  BY <2>1, <2>2, <2>3, <2>4, <2>5 DEF Control
<1>4. MutatorsExclude'
  BY DEF MutatorsExclude, TypeOK
<1>. QED  BY <1>1, <1>2, <1>3, <1>4

LEMMA WriteReplyKeeps ==
  ASSUME IInv, NEW r \in Requests, WriteReply(r)
  PROVE  IInv'
<1>. USE Constants DEF IInv, WriteReply
<1>1. TypeOK'
  BY DEF TypeOK, Replies, NotStarted, ToolCalls
<1>2. PermitsAccounted'
  <2>1. InFlight' = InFlight
    BY DEF InFlight, Working, TypeOK, ToolCalls
  <2>. QED  BY <2>1 DEF PermitsAccounted, InFlight, Working, TypeOK
<1>3. Control'
  <2>1. QueuedOnce'
    BY DEF Control, QueuedOnce, TypeOK
  <2>2. InOrder'
    BY DEF Control, QueuedOnce, InOrder, TypeOK, Replies, NotStarted
  <2>3. OnlyToolCalls'
    BY DEF Control, OnlyToolCalls, Working, TypeOK, ToolCalls
  <2>4. AnswersAreTruthful'
    BY DEF Control, InOrder, AnswersAreTruthful, Truthful, TypeOK, NotStarted
  <2>5. LockIsHeld' /\ LentAreAlive'
    BY DEF Control, InOrder, LockIsHeld, LentAreAlive, TypeOK
  <2>. QED  BY <2>1, <2>2, <2>3, <2>4, <2>5 DEF Control
<1>4. MutatorsExclude'
  BY DEF MutatorsExclude, TypeOK
<1>. QED  BY <1>1, <1>2, <1>3, <1>4

LEMMA EndCallKeeps ==
  ASSUME IInv, NEW r \in Requests, EndCall(r)
  PROVE  IInv'
<1>. USE Constants DEF IInv, EndCall
<1>1. Cardinality(InFlight') = Cardinality(InFlight) - 1 /\ active > 0
  <2>1. InFlight' = InFlight \ {r} /\ r \in InFlight
    BY DEF InFlight, Working, TypeOK, Control, OnlyToolCalls
  <2>2. Cardinality(InFlight \ {r}) = Cardinality(InFlight) - 1 /\ Cardinality(InFlight \ {r}) \in Nat
    BY <2>1, CountedSets, FS_RemoveElement, FS_CardinalityType
  <2>. QED  BY <2>1, <2>2, CountedSets DEF PermitsAccounted, InFlight, Working
<1>2. PermitsAccounted'
  BY <1>1, CountedSets DEF PermitsAccounted, InFlight, Working, TypeOK
<1>5. TypeOK'
  BY <1>1 DEF TypeOK
<1>3. Control'
  <2>1. QueuedOnce'
    BY DEF Control, QueuedOnce, TypeOK
  <2>2. InOrder'
    BY DEF Control, QueuedOnce, InOrder, TypeOK, Replies, NotStarted
  <2>3. OnlyToolCalls'
    BY DEF Control, OnlyToolCalls, Working, TypeOK, ToolCalls
  <2>4. AnswersAreTruthful'
    BY DEF Control, InOrder, AnswersAreTruthful, Truthful, TypeOK, NotStarted
  <2>5. LockIsHeld' /\ LentAreAlive'
    BY DEF Control, InOrder, LockIsHeld, LentAreAlive, TypeOK
  <2>. QED  BY <2>1, <2>2, <2>3, <2>4, <2>5 DEF Control
<1>4. MutatorsExclude'
  BY DEF MutatorsExclude, TypeOK
<1>. QED  BY <1>2, <1>3, <1>4, <1>5

LEMMA EnterKeeps ==
  ASSUME IInv, NEW r \in Requests, Enter(r)
  PROVE  IInv'
<1>. USE Constants DEF IInv, Enter
<1>1. TypeOK'
  BY DEF TypeOK, Replies, NotStarted, ToolCalls
<1>2. PermitsAccounted'
  <2>1. InFlight' = InFlight
    BY DEF InFlight, Working, TypeOK, ToolCalls
  <2>. QED  BY <2>1 DEF PermitsAccounted, InFlight, Working, TypeOK
<1>3. Control'
  <2>1. QueuedOnce'
    BY DEF Control, QueuedOnce, TypeOK
  <2>2. InOrder'
    BY DEF Control, QueuedOnce, InOrder, TypeOK, Replies, NotStarted
  <2>3. OnlyToolCalls'
    BY DEF Control, OnlyToolCalls, Working, TypeOK, ToolCalls
  <2>4. AnswersAreTruthful'
    BY DEF Control, InOrder, AnswersAreTruthful, Truthful, TypeOK, NotStarted
  <2>5. LockIsHeld' /\ LentAreAlive'
    BY DEF Control, InOrder, LockIsHeld, LentAreAlive, TypeOK
  <2>. QED  BY <2>1, <2>2, <2>3, <2>4, <2>5 DEF Control
<1>4. MutatorsExclude'
  BY DEF MutatorsExclude, TypeOK
<1>. QED  BY <1>1, <1>2, <1>3, <1>4

LEMMA EndKeeps ==
  ASSUME IInv, NEW r \in Requests, End(r)
  PROVE  IInv'
<1>. USE Constants DEF IInv, End
<1>1. TypeOK'
  BY DEF TypeOK, Replies, NotStarted, ToolCalls
<1>2. PermitsAccounted'
  <2>1. InFlight' = InFlight
    BY DEF InFlight, Working, TypeOK, ToolCalls
  <2>. QED  BY <2>1 DEF PermitsAccounted, InFlight, Working, TypeOK
<1>3. Control'
  <2>1. QueuedOnce'
    BY DEF Control, QueuedOnce, TypeOK
  <2>2. InOrder'
    BY DEF Control, QueuedOnce, InOrder, TypeOK, Replies, NotStarted
  <2>3. OnlyToolCalls'
    BY DEF Control, OnlyToolCalls, Working, TypeOK, ToolCalls
  <2>4. AnswersAreTruthful'
    BY DEF Control, InOrder, AnswersAreTruthful, Truthful, TypeOK, NotStarted
  <2>5. LockIsHeld' /\ LentAreAlive'
    BY DEF Control, InOrder, LockIsHeld, LentAreAlive, TypeOK
  <2>. QED  BY <2>1, <2>2, <2>3, <2>4, <2>5 DEF Control
<1>4. MutatorsExclude'
  BY DEF MutatorsExclude, TypeOK
<1>. QED  BY <1>1, <1>2, <1>3, <1>4

LEMMA EndDetachedKeeps ==
  ASSUME IInv, NEW r \in Requests, EndDetached(r)
  PROVE  IInv'
<1>. USE Constants DEF IInv, EndDetached
<1>1. Cardinality(lent') = Cardinality(lent) - 1 /\ workers > 0
  <2>1. r \in lent
    OBVIOUS
  <2>2. Cardinality(lent \ {r}) = Cardinality(lent) - 1 /\ Cardinality(lent \ {r}) \in Nat
    BY <2>1, CountedSets, FS_RemoveElement, FS_CardinalityType
  <2>. QED  BY <2>2, CountedSets DEF PermitsAccounted
<1>2. PermitsAccounted'
  BY <1>1, CountedSets DEF PermitsAccounted, TypeOK
<1>5. TypeOK'
  BY <1>1 DEF TypeOK
<1>3. Control'
  <2>1. QueuedOnce'
    BY DEF Control, QueuedOnce, TypeOK
  <2>2. InOrder'
    BY DEF Control, QueuedOnce, InOrder, TypeOK, Replies, NotStarted
  <2>3. OnlyToolCalls'
    BY DEF Control, OnlyToolCalls, Working, TypeOK, ToolCalls
  <2>4. AnswersAreTruthful'
    BY DEF Control, InOrder, AnswersAreTruthful, Truthful, TypeOK, NotStarted
  <2>5. LockIsHeld' /\ LentAreAlive'
    BY DEF Control, InOrder, LockIsHeld, LentAreAlive, TypeOK
  <2>. QED  BY <2>1, <2>2, <2>3, <2>4, <2>5 DEF Control
<1>4. MutatorsExclude'
  BY DEF MutatorsExclude, TypeOK
<1>. QED  BY <1>2, <1>3, <1>4, <1>5

(* A call whose thread starts, while no other thread moves, is one more call in flight. *)
LEMMA OneMoreInFlight ==
  ASSUME NEW r \in ToolCalls, thread[r] \notin Working, thread'[r] = "start",
         \A q \in Requests \ {r} : thread'[q] = thread[q]
  PROVE  InFlight' = InFlight \cup {r} /\ r \notin InFlight
BY DEF InFlight, Working, ToolCalls

(* The head of the queue is queued only once, so what remains in the queue is still queued. *)
LEMMA TakeKeeps ==
  ASSUME IInv, Take
  PROVE  IInv'
<1>. USE Constants DEF IInv, Take, MainReply
<1>. DEFINE r == Head(queue)
<1>1. /\ r \in Requests /\ thread[r] = "queued" /\ r = queue[1]
      /\ queue' \in Seq(Requests) /\ Len(queue') = Len(queue) - 1
      /\ \A i \in 1..Len(queue') : i + 1 \in 1..Len(queue) /\ queue'[i] = queue[i + 1]
  BY DEF TypeOK, Control, QueuedOnce
<1>2. /\ UNCHANGED <<handler, outcome, workers, lent, repo, answer>>
      /\ \E s \in {"start", "over"} : thread' = [thread EXCEPT ![r] = s]
      /\ \/ UNCHANGED reply
         \/ \E a \in {"light", "busy", "unavailable"} : reply' = [reply EXCEPT ![r] = a] /\ thread'[r] = "over"
  BY <1>1 DEF TypeOK
<1>3. TypeOK' /\ Len(queue') <= MaxQueued
  <2>1. active' \in 0..MaxActive
    BY DEF TypeOK, Busy
  <2>2. main' = "check" \/ main' = "failed"
    <3>1. CASE hungup
      BY <3>1
    <3>2. CASE ~hungup
      BY <3>2
    <3>. QED  BY <3>1, <3>2
  <2>3. thread' \in [Requests -> {"unsent", "queued", "start", "wait", "write", "release", "over"}]
    BY <1>2 DEF TypeOK
  <2>4. reply' \in [Requests -> Replies \cup {None}]
    BY <1>2 DEF TypeOK, Replies, NotStarted
  <2>5. Len(queue') <= MaxQueued
    BY <1>1 DEF TypeOK
  <2>6. UNCHANGED <<eof, handler, outcome, workers, lent, repo, answer, hungup, writeFailed>>
    OBVIOUS
  <2>7. TypeOK
    OBVIOUS
  <2>. HIDE DEF IInv, Take, MainReply
  <2>. QED  BY <1>1, <2>1, <2>2, <2>3, <2>4, <2>5, <2>6, <2>7 DEF TypeOK
<1>4. PermitsAccounted'
  <2>1. CASE thread' = [thread EXCEPT ![r] = "start"] /\ active' = active + 1
    <3>1. thread'[r] = "start" /\ r \in ToolCalls
      BY <1>1, <2>1 DEF TypeOK, ToolCalls
    <3>2. \A q \in Requests \ {r} : thread'[q] = thread[q]
      BY <1>1, <2>1 DEF TypeOK
    <3>3. InFlight' = InFlight \cup {r} /\ r \notin InFlight
      <4>1. thread[r] \notin Working
        BY <1>1 DEF Working
      <4>. QED  BY <3>1, <3>2, <4>1, OneMoreInFlight
    <3>4. IsFiniteSet(InFlight) /\ active = Cardinality(InFlight)
      BY CountedSets DEF PermitsAccounted, InFlight, Working
    <3>5. active' = Cardinality(InFlight')
      BY <2>1, <3>3, <3>4, FS_AddElement
    <3>6. UNCHANGED <<handler, workers, lent>>
      BY <1>2
    <3>. QED  BY <3>5, <3>6 DEF PermitsAccounted, InFlight, Working
  <2>2. CASE thread' = [thread EXCEPT ![r] = "over"] /\ UNCHANGED active
    <3>1. InFlight' = InFlight
      BY <1>1, <2>2 DEF InFlight, Working, TypeOK
    <3>. QED  BY <1>2, <3>1, <2>2 DEF PermitsAccounted, InFlight, Working
  <2>. QED  BY <2>1, <2>2
<1>5. Control'
  <2>1. QueuedOnce'
    <3>1. \A i \in 1..Len(queue') : queue'[i] # r
      BY <1>1, 1 \in 1..Len(queue) DEF TypeOK, Control, QueuedOnce
    <3>2. \A i \in 1..Len(queue') : thread'[queue'[i]] = "queued"
      BY <1>1, <1>2, <3>1 DEF TypeOK, Control, QueuedOnce
    <3>3. ASSUME NEW i \in 1..Len(queue'), NEW j \in 1..Len(queue'), queue'[i] = queue'[j]
          PROVE  i = j
      BY <1>1, <3>3 DEF TypeOK, Control, QueuedOnce
    <3>. QED  BY <3>2, <3>3 DEF QueuedOnce
  <2>2. InOrder'
    BY <1>1, <1>2 DEF Control, InOrder, TypeOK
  <2>3. OnlyToolCalls'
    <3>1. thread'[r] = "start" => r \in ToolCalls
      BY <1>1 DEF TypeOK, ToolCalls
    <3>. QED  BY <1>1, <1>2, <3>1 DEF Control, OnlyToolCalls, Working, TypeOK
  <2>4. AnswersAreTruthful'
    BY <1>1, <1>2 DEF Control, InOrder, AnswersAreTruthful, Truthful, TypeOK, NotStarted
  <2>5. LockIsHeld' /\ LentAreAlive'
    BY <1>2 DEF Control, LockIsHeld, LentAreAlive
  <2>. QED  BY <2>1, <2>2, <2>3, <2>4, <2>5 DEF Control
<1>6. MutatorsExclude'
  BY <1>2 DEF MutatorsExclude
<1>. QED  BY <1>3, <1>4, <1>5, <1>6

-----------------------------------------------------------------------------
LEMMA StepKeepsIInv == IInv /\ [Next]_vars => IInv'
<1>. SUFFICES ASSUME IInv, [Next]_vars PROVE IInv'
  OBVIOUS
<1>1. CASE CloseStdin \/ HangUp \/ Check \/ Idle \/ Drain
  BY <1>1, OthersKeep
<1>2. CASE Take
  BY <1>2, TakeKeeps
<1>3. ASSUME NEW r \in Requests, Send(r) \/ CallThread(r) \/ Handler(r)
      PROVE  IInv'
  BY <1>3, SendKeeps, RejectKeeps, StartDirectKeeps, StartWithDeadlineKeeps, ReceiveKeeps, ExpireKeeps,
     WriteReplyKeeps, EndCallKeeps, EnterKeeps, EndKeeps, EndDetachedKeeps DEF CallThread, Handler
<1>4. CASE UNCHANGED vars
  BY <1>4 DEF vars, IInv, TypeOK, PermitsAccounted, Control, QueuedOnce, InOrder, OnlyToolCalls,
     AnswersAreTruthful, Truthful, LockIsHeld, LentAreAlive, MutatorsExclude
<1>. QED  BY <1>1, <1>2, <1>3, <1>4 DEF Next, MainThread

(* The inductive invariant holds in every reachable state of the server. *)
THEOREM Invariant == Spec => []IInv
BY InitIInv, StepKeepsIInv, PTL DEF Spec

(* Every variable keeps its type, and the queue and the counters their limits. *)
THEOREM Typing == Spec => []TypeOK
<1>1. IInv => TypeOK
  BY DEF IInv
<1>. QED  BY <1>1, Invariant, PTL

(* At most one mutating handler runs at any time, expired ones included: each holds the one lock. *)
THEOREM Exclusion == Spec => []MutatorsExclude
<1>1. IInv => MutatorsExclude
  BY DEF IInv
<1>. QED  BY <1>1, Invariant, PTL

(* The counters of permits agree with the threads that are alive. *)
THEOREM Permits == Spec => []PermitsAccounted
<1>1. IInv => PermitsAccounted
  BY DEF IInv
<1>. QED  BY <1>1, Invariant, PTL

(* No reply misreports its call: a refused call never runs, a call answered with a result has ended with it. *)
THEOREM Honesty == Spec => []HonestReplies
<1>1. IInv => HonestReplies
  BY Constants DEF IInv, TypeOK, Control, AnswersAreTruthful, Truthful, HonestReplies, Started
<1>. QED  BY <1>1, Invariant, PTL

(* When a mutating call is answered, its lock is free again. *)
THEOREM LockReleased == Spec => []LockFreeOnReply
<1>1. IInv => LockFreeOnReply
  BY Constants DEF IInv, TypeOK, Control, AnswersAreTruthful, Truthful, NotStarted, LockIsHeld, LockFreeOnReply
<1>. QED  BY <1>1, Invariant, PTL
=============================================================================
