-------------------------- MODULE ReceiptJournal --------------------------
(***************************************************************************)
(* The write-receipt journal (crates/core/src/fs/receipt.rs) and the       *)
(* mutations it brackets (crates/server/src/tools/journal.rs).             *)
(*                                                                         *)
(* A journalled call digests its target, appends a begin record, mutates,  *)
(* digests again and appends a settle record.  The repository mutation     *)
(* lock admits one such call at a time, so one call is modelled; a call    *)
(* that is killed leaves its records behind.  Everyone else who writes the *)
(* targets (the CLI, editors) is Others.                                   *)
(***************************************************************************)
EXTENDS Naturals, Sequences, FiniteSets, Functions

CONSTANTS
  Targets,      \* journalled state: repository files, and the Git HEAD
  Digests,      \* what a target's digest can be
  Absent,       \* the digest of a file that does not exist
  Calls,        \* the journalled calls: [kind: Kinds, targets: Seq(Targets)]
  None,
  Capacity,     \* MAX_JOURNAL_BYTES, counted in records
  MaxAttempts,  \* bound on the attempts of one behaviour
  Others,       \* whether others write the targets
  DigestFaults, \* whether a target may be unreadable
  AppendFaults, \* whether an append may fail before it writes anything, or in its fsync
  Tearing,      \* whether a failing or killed append may leave part of its record
  MayCrash      \* whether the server may be killed

VARIABLES
  state,        \* state[t]: the digest of t
  journal,      \* the journal file (see Journal)
  next,         \* the id of the next attempt
  call,         \* the running call, or None
  mutated,      \* ids whose work changed its target
  worked,       \* ids whose work reported success
  disturbed     \* ids during whose attempt, from its first digest on, others wrote a target

vars == <<state, journal, next, call, mutated, worked, disturbed>>

(***************************************************************************)
(* One file (or the Git HEAD), a batch of files under one journal lock,    *)
(* the targets of a batch that was refused, untracked files to delete.     *)
(***************************************************************************)
Kinds == {"single", "batch", "refusal", "deletions"}

Outcomes == {"applied", "refused", "unknown"}
Ids == 1..MaxAttempts

BeginLine(id, t) == [record |-> "begin", id |-> id, target |-> t]
SettleLine(id, o) == [record |-> "settle", id |-> id, outcome |-> o]
Records == [record: {"begin"}, id: Ids, target: Targets] \cup [record: {"settle"}, id: Ids, outcome: Outcomes]
Fragment == [record |-> "fragment"]

(* The lines that parse, the last line when it has no newline, and how many lines do not parse. *)
Journal == [lines: SUBSET Records, tail: Records \cup {Fragment, None}, junk: Nat]
Fresh(ls) == [lines |-> ls, tail |-> None, junk |-> 0]

ASSUME ConstantsAreSane ==
  /\ Capacity \in Nat /\ MaxAttempts \in Nat
  /\ Absent \in Digests
  /\ Calls \subseteq [kind: Kinds, targets: Seq(Targets)]
  /\ \A c \in Calls : Len(c.targets) > 0 /\ (c.kind = "single" => Len(c.targets) = 1)
  /\ None \notin Records /\ None \notin Digests /\ None \notin Ids /\ None # Fragment
  /\ {Others, DigestFaults, AppendFaults, Tearing, MayCrash} \subseteq BOOLEAN

-----------------------------------------------------------------------------
(* Reading: all_from_path, interrupted, journal_bytes. *)

Readable == journal.lines \cup ({journal.tail} \cap Records)
Begun == {r.id : r \in {l \in Readable : l.record = "begin"}}
Settled(o) == {r.id : r \in {l \in Readable : l.record = "settle" /\ l.outcome = o}} \cap Begun
Interrupted == Begun \ UNION {Settled(o) : o \in Outcomes}

Bytes(j) == Cardinality(j.lines) + j.junk + (IF j.tail = None THEN 0 ELSE 1)

(* Faulty variant of Rotated: the rotation starts an empty journal. *)
RotatedEmpty == Fresh({})

(* rotate: the interrupted begin records survive, everything else goes. *)
Rotated == Fresh({l \in Readable : l.record = "begin" /\ l.id \in Interrupted})

(***************************************************************************)
(* append: one write of the record and its newline.  A record that follows *)
(* a line without newline is glued to it, and neither can be read.         *)
(***************************************************************************)
Appended(j, r) ==
  IF j.tail = None THEN [j EXCEPT !.lines = @ \cup {r}] ELSE [j EXCEPT !.tail = None, !.junk = @ + 1]

(* What an append that does not return Ok may leave. *)
Broken(j, r) ==
  (IF AppendFaults THEN {j, Appended(j, r)} ELSE {}) \cup
  (IF Tearing THEN {[j EXCEPT !.tail = x] : x \in IF j.tail = None THEN {Fragment, r} ELSE {Fragment}} ELSE {})

-----------------------------------------------------------------------------
(* The running call. *)

Target(c) == c.targets[c.at]
Last(c) == c.at = Len(c.targets)
Goto(l) == call' = [call EXCEPT !.pc = l]
At(l) == call # None /\ call.pc = l

Finish(reply) == call' = [call EXCEPT !.pc = "done", !.reply = reply]

Init ==
  /\ state \in [Targets -> Digests]
  /\ journal = Fresh({})
  /\ next = 1
  /\ call = None
  /\ mutated = {} /\ worked = {} /\ disturbed = {}

Start ==
  /\ call = None
  /\ \E c \in Calls :
       /\ next + Len(c.targets) <= MaxAttempts + 1
       /\ call' = [kind |-> c.kind, targets |-> c.targets, at |-> 1,
                   pc |-> IF c.kind \in {"batch", "refusal"} THEN "reserve" ELSE "digest",
                   ids |-> <<>>, before |-> <<>>, ok |-> c.kind # "refusal", complaint |-> FALSE, reply |-> None]
  /\ UNCHANGED <<state, journal, next, mutated, worked, disturbed>>

(* Faulty variant of Reserve: room for the begin records only. *)
ReserveBegins ==
  /\ At("reserve")
  /\ IF Bytes(journal) + Len(call.targets) > Capacity
       THEN journal' = Rotated ELSE UNCHANGED journal
  /\ Goto("digest")
  /\ UNCHANGED <<state, next, mutated, worked, disturbed>>

(* reserve_file_batch: room for every record of the batch before its first write. *)
Reserve ==
  /\ At("reserve")
  /\ LET needed == 2 * Len(call.targets)
         j == IF Bytes(journal) + needed > Capacity THEN Rotated ELSE journal
     IN \/ /\ needed > Capacity
           /\ Finish("refused") /\ UNCHANGED journal
        \/ /\ needed <= Capacity
           /\ journal' = j
           /\ IF Bytes(j) + needed > Capacity THEN Finish("refused") ELSE Goto("digest")
        \/ /\ AppendFaults
           /\ journal' \in {journal, j}
           /\ Finish("refused")
  /\ UNCHANGED <<state, next, mutated, worked, disturbed>>

(* In a batch, the files before the refused one stay changed, and the reply says so. *)
Refuse == Finish(IF call.kind = "batch" /\ call.at > 1 THEN "failed" ELSE "refused")

(* Recording a refused batch goes on to the next target whatever happens to this one. *)
Skip(before) ==
  IF Last(call) THEN Refuse
  ELSE call' = [call EXCEPT !.at = @ + 1, !.pc = "digest", !.ids = Append(@, None), !.before = before]

(* An unreadable target refuses the call; the receipts already begun stay as they are. *)
DigestBefore ==
  /\ At("digest")
  /\ \/ call' = [call EXCEPT !.pc = "begin", !.before = Append(@, state[Target(call)])]
     \/ /\ DigestFaults
        /\ IF call.kind = "refusal" THEN Skip(Append(call.before, None)) ELSE Refuse
  /\ UNCHANGED <<state, journal, next, mutated, worked, disturbed>>

(* begin_record rotates an oversized journal first; a batch has its room already. *)
BeginInto ==
  IF call.kind \notin {"batch", "refusal"} /\ Bytes(journal) > Capacity THEN Rotated ELSE journal

(* A begin that fails or is cut short, perhaps already in its rotation. *)
BrokenBegin(r) == (IF AppendFaults THEN {journal} ELSE {}) \cup Broken(BeginInto, r)

(* FileReceiptBatch::begin_file: the paths of a batch must come in order, and a skipped one never came. *)
OutOfTurn == call.kind = "refusal" /\ None \in Range(call.ids)

(* Faulty variant of BeginFailed: the failure to record is only a warning. *)
BeginFailedIgnored == call' = [call EXCEPT !.ids = Append(@, next), !.pc = "work"]

BeginFailed ==
  CASE call.kind = "deletions" /\ call.ids # <<>> -> call' = [call EXCEPT !.at = 1, !.pc = "unwind"]
    [] call.kind = "refusal" -> Skip(call.before)
    [] OTHER -> Refuse

Begin ==
  /\ At("begin")
  /\ LET r == BeginLine(next, Target(call))
         more == call.kind = "deletions" /\ ~Last(call)
     IN \/ /\ ~OutOfTurn
           /\ journal' = Appended(BeginInto, r)
           /\ call' = [call EXCEPT !.ids = Append(@, next),
                                   !.pc = IF more THEN "digest" ELSE IF call.kind = "refusal" THEN "settle" ELSE "work",
                                   !.at = IF more THEN @ + 1 ELSE IF call.kind = "deletions" THEN 1 ELSE @]
        \/ ~OutOfTurn /\ journal' \in BrokenBegin(r) /\ BeginFailed
        \/ OutOfTurn /\ UNCHANGED journal /\ BeginFailed
  /\ next' = next + 1
  /\ UNCHANGED <<state, mutated, worked, disturbed>>

(* A deletion whose begin failed settles the begins before it as refused. *)
Unwind ==
  /\ At("unwind")
  /\ LET r == SettleLine(call.ids[call.at], "refused")
     IN journal' \in {Appended(journal, r)} \cup Broken(journal, r)
  /\ IF call.at = Len(call.ids) THEN Refuse ELSE call' = [call EXCEPT !.at = @ + 1]
  /\ UNCHANGED <<state, next, mutated, worked, disturbed>>

(***************************************************************************)
(* The mutation, one target at a time.  It may fail, with its target as it *)
(* was or, when a later check of the tool fails, already changed.          *)
(***************************************************************************)
Work ==
  /\ At("work")
  /\ LET t == Target(call)
         id == call.ids[call.at]
     IN \E d \in {state[t]} \cup (IF call.kind = "deletions" THEN {Absent} ELSE Digests \ {Absent}),
           ok \in BOOLEAN :
          /\ ok /\ call.kind = "deletions" => d = Absent
          /\ state' = [state EXCEPT ![t] = d]
          /\ mutated' = IF d = state[t] THEN mutated ELSE mutated \cup {id}
          /\ worked' = IF ok THEN worked \cup {id} ELSE worked
          /\ call' = IF ok /\ call.kind = "deletions" /\ ~Last(call)
                       THEN [call EXCEPT !.at = @ + 1]
                       ELSE [call EXCEPT !.pc = "settle", !.ok = ok,
                                         !.at = IF call.kind = "deletions" THEN 1 ELSE @]
  /\ UNCHANGED <<journal, next, disturbed>>

(* Faulty variants of Verdict: the digest decides; a failure is taken for a refusal; a fourth outcome. *)
VerdictByDigest(after) ==
  SettleLine(call.ids[call.at], IF after = call.before[call.at] THEN "refused" ELSE "applied")

VerdictByResult(after) ==
  SettleLine(call.ids[call.at], IF call.ok /\ after # None THEN "applied" ELSE "refused")

(* The settle record that a digest taken after the work calls for. *)
Verdict(after) ==
  SettleLine(call.ids[call.at],
             IF call.ok THEN "applied" ELSE IF after = call.before[call.at] THEN "refused" ELSE "unknown")

(* Faulty variant of AfterSettle: a settle record that was not written is not mentioned. *)
AfterSettleSilent(complaint) ==
  IF Last(call) THEN Finish(IF call.ok THEN "ok" ELSE "failed")
  ELSE call' = [call EXCEPT !.at = @ + 1, !.pc = IF call.kind = "deletions" THEN @ ELSE "digest"]

(* combine_result: any complaint about the evidence turns the reply into an error. *)
AfterSettle(complaint) ==
  LET failed == ~call.ok \/ call.complaint \/ complaint
  IN CASE call.kind = "deletions" /\ ~Last(call) ->
            call' = [call EXCEPT !.at = @ + 1, !.complaint = @ \/ complaint]
       [] ~Last(call) /\ (call.kind = "refusal" \/ (call.kind = "batch" /\ ~failed)) ->
            call' = [call EXCEPT !.at = @ + 1, !.pc = "digest"]
       [] OTHER -> Finish(IF call.kind = "refusal" THEN "refused" ELSE IF failed THEN "failed" ELSE "ok")

Settle ==
  /\ At("settle")
  /\ \E after \in {state[Target(call)]} \cup (IF DigestFaults THEN {None} ELSE {}) :
       \/ journal' = Appended(journal, Verdict(after)) /\ AfterSettle(after = None)
       \/ journal' \in Broken(journal, Verdict(after)) /\ AfterSettle(TRUE)
  /\ UNCHANGED <<state, next, mutated, worked, disturbed>>

Return ==
  /\ At("done")
  /\ call' = None
  /\ UNCHANGED <<state, journal, next, mutated, worked, disturbed>>

(* The server dies, possibly in the middle of an append. *)
Kill ==
  /\ MayCrash
  /\ call # None
  /\ \/ UNCHANGED <<journal, next>>
     \/ /\ At("begin")
        /\ ~OutOfTurn
        /\ journal' \in {BeginInto} \cup Broken(BeginInto, BeginLine(next, Target(call)))
        /\ next' = next + 1
     \/ /\ At("settle")
        /\ journal' \in Broken(journal, Verdict(state[Target(call)]))
        /\ UNCHANGED next
  /\ call' = None
  /\ UNCHANGED <<state, mutated, worked, disturbed>>

OtherWrite ==
  /\ Others
  /\ \E t \in Targets, d \in Digests : state' = [state EXCEPT ![t] = d]
  /\ disturbed' = IF call = None THEN disturbed
                  ELSE disturbed \cup ((Range(call.ids) \cup (IF At("begin") THEN {next} ELSE {})) \cap Ids)
  /\ UNCHANGED <<journal, next, call, mutated, worked>>

Next ==
  \/ Start \/ Reserve \/ DigestBefore \/ Begin \/ Unwind \/ Work \/ Settle \/ Return
  \/ Kill \/ OtherWrite

Spec == Init /\ [][Next]_vars

-----------------------------------------------------------------------------
CallType ==
  [kind: Kinds, targets: Seq(Targets), at: Nat,
   pc: {"reserve", "digest", "begin", "unwind", "work", "settle", "done"},
   ids: Seq(Ids \cup {None}), before: Seq(Digests \cup {None}), ok: BOOLEAN, complaint: BOOLEAN,
   reply: {None, "ok", "refused", "failed"}]

TypeOK ==
  /\ state \in [Targets -> Digests]
  /\ journal \in Journal
  /\ next \in 1..MaxAttempts + 1
  /\ call = None \/ call \in CallType
  /\ {mutated, worked, disturbed} \subseteq SUBSET Ids

(* The attempts of the running call that are between begin and settle. *)
Open ==
  {call.ids[i] : i \in (IF call.kind = "deletions" /\ call.pc = "work" THEN 1 ELSE call.at)..Len(call.ids)}

(***************************************************************************)
(* A mutation never runs without readable evidence: from before it starts  *)
(* until it is settled, the journal reports it as interrupted              *)
(* (safety-contract rule 24, receipt.rs:3-5).                              *)
(***************************************************************************)
EvidenceBeforeMutation == At("work") \/ At("settle") => Open \subseteq Interrupted

(***************************************************************************)
(* Evidence of an interrupted attempt is never lost: no rotation, batch or *)
(* later call removes it, only the settling of that very attempt does.     *)
(***************************************************************************)
EvidenceKept ==
  [][\A id \in Interrupted :
       \/ id \in Interrupted'
       \/ (At("settle") \/ At("unwind")) /\ id = call.ids[call.at]]_vars

(***************************************************************************)
(* A receipt does not lie: "applied" only if the tool reported success,    *)
(* "refused" only if the attempt changed nothing.  (Another writer who     *)
(* restores the old bytes in between can make a change look like none.)    *)
(***************************************************************************)
HonestOutcome ==
  /\ Settled("applied") \subseteq worked
  /\ Settled("refused") \cap mutated \subseteq disturbed

(***************************************************************************)
(* The reply agrees with the journal: "ok" means that every target has a   *)
(* readable "applied" receipt, "refused" that nothing was changed.         *)
(***************************************************************************)
HonestReply ==
  At("done") =>
    LET ids == {call.ids[i] : i \in 1..Len(call.ids)}
    IN /\ call.reply = "ok" => Len(call.ids) = Len(call.targets) /\ ids \subseteq Settled("applied")
       /\ call.reply = "refused" => ids \cap mutated = {}

(***************************************************************************)
(* What a receipt says happened did happen, and the reply agrees with the  *)
(* journal (HonestOutcome and HonestReply).                                *)
(***************************************************************************)
HonestRecords == TypeOK /\ HonestOutcome /\ HonestReply

(***************************************************************************)
(* What a batch reserves is enough: while it runs, the journal stays       *)
(* within its capacity and keeps the receipts of the files already written *)
(* (receipt.rs:395-398: no rotation between the entries of a batch).       *)
(***************************************************************************)
BatchReservation ==
  call # None /\ call.kind \in {"batch", "refusal"} /\ call.pc \in {"digest", "begin", "work", "settle"} =>
    /\ Bytes(journal) <= Capacity
    /\ call.kind = "batch" => \A i \in 1..call.at - 1 : call.ids[i] \in Settled("applied")
=============================================================================
