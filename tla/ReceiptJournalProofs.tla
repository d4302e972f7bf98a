------------------------ MODULE ReceiptJournalProofs ------------------------
(***************************************************************************)
(* Proofs of the safety of ReceiptJournal, for any number of calls,        *)
(* targets and records and any capacity, as long as a failing append does  *)
(* not leave part of its record (Tearing): evidence precedes every         *)
(* mutation and is kept, receipts and replies are true, and what a batch   *)
(* reserves is enough.                                                     *)
(***************************************************************************)
EXTENDS ReceiptJournal, FiniteSetTheorems, TLAPS

(* The same readings of any set of lines. *)
BegunIn(ls) == {r.id : r \in {l \in ls : l.record = "begin"}}
SettledIn(ls, o) == {r.id : r \in {l \in ls : l.record = "settle" /\ l.outcome = o}} \cap BegunIn(ls)
InterruptedIn(ls) == BegunIn(ls) \ UNION {SettledIn(ls, o) : o \in Outcomes}

(* Every line is whole, and names an attempt before the n-th. *)
Whole(j, n) ==
  /\ j \in Journal /\ j.tail = None /\ j.junk = 0 /\ IsFiniteSet(j.lines)
  /\ \A l \in j.lines : l.id < n

WholeLines == Whole(journal, next) /\ \A id \in mutated \cup worked : id < next

(* How far a call has come, and what it has noted of the targets before that. *)
Shape ==
  call # None =>
    /\ call.at >= 1 /\ call.at <= Len(call.targets)
    /\ call.kind = "single" => Len(call.targets) = 1
    /\ call.pc = "reserve" => call.kind \in {"batch", "refusal"} /\ call.at = 1 /\ call.ids = <<>> /\ call.before = <<>>
    /\ call.pc \in {"digest", "begin"} => Len(call.ids) = call.at - 1
    /\ call.pc = "digest" => Len(call.before) = call.at - 1
    /\ call.pc = "begin" => Len(call.before) = call.at
    /\ call.pc \in {"work", "settle"} =>
         /\ Len(call.before) = Len(call.ids)
         /\ Len(call.ids) = IF call.kind = "deletions" THEN Len(call.targets) ELSE call.at
    /\ call.pc = "unwind" =>
         call.kind = "deletions" /\ call.at <= Len(call.ids) /\ Len(call.ids) <= Len(call.targets)
    /\ call.pc = "work" => call.kind # "refusal"
    /\ call.kind = "refusal" => ~call.ok
    /\ call.kind # "refusal" /\ call.pc \notin {"settle", "done"} => call.ok

(* Attempts are left for the targets that are still to begin. *)
Room ==
  call # None =>
    /\ call.pc \in {"reserve", "digest", "begin"} => next + Len(call.targets) - call.at <= MaxAttempts
    /\ call.pc \in {"work", "settle"} /\ call.kind \in {"batch", "refusal"} =>
         next + Len(call.targets) - call.at <= MaxAttempts + 1

(* The attempts of a call are different ones; only a refusal skips targets. *)
OwnIds ==
  call # None =>
    /\ \A i \in 1..Len(call.ids) : call.ids[i] # None => call.ids[i] < next
    /\ \A i, j \in 1..Len(call.ids) : call.ids[i] = call.ids[j] /\ call.ids[i] # None => i = j
    /\ call.kind # "refusal" => \A i \in 1..Len(call.ids) : call.ids[i] # None
    /\ call.kind = "refusal" /\ call.pc = "settle" => call.ids[call.at] # None

(* The first attempt of the call that is not settled yet. *)
From == IF call.kind = "deletions" /\ call.pc \notin {"settle", "unwind"} THEN 1 ELSE call.at

Running == call # None /\ call.pc \in {"digest", "begin", "unwind", "work", "settle"}

(* What is not settled yet is interrupted, what was settled with success says so. *)
Evidence ==
  Running =>
    /\ \A i \in From..Len(call.ids) : call.ids[i] \in Interrupted
    /\ call.kind = "batch" => \A i \in 1..call.at - 1 : call.ids[i] \in Settled("applied")
    /\ call.kind = "deletions" /\ call.pc = "settle" /\ call.ok /\ ~call.complaint =>
         \A i \in 1..call.at - 1 : call.ids[i] \in Settled("applied")

(* What the attempts of the call have done. *)
Effects ==
  call # None =>
    /\ call.kind = "refusal" \/ (call.kind = "deletions" /\ call.pc \in {"digest", "begin", "unwind"}) =>
         \A i \in 1..Len(call.ids) : call.ids[i] \notin mutated
    /\ call.kind = "deletions" /\ call.pc = "work" => \A i \in 1..call.at - 1 : call.ids[i] \in worked
    /\ call.kind # "deletions" /\ call.pc = "work" => call.ids[call.at] \notin mutated
    /\ call.pc = "settle" /\ call.ok => \A i \in call.at..Len(call.ids) : call.ids[i] \in worked

(* What the digest taken first says of a target, unless others wrote since. *)
Digested ==
  /\ call # None /\ call.pc = "begin" /\ next \notin disturbed => state[Target(call)] = call.before[call.at]
  /\ Running =>
       \A i \in From..Len(call.ids) :
         call.ids[i] \notin disturbed =>
           IF call.kind = "deletions"
             THEN IF call.ids[i] \in mutated
                    THEN call.before[i] # Absent /\ state[call.targets[i]] = Absent
                    ELSE state[call.targets[i]] \in {call.before[i], Absent}
             ELSE call.ids[i] \in mutated <=> state[call.targets[i]] # call.before[i]

(* Only a refusal goes on without the digest of a target. *)
Seen == call # None /\ call.kind # "refusal" => \A i \in 1..Len(call.before) : call.before[i] # None

(* Room in the journal for the records of a batch that are still to be written. *)
Space ==
  Running /\ call.kind \in {"batch", "refusal"} =>
    Bytes(journal) + 2 * (Len(call.targets) - call.at)
      + (IF call.pc \in {"digest", "begin"} THEN 2 ELSE 1) <= Capacity

(* The targets and the journal, apart from any call. *)
World ==
  /\ state \in [Targets -> Digests] /\ next \in 1..MaxAttempts + 1
  /\ mutated \subseteq Ids /\ worked \subseteq Ids /\ disturbed \subseteq Ids
  /\ WholeLines /\ HonestOutcome

Typed == call = None \/ call \in CallType

IInv ==
  /\ World /\ Typed /\ Shape /\ Room /\ OwnIds /\ Evidence /\ Effects /\ Digested /\ Seen /\ Space
  /\ HonestReply

-----------------------------------------------------------------------------
(* How the journal reads after an append, and after a rotation. *)

LEMMA Constants ==
  /\ Capacity \in Nat /\ MaxAttempts \in Nat /\ Absent \in Digests
  /\ Calls \subseteq [kind: Kinds, targets: Seq(Targets)]
  /\ \A c \in Calls : Len(c.targets) > 0 /\ (c.kind = "single" => Len(c.targets) = 1)
  /\ None \notin Records /\ None \notin Digests /\ None \notin Ids
BY ConstantsAreSane

LEMMA WholeLinesAreRead ==
  ASSUME journal.tail = None
  PROVE  /\ Readable = journal.lines
         /\ \A o : Settled(o) = SettledIn(journal.lines, o)
         /\ Interrupted = InterruptedIn(journal.lines)
BY Constants DEF Readable, Begun, BegunIn, Settled, SettledIn, Interrupted, InterruptedIn

LEMMA WholeLinesAreReadNext ==
  ASSUME journal'.tail = None
  PROVE  /\ \A o : Settled(o)' = SettledIn(journal'.lines, o)
         /\ Interrupted' = InterruptedIn(journal'.lines)
BY Constants DEF Readable, Begun, BegunIn, Settled, SettledIn, Interrupted, InterruptedIn

LEMMA Members ==
  ASSUME NEW ls, NEW x
  PROVE  /\ x \in BegunIn(ls) <=> \E l \in ls : l.record = "begin" /\ l.id = x
         /\ \A o : x \in SettledIn(ls, o) <=>
                     x \in BegunIn(ls) /\ \E l \in ls : l.record = "settle" /\ l.outcome = o /\ l.id = x
         /\ x \in InterruptedIn(ls) <=> x \in BegunIn(ls) /\ \A o \in Outcomes : x \notin SettledIn(ls, o)
<1>1. x \in BegunIn(ls) <=> \E l \in ls : l.record = "begin" /\ l.id = x
  BY DEF BegunIn
<1>2. ASSUME NEW o
      PROVE  x \in SettledIn(ls, o) <=>
               x \in BegunIn(ls) /\ \E l \in ls : l.record = "settle" /\ l.outcome = o /\ l.id = x
  BY DEF SettledIn
<1>3. x \in InterruptedIn(ls) <=> x \in BegunIn(ls) /\ \A o \in Outcomes : x \notin SettledIn(ls, o)
  BY DEF InterruptedIn
<1>. QED  BY <1>1, <1>2, <1>3

LEMMA BeginsRead ==
  ASSUME NEW ls, NEW id, NEW t, \A l \in ls : l.id # id
  PROVE  /\ InterruptedIn(ls \cup {BeginLine(id, t)}) = InterruptedIn(ls) \cup {id}
         /\ \A o : SettledIn(ls \cup {BeginLine(id, t)}, o) = SettledIn(ls, o)
<1>. DEFINE r == BeginLine(id, t)
            new == ls \cup {r}
<1>. r.record = "begin" /\ r.id = id
  BY DEF BeginLine
<1>. HIDE DEF r
<1>1. \A x : x \in BegunIn(new) <=> x \in BegunIn(ls) \/ x = id
  BY Members
<1>2. id \notin BegunIn(ls)
  BY Members
<1>3. ASSUME NEW o
      PROVE  SettledIn(new, o) = SettledIn(ls, o) /\ id \notin SettledIn(ls, o)
  <2>1. ASSUME NEW x PROVE x \in SettledIn(new, o) <=> x \in SettledIn(ls, o)
    <3>1. x \in SettledIn(new, o) <=>
            x \in BegunIn(new) /\ \E l \in new : l.record = "settle" /\ l.outcome = o /\ l.id = x
      BY Members
    <3>2. x \in SettledIn(ls, o) <=>
            x \in BegunIn(ls) /\ \E l \in ls : l.record = "settle" /\ l.outcome = o /\ l.id = x
      BY Members
    <3>. QED  BY <1>1, <3>1, <3>2
  <2>2. id \notin SettledIn(ls, o)
    BY <1>2, Members
  <2>3. SettledIn(new, o) \subseteq BegunIn(new) /\ SettledIn(ls, o) \subseteq BegunIn(ls)
    BY DEF SettledIn
  <2>. QED  BY <2>1, <2>2, <2>3
<1>4. ASSUME NEW x PROVE x \in InterruptedIn(new) <=> x \in InterruptedIn(ls) \/ x = id
  <2>1. x \in InterruptedIn(new) <=> x \in BegunIn(new) /\ \A o \in Outcomes : x \notin SettledIn(new, o)
    BY Members
  <2>2. x \in InterruptedIn(ls) <=> x \in BegunIn(ls) /\ \A o \in Outcomes : x \notin SettledIn(ls, o)
    BY Members
  <2>. QED  BY <1>1, <1>3, <2>1, <2>2
<1>5. InterruptedIn(new) = InterruptedIn(ls) \cup {id}
  <2>1. InterruptedIn(new) \subseteq BegunIn(new) /\ InterruptedIn(ls) \subseteq BegunIn(ls)
    BY DEF InterruptedIn
  <2>. QED  BY <1>4, <2>1
<1>. QED  BY <1>3, <1>5 DEF r

LEMMA SettlesRead ==
  ASSUME NEW ls, NEW id \in InterruptedIn(ls), NEW o \in Outcomes
  PROVE  /\ InterruptedIn(ls \cup {SettleLine(id, o)}) = InterruptedIn(ls) \ {id}
         /\ SettledIn(ls \cup {SettleLine(id, o)}, o) = SettledIn(ls, o) \cup {id}
         /\ \A p : p # o => SettledIn(ls \cup {SettleLine(id, o)}, p) = SettledIn(ls, p)
<1>. DEFINE r == SettleLine(id, o)
            new == ls \cup {r}
<1>. r.record = "settle" /\ r.id = id /\ r.outcome = o
  BY DEF SettleLine
<1>. HIDE DEF r
<1>1. \A x : x \in BegunIn(new) <=> x \in BegunIn(ls)
  BY Members
<1>2. id \in BegunIn(ls)
  BY Members
<1>3. ASSUME NEW x, NEW p
      PROVE  x \in SettledIn(new, p) <=> x \in SettledIn(ls, p) \/ (x = id /\ p = o)
  <2>1. x \in SettledIn(new, p) <=>
          x \in BegunIn(new) /\ \E l \in new : l.record = "settle" /\ l.outcome = p /\ l.id = x
    BY Members
  <2>2. x \in SettledIn(ls, p) <=>
          x \in BegunIn(ls) /\ \E l \in ls : l.record = "settle" /\ l.outcome = p /\ l.id = x
    BY Members
  <2>. QED  BY <1>1, <1>2, <2>1, <2>2
<1>4. \A x : x \in InterruptedIn(new) <=> x \in InterruptedIn(ls) /\ x # id
  BY <1>1, <1>3, Members
<1>. QED  BY <1>3, <1>4 DEF r

LEMMA OthersRead ==
  ASSUME NEW ls, NEW id \in InterruptedIn(ls), NEW o \in Outcomes, NEW p, p # o
  PROVE  SettledIn(ls \cup {SettleLine(id, o)}, p) = SettledIn(ls, p)
BY SettlesRead

LEMMA RotationReads ==
  ASSUME NEW ls, NEW kept, kept = {l \in ls : l.record = "begin" /\ l.id \in InterruptedIn(ls)}
  PROVE  /\ InterruptedIn(kept) = InterruptedIn(ls)
         /\ \A o : SettledIn(kept, o) = {}
<1>1. \A x : x \in BegunIn(kept) <=> x \in InterruptedIn(ls)
  <2>1. \A x : x \in InterruptedIn(ls) => \E l \in ls : l.record = "begin" /\ l.id = x
    BY Members
  <2>. QED  BY <2>1, Members
<1>2. \A x, o : x \notin SettledIn(kept, o)
  BY Members
<1>3. \A x : x \in InterruptedIn(kept) <=> x \in InterruptedIn(ls)
  BY <1>1, <1>2, Members
<1>. QED  BY <1>2, <1>3

LEMMA Rotating ==
  ASSUME WholeLines, NEW j \in {journal, Rotated}
  PROVE  /\ Whole(j, next) /\ InterruptedIn(j.lines) = Interrupted
         /\ \A o : SettledIn(j.lines, o) \subseteq Settled(o)
<1>. USE DEF WholeLines, Whole
<1>1. CASE j = journal
  BY <1>1, WholeLinesAreRead
<1>2. CASE j = Rotated
  <2>. DEFINE kept == {l \in journal.lines : l.record = "begin" /\ l.id \in InterruptedIn(journal.lines)}
  <2>1. Rotated = Fresh(kept)
    BY WholeLinesAreRead DEF Rotated
  <2>2. kept \subseteq journal.lines
    OBVIOUS
  <2>3. InterruptedIn(kept) = Interrupted /\ \A o : SettledIn(kept, o) = {}
    BY RotationReads, WholeLinesAreRead
  <2>. HIDE DEF kept
  <2>4. j.lines = kept /\ j.tail = None /\ j.junk = 0 /\ j \in Journal
    BY <1>2, <2>1, <2>2 DEF Fresh, Journal
  <2>5. IsFiniteSet(kept)
    BY <2>2, FS_Subset
  <2>. QED  BY <2>2, <2>3, <2>4, <2>5
<1>. QED  BY <1>1, <1>2

LEMMA Appending ==
  ASSUME NEW j, NEW n \in Nat, NEW m \in Nat, Whole(j, m), m <= n, NEW r \in Records, r.id < n
  PROVE  /\ Whole(j, n) /\ Whole(Appended(j, r), n)
         /\ Appended(j, r).lines = j.lines \cup {r}
         /\ Bytes(j) \in Nat /\ Bytes(Appended(j, r)) \in Nat
         /\ Bytes(Appended(j, r)) <= Bytes(j) + 1
<1>. DEFINE k == [j EXCEPT !.lines = @ \cup {r}]
<1>1. Appended(j, r) = k
  BY DEF Appended, Whole
<1>2. /\ j.lines \subseteq Records /\ j.tail = None /\ j.junk = 0 /\ IsFiniteSet(j.lines) /\ j \in Journal
      /\ \A l \in j.lines : l.id < m
  BY DEF Whole, Journal
<1>3. k.lines = j.lines \cup {r} /\ k.tail = None /\ k.junk = 0 /\ k \in Journal
  BY <1>2 DEF Journal
<1>. HIDE DEF k
<1>4. \A l \in Records : l.id \in Nat
  BY DEF Records, Ids
<1>5. \A l \in j.lines : l.id < n
  BY <1>2, <1>4
<1>6. IsFiniteSet(k.lines) /\ Cardinality(k.lines) <= Cardinality(j.lines) + 1
      /\ Cardinality(k.lines) \in Nat /\ Cardinality(j.lines) \in Nat
  <2>1. /\ IsFiniteSet(j.lines \cup {r})
        /\ Cardinality(j.lines \cup {r}) = IF r \in j.lines THEN Cardinality(j.lines) ELSE Cardinality(j.lines) + 1
    BY <1>2, FS_AddElement
  <2>2. Cardinality(j.lines) \in Nat
    BY <1>2, FS_CardinalityType
  <2>. QED  BY <1>3, <2>1, <2>2
<1>7. Bytes(j) = Cardinality(j.lines) /\ Bytes(k) = Cardinality(k.lines)
  BY <1>2, <1>3, <1>6 DEF Bytes
<1>. QED  BY <1>1, <1>2, <1>3, <1>5, <1>6, <1>7 DEF Whole

(* What an append that fails leaves, when it is all or nothing. *)
LEMMA BrokenIsWhole ==
  ASSUME Tearing = FALSE, NEW j, NEW r, NEW k \in Broken(j, r)
  PROVE  k \in {j, Appended(j, r)}
BY DEF Broken

LEMMA BeginReads ==
  ASSUME WholeLines, next \in Ids, next' = next + 1, NEW t \in Targets, NEW j \in {journal, Rotated},
         journal' \in {journal, j, Appended(j, BeginLine(next, t))}
  PROVE  /\ Whole(journal', next')
         /\ Interrupted \subseteq Interrupted' /\ Interrupted' \subseteq Interrupted \cup {next}
         /\ \A o : Settled(o)' \subseteq Settled(o)
         /\ j = journal => /\ \A o : Settled(o)' = Settled(o)
                          /\ Bytes(journal) \in Nat /\ Bytes(journal') \in Nat
                          /\ Bytes(journal') <= Bytes(journal) + 1
         /\ journal' = Appended(j, BeginLine(next, t)) => next \in Interrupted'
<1>. DEFINE r == BeginLine(next, t)
<1>1. next \in Nat /\ next < next' /\ next <= next' /\ next' \in Nat
  BY DEF Ids
<1>2. r \in Records /\ r.id = next
  BY DEF Records, BeginLine
<1>3. /\ \A k \in {journal, j} : /\ Whole(k, next) /\ InterruptedIn(k.lines) = Interrupted
                                /\ \A o : SettledIn(k.lines, o) \subseteq Settled(o)
      /\ \A o : SettledIn(journal.lines, o) = Settled(o)
  BY Rotating, WholeLinesAreRead DEF WholeLines, Whole
<1>. journal' \in {journal, j, Appended(j, r)}
  OBVIOUS
<1>. HIDE DEF r
<1>4. ASSUME NEW k \in {journal, j}
      PROVE  /\ Whole(k, next') /\ Whole(Appended(k, r), next')
             /\ Appended(k, r).lines = k.lines \cup {r}
             /\ Bytes(k) \in Nat /\ Bytes(Appended(k, r)) \in Nat
             /\ Bytes(Appended(k, r)) <= Bytes(k) + 1
  <2>1. Whole(k, next) /\ r.id < next'
    BY <1>1, <1>2, <1>3
  <2>. QED  BY <1>1, <1>2, <2>1, Appending
<1>5. /\ Whole(journal', next')
      /\ Interrupted' = InterruptedIn(journal'.lines)
      /\ \A o : Settled(o)' = SettledIn(journal'.lines, o)
  <2>1. Whole(journal', next')
    BY <1>4
  <2>. QED  BY <2>1, WholeLinesAreReadNext DEF Whole
<1>6. CASE journal' \in {journal, j}
  <2>1. Interrupted' = Interrupted
    BY <1>3, <1>5, <1>6
  <2>2. \A o : Settled(o)' \subseteq Settled(o)
    BY <1>3, <1>5, <1>6
  <2>3. j = journal => \A o : Settled(o)' = Settled(o)
    BY <1>3, <1>5, <1>6
  <2>4. journal' # Appended(j, r)
    <3>1. j.lines \in SUBSET Records /\ r \notin j.lines
      BY <1>1, <1>2, <1>3 DEF Whole, Journal
    <3>2. Appended(j, r).lines # j.lines
      BY <1>4, <3>1
    <3>3. \A l \in journal.lines : l.id # next
      BY <1>1, <1>3 DEF Whole
    <3>4. Appended(j, r).lines # journal.lines
      BY <1>2, <1>4, <3>3
    <3>. QED  BY <1>6, <3>2, <3>4
  <2>5. journal' = journal \/ j # journal
    BY <1>6
  <2>. QED  BY <1>4, <1>5, <1>6, <2>1, <2>2, <2>3, <2>4, <2>5 DEF r
<1>7. CASE journal' = Appended(j, r)
  <2>1. \A l \in j.lines : l.id # next
    BY <1>1, <1>3 DEF Whole
  <2>2. /\ Interrupted' = InterruptedIn(j.lines) \cup {next}
        /\ \A o : Settled(o)' = SettledIn(j.lines, o)
    <3>1. journal'.lines = j.lines \cup {r}
      BY <1>4, <1>7
    <3>2. InterruptedIn(j.lines \cup {r}) = InterruptedIn(j.lines) \cup {next}
      BY <2>1, BeginsRead DEF r
    <3>3. \A o : SettledIn(j.lines \cup {r}, o) = SettledIn(j.lines, o)
      BY <2>1, BeginsRead DEF r
    <3>. QED  BY <1>5, <3>1, <3>2, <3>3
  <2>3. /\ InterruptedIn(j.lines) = Interrupted /\ \A o : SettledIn(j.lines, o) \subseteq Settled(o)
        /\ j = journal => \A o : SettledIn(j.lines, o) = Settled(o)
    BY <1>3
  <2>. QED  BY <1>4, <1>5, <1>7, <2>2, <2>3
<1>. QED  BY <1>6, <1>7

LEMMA SettleReads ==
  ASSUME WholeLines, next \in Nat, UNCHANGED next, NEW id \in Interrupted, id \in Ids, NEW o \in Outcomes,
         journal' \in {journal, Appended(journal, SettleLine(id, o))}
  PROVE  /\ Whole(journal', next')
         /\ Interrupted \ {id} \subseteq Interrupted' /\ Interrupted' \subseteq Interrupted
         /\ \A p : Settled(p) \subseteq Settled(p)' /\ (p # o => Settled(p)' = Settled(p))
         /\ Settled(o)' \subseteq Settled(o) \cup {id}
         /\ Bytes(journal) \in Nat /\ Bytes(journal') \in Nat /\ Bytes(journal') <= Bytes(journal) + 1
         /\ journal' = Appended(journal, SettleLine(id, o)) => id \in Settled(o)'
<1>. DEFINE r == SettleLine(id, o)
<1>1. r \in Records /\ r.id = id
  BY DEF Records, SettleLine
<1>2. Whole(journal, next) /\ next <= next
  BY DEF WholeLines
<1>3. Interrupted = InterruptedIn(journal.lines) /\ \A p : Settled(p) = SettledIn(journal.lines, p)
  BY <1>2, WholeLinesAreRead DEF Whole
<1>4. id < next
  <2>1. \E l \in journal.lines : l.id = id
    BY <1>3, Members
  <2>. QED  BY <1>2, <2>1 DEF Whole
<1>5. /\ Whole(Appended(journal, r), next) /\ Appended(journal, r).lines = journal.lines \cup {r}
      /\ Bytes(journal) \in Nat /\ Bytes(Appended(journal, r)) \in Nat
      /\ Bytes(Appended(journal, r)) <= Bytes(journal) + 1
  BY <1>1, <1>2, <1>4, Appending
<1>6. /\ Interrupted' = InterruptedIn(journal'.lines)
      /\ \A p : Settled(p)' = SettledIn(journal'.lines, p)
  BY <1>2, <1>5, WholeLinesAreReadNext DEF Whole
<1>7. /\ InterruptedIn(journal.lines \cup {r}) = InterruptedIn(journal.lines) \ {id}
      /\ SettledIn(journal.lines \cup {r}, o) = SettledIn(journal.lines, o) \cup {id}
      /\ \A p : p # o => SettledIn(journal.lines \cup {r}, p) = SettledIn(journal.lines, p)
  <2>1. id \in InterruptedIn(journal.lines)
    BY <1>3
  <2>2. InterruptedIn(journal.lines \cup {r}) = InterruptedIn(journal.lines) \ {id}
    BY <2>1, SettlesRead
  <2>3. SettledIn(journal.lines \cup {r}, o) = SettledIn(journal.lines, o) \cup {id}
    BY <2>1, SettlesRead
  <2>4. ASSUME NEW p, p # o PROVE SettledIn(journal.lines \cup {r}, p) = SettledIn(journal.lines, p)
    BY <2>1, <2>4, OthersRead
  <2>. QED  BY <2>2, <2>3, <2>4
<1>8. CASE journal' = Appended(journal, r)
  <2>1. Interrupted' = Interrupted \ {id} /\ Settled(o)' = Settled(o) \cup {id}
    BY <1>3, <1>5, <1>6, <1>7, <1>8
  <2>2. \A p : p # o => Settled(p)' = Settled(p)
    BY <1>3, <1>5, <1>6, <1>7, <1>8
  <2>. QED  BY <1>5, <1>8, <2>1, <2>2
<1>9. CASE journal' = journal /\ journal' # Appended(journal, r)
  <2>1. Interrupted' = Interrupted /\ \A p : Settled(p)' = Settled(p)
    BY <1>3, <1>6, <1>9
  <2>. QED  BY <1>2, <1>5, <1>9, <2>1
<1>. QED  BY <1>8, <1>9

LEMMA SameReads ==
  ASSUME UNCHANGED journal
  PROVE  /\ Interrupted' = Interrupted /\ \A o : Settled(o)' = Settled(o)
         /\ Bytes(journal') = Bytes(journal)
BY DEF Interrupted, Begun, Settled, Readable

LEMMA RotationIsRead ==
  ASSUME WholeLines, UNCHANGED next, journal' \in {journal, Rotated}
  PROVE  /\ Whole(journal', next') /\ Interrupted' = Interrupted
         /\ \A o : Settled(o)' \subseteq Settled(o)
<1>1. /\ Whole(journal', next) /\ InterruptedIn(journal'.lines) = Interrupted
      /\ \A o : SettledIn(journal'.lines, o) \subseteq Settled(o)
  BY Rotating
<1>2. /\ Interrupted' = InterruptedIn(journal'.lines)
      /\ \A o : Settled(o)' = SettledIn(journal'.lines, o)
  BY <1>1, WholeLinesAreReadNext DEF Whole
<1>. QED  BY <1>1, <1>2

-----------------------------------------------------------------------------
(* What every step relies on. *)

LEMMA Numbers ==
  ASSUME World
  PROVE  /\ MaxAttempts \in Nat /\ Capacity \in Nat /\ next \in Nat /\ next >= 1 /\ next <= MaxAttempts + 1
         /\ \A id \in Ids : id \in Nat /\ id # None
BY Constants DEF World, Ids

LEMMA Sequences ==
  ASSUME call # None, Typed, Shape
  PROVE  /\ call.targets \in Seq(Targets) /\ call.ids \in Seq(Ids \cup {None})
         /\ call.before \in Seq(Digests \cup {None})
         /\ Len(call.targets) \in Nat /\ Len(call.ids) \in Nat /\ Len(call.before) \in Nat /\ call.at \in Nat
         /\ call.at >= 1 /\ call.at <= Len(call.targets)
         /\ Target(call) \in Targets
         /\ \A i \in 1..Len(call.targets) : call.targets[i] \in Targets
         /\ \A i \in 1..Len(call.ids) : call.ids[i] \in Ids \cup {None}
         /\ \A i \in 1..Len(call.before) : call.before[i] \in Digests \cup {None}
<1>1. /\ call.targets \in Seq(Targets) /\ call.ids \in Seq(Ids \cup {None})
      /\ call.before \in Seq(Digests \cup {None}) /\ call.at \in Nat
  BY DEF Typed, CallType
<1>2. call.at >= 1 /\ call.at <= Len(call.targets)
  BY DEF Shape
<1>. QED  BY <1>1, <1>2 DEF Target

LEMMA InitIInv == Init => IInv
<1>. SUFFICES ASSUME Init PROVE IInv
  OBVIOUS
<1>1. Whole(journal, next)
  BY FS_EmptySet DEF Init, Whole, Fresh, Journal
<1>2. WholeLines
  BY <1>1 DEF Init, WholeLines
<1>3. HonestOutcome
  BY DEF Init, HonestOutcome, Settled, Begun, Readable, Fresh
<1>4. World
  BY <1>2, <1>3, Constants DEF Init, World
<1>. QED  BY <1>4 DEF Init, IInv, Typed, Shape, Room, OwnIds, Evidence, Running, Effects, Digested, Seen, Space,
          HonestReply, At

(* A step of the call alone. *)
LEMMA WorldStays ==
  ASSUME World, UNCHANGED <<state, journal, next, mutated, worked, disturbed>>
  PROVE  World'
<1>1. \A o : Settled(o)' = Settled(o)
  BY SameReads
<1>. QED  BY <1>1 DEF World, WholeLines, HonestOutcome

(* No call. *)
LEMMA IdleKeeps ==
  ASSUME World', call' = None
  PROVE  IInv'
BY DEF IInv, Typed, Shape, Room, OwnIds, Evidence, Running, Effects, Digested, Seen, Space, HonestReply, At

(* The end of a call, with a reply that holds. *)
LEMMA FinishKeeps ==
  ASSUME IInv, call # None, World', next <= next', mutated' = mutated,
         NEW r \in {"ok", "refused", "failed"}, Finish(r),
         r = "ok" => Len(call.ids) = Len(call.targets) /\ \A i \in 1..Len(call.ids) : call.ids[i] \in Settled("applied")',
         r = "refused" => \A i \in 1..Len(call.ids) : call.ids[i] \notin mutated
  PROVE  IInv'
<1>1. /\ call' \in CallType /\ call'.pc = "done" /\ call'.reply = r /\ call'.kind = call.kind
      /\ call'.targets = call.targets /\ call'.at = call.at /\ call'.ids = call.ids /\ call'.before = call.before
      /\ call'.ok = call.ok
  BY DEF IInv, Typed, CallType, Finish
<1>2. Typed' /\ Shape' /\ Room'
  BY <1>1 DEF IInv, Typed, Shape, Room
<1>3. Evidence' /\ Digested' /\ Space' /\ Effects'
  BY <1>1 DEF IInv, Effects, Evidence, Digested, Space, Running
<1>4. OwnIds'
  <2>1. next \in Nat /\ next' \in Nat
    BY Numbers, Constants DEF IInv, World
  <2>2. \A i \in 1..Len(call.ids) : call.ids[i] # None => call.ids[i] \in Nat
    BY Sequences, Numbers DEF IInv
  <2>. QED  BY <1>1, <2>1, <2>2 DEF IInv, OwnIds
<1>6. Seen'
  BY <1>1 DEF IInv, Seen
<1>5. HonestReply'
  BY <1>1 DEF HonestReply
<1>. QED  BY <1>2, <1>3, <1>4, <1>5, <1>6 DEF IInv

LEMMA StartKeeps ==
  ASSUME IInv, Start
  PROVE  IInv'
<1>1. PICK c \in Calls :
        /\ next + Len(c.targets) <= MaxAttempts + 1
        /\ call' = [kind |-> c.kind, targets |-> c.targets, at |-> 1,
                    pc |-> IF c.kind \in {"batch", "refusal"} THEN "reserve" ELSE "digest",
                    ids |-> <<>>, before |-> <<>>, ok |-> c.kind # "refusal", complaint |-> FALSE, reply |-> None]
  BY DEF Start
<1>2. /\ c.kind \in Kinds /\ c.targets \in Seq(Targets) /\ Len(c.targets) \in Nat /\ Len(c.targets) >= 1
      /\ c.kind = "single" => Len(c.targets) = 1
  BY Constants
<1>3. /\ call'.kind = c.kind /\ call'.targets = c.targets /\ call'.at = 1 /\ call'.ids = <<>> /\ call'.before = <<>>
      /\ Len(call'.ids) = 0 /\ Len(call'.before) = 0
      /\ call'.pc = IF c.kind \in {"batch", "refusal"} THEN "reserve" ELSE "digest"
      /\ call'.ok = (c.kind # "refusal")
  BY <1>1
<1>4. call' \in CallType
  BY <1>1, <1>2 DEF CallType
<1>5. World' /\ next' = next /\ next \in Nat /\ MaxAttempts \in Nat
  BY WorldStays, Numbers DEF Start, IInv
<1>6. Typed' /\ Shape'
  <2>1. Typed'
    BY <1>4 DEF Typed
  <2>2. call'.pc \in {"reserve", "digest"} /\ (call'.pc = "reserve" => c.kind \in {"batch", "refusal"})
    BY <1>3
  <2>3. (c.kind = "refusal" => ~call'.ok) /\ (c.kind # "refusal" => call'.ok)
    BY <1>3
  <2>4. call'.at >= 1 /\ call'.at <= Len(call'.targets) /\ call'.at - 1 = 0
    BY <1>2, <1>3
  <2>. QED  BY <1>2, <1>3, <2>1, <2>2, <2>3, <2>4 DEF Shape
<1>7. Room'
  BY <1>1, <1>2, <1>3, <1>5 DEF Room
<1>8. OwnIds' /\ Evidence' /\ Effects' /\ Digested' /\ Seen' /\ Space' /\ HonestReply'
  BY <1>2, <1>3 DEF OwnIds, Evidence, Effects, Digested, Seen, Space, HonestReply, Running, From, At, Kinds
<1>. QED  BY <1>5, <1>6, <1>7, <1>8 DEF IInv

LEMMA WholeBytes ==
  ASSUME NEW j, NEW n, Whole(j, n)
  PROVE  Bytes(j) \in Nat
BY FS_CardinalityType DEF Whole, Bytes

LEMMA ReserveKeeps ==
  ASSUME IInv, Reserve
  PROVE  IInv'
<1>. DEFINE needed == 2 * Len(call.targets)
<1>1. /\ call # None /\ call.pc = "reserve" /\ call.kind \in {"batch", "refusal"}
      /\ call.at = 1 /\ call.ids = <<>> /\ call.before = <<>> /\ Len(call.ids) = 0 /\ Len(call.before) = 0
  BY DEF Reserve, At, IInv, Shape
<1>2. /\ journal' \in {journal, Rotated}
      /\ UNCHANGED <<state, next, mutated, worked, disturbed>>
  BY DEF Reserve
<1>3. Whole(journal', next') /\ Interrupted' = Interrupted /\ \A o : Settled(o)' \subseteq Settled(o)
  BY <1>2, RotationIsRead DEF IInv, World
<1>4. World' /\ Bytes(journal') \in Nat
  BY <1>2, <1>3, WholeBytes DEF IInv, World, WholeLines, HonestOutcome
<1>5. next \in Nat /\ MaxAttempts \in Nat /\ Capacity \in Nat
  BY Numbers DEF IInv
<1>6. Finish("refused") \/ (Bytes(journal') + needed <= Capacity /\ Goto("digest"))
  <2>1. CASE Bytes(journal') + needed <= Capacity
    BY <2>1 DEF Reserve
  <2>2. CASE ~(Bytes(journal') + needed <= Capacity)
    <3>1. Bytes(journal') + needed > Capacity
      BY <1>4, <1>5, <2>2, Sequences, <1>1 DEF IInv
    <3>. QED  BY <3>1 DEF Reserve
  <2>. QED  BY <2>1, <2>2
<1>7. CASE Finish("refused")
  BY <1>1, <1>2, <1>4, <1>5, <1>7, FinishKeeps
<1>8. CASE Bytes(journal') + needed <= Capacity /\ Goto("digest")
  <2>1. /\ call' \in CallType /\ call'.pc = "digest" /\ call'.kind = call.kind /\ call'.targets = call.targets
        /\ call'.at = 1 /\ call'.ids = <<>> /\ call'.before = <<>> /\ call'.ok = call.ok
        /\ Len(call'.ids) = 0 /\ Len(call'.before) = 0
    BY <1>1, <1>8 DEF IInv, Typed, CallType, Goto
  <2>2. Len(call.targets) \in Nat /\ Len(call.targets) >= 1
    BY <1>1, Sequences DEF IInv
  <2>3. Typed' /\ Shape'
    <3>1. call'.at - 1 = 0 /\ call'.at >= 1 /\ call'.at <= Len(call'.targets)
      BY <2>1, <2>2
    <3>. QED  BY <1>1, <2>1, <3>1 DEF IInv, Typed, Shape
  <2>4. Room'
    BY <1>1, <1>2, <2>1 DEF IInv, Room
  <2>5. OwnIds' /\ Evidence' /\ Effects' /\ Digested' /\ Seen' /\ HonestReply'
    BY <1>1, <2>1 DEF OwnIds, Evidence, Effects, Digested, Seen, HonestReply, Running, From, At
  <2>6. Space'
    BY <1>4, <1>5, <1>8, <2>1, <2>2 DEF Space
  <2>. QED  BY <1>4, <2>3, <2>4, <2>5, <2>6 DEF IInv
<1>. QED  BY <1>6, <1>7, <1>8

(* A refused call changed nothing; in a batch that is only sure of its first target. *)
LEMMA RefuseKeeps ==
  ASSUME IInv, call # None, World', next <= next', mutated' = mutated,
         call.pc \in {"digest", "begin", "unwind"}, Refuse
  PROVE  IInv'
<1>1. CASE call.kind = "batch" /\ call.at > 1
  BY <1>1, FinishKeeps DEF Refuse
<1>2. CASE ~(call.kind = "batch" /\ call.at > 1)
  <2>1. Finish("refused")
    BY <1>2 DEF Refuse
  <2>2. \A i \in 1..Len(call.ids) : call.ids[i] \notin mutated
    <3>1. CASE call.kind \in {"refusal", "deletions"}
      BY <3>1 DEF IInv, Effects
    <3>2. CASE call.kind \in {"single", "batch"}
      <4>1. call.pc \in {"digest", "begin"} /\ Len(call.ids) = call.at - 1
        BY <3>2 DEF IInv, Shape
      <4>2. call.at <= 1
        BY <1>2, <3>2, Sequences DEF IInv, Shape
      <4>. QED  BY <4>1, <4>2, Sequences DEF IInv
    <3>3. call.kind \in Kinds
      BY DEF IInv, Typed, CallType
    <3>. QED  BY <3>1, <3>2, <3>3 DEF Kinds
  <2>. QED  BY <2>1, <2>2, FinishKeeps
<1>. QED  BY <1>1, <1>2

(* What a new entry of a sequence leaves of the entries before it. *)
LEMMA AppendedTo ==
  ASSUME NEW S, NEW q \in Seq(S), NEW x \in S, NEW p, p = Append(q, x)
  PROVE  /\ p \in Seq(S) /\ Len(p) = Len(q) + 1 /\ p[Len(p)] = x
         /\ \A i \in 1..Len(p) : i = Len(p) \/ (i \in 1..Len(q) /\ p[i] = q[i])
         /\ \A i \in 1..Len(q) : i \in 1..Len(p) /\ i # Len(p) /\ p[i] = q[i]
OBVIOUS

(* A refusal that has no receipt for its target goes on to the next one. *)
Skips(b) ==
  /\ call # None /\ call.kind = "refusal" /\ call.pc \in {"digest", "begin"}
  /\ next' \in {next, next + 1}
  /\ b \in Seq(Digests \cup {None}) /\ Len(b) = call.at
  /\ Skip(b)

LEMMA SkipKeeps ==
  ASSUME IInv, World', mutated' = mutated,
         Bytes(journal') \in Nat, Bytes(journal') <= Bytes(journal) + 1, Bytes(journal) \in Nat,
         NEW b, Skips(b)
  PROVE  IInv'
<1>1. next \in Nat /\ MaxAttempts \in Nat /\ Capacity \in Nat /\ next' \in Nat
      /\ next <= next' /\ next' <= next + 1
  BY Numbers, Constants DEF IInv, World, Skips
<1>2. CASE Last(call)
  BY <1>1, <1>2, RefuseKeeps DEF Skip, Skips
<1>3. CASE ~Last(call)
  <2>1. Len(call.targets) \in Nat /\ call.at \in Nat /\ call.at >= 1 /\ call.at < Len(call.targets)
    BY <1>3, Sequences DEF IInv, Last, Skips
  <2>12. /\ call.ids \in Seq(Ids \cup {None}) /\ Len(call.ids) = call.at - 1 /\ Len(call.ids) \in Nat
    BY <1>3, Sequences DEF IInv, Last, Shape, Skips
  <2>0. call \in CallType /\ call # None
    BY DEF IInv, Typed, Skips
  <2>2. call' = [call EXCEPT !.at = @ + 1, !.pc = "digest", !.ids = Append(@, None), !.before = b]
    BY <1>3 DEF Skip, Skips
  <2>3. call'.ids = Append(call.ids, None)
    BY <2>0, <2>2 DEF CallType
  <2>4. /\ call'.ids \in Seq(Ids \cup {None}) /\ Len(call'.ids) = call.at /\ call'.ids[call.at] = None
        /\ \A i \in 1..call.at : i = call.at \/ (i \in 1..Len(call.ids) /\ call'.ids[i] = call.ids[i])
    BY <2>1, <2>12, <2>3, AppendedTo
  <2>5. /\ call' \in CallType /\ call'.pc = "digest" /\ call'.kind = "refusal" /\ call'.targets = call.targets
        /\ call'.at = call.at + 1 /\ call'.before = b /\ call'.ok = call.ok
    <3>1. b \in Seq(Digests \cup {None}) /\ call.kind = "refusal" /\ call.at + 1 \in Nat
      BY <2>1 DEF Skips
    <3>2. Append(call.ids, None) \in Seq(Ids \cup {None})
      BY <2>3, <2>4
    <3>. QED  BY <2>0, <2>2, <3>1, <3>2 DEF CallType
  <2>6. Typed' /\ Shape'
    BY <2>0, <2>1, <2>4, <2>5 DEF IInv, Typed, Shape, Skips
  <2>7. Room'
    <3>1. next + Len(call.targets) - call.at <= MaxAttempts
      BY DEF IInv, Room, Skips
    <3>2. next' + Len(call.targets) - (call.at + 1) <= MaxAttempts
      BY <1>1, <2>1, <3>1
    <3>. QED  BY <2>5, <3>2 DEF Room
  <2>8. OwnIds'
    <3>1. /\ \A i \in 1..Len(call.ids) : call.ids[i] # None => call.ids[i] < next
          /\ \A i, j \in 1..Len(call.ids) : call.ids[i] = call.ids[j] /\ call.ids[i] # None => i = j
      BY <2>0 DEF IInv, OwnIds
    <3>2. \A i \in 1..Len(call.ids) : call.ids[i] # None => call.ids[i] \in Nat
      BY <2>0, Sequences, Numbers DEF IInv
    <3>3. \A i \in 1..call.at : call'.ids[i] # None => i \in 1..Len(call.ids) /\ call'.ids[i] = call.ids[i]
      BY <2>4
    <3>4. \A i \in 1..call.at : call'.ids[i] # None => call'.ids[i] < next'
      BY <1>1, <3>1, <3>2, <3>3
    <3>5. \A i, j \in 1..call.at : call'.ids[i] = call'.ids[j] /\ call'.ids[i] # None => i = j
      BY <3>1, <3>3
    <3>. QED  BY <2>4, <2>5, <3>4, <3>5 DEF OwnIds
  <2>9. Effects'
    <3>1. None \notin mutated'
      BY Constants DEF World
    <3>2. \A i \in 1..Len(call.ids) : call.ids[i] \notin mutated
      BY DEF IInv, Effects, Skips
    <3>. QED  BY <2>4, <2>5, <3>1, <3>2 DEF Effects
  <2>10. Evidence' /\ Digested' /\ Seen' /\ HonestReply'
    <3>1. \A i \in call.at + 1..call.at : FALSE
      BY <2>1
    <3>. QED  BY <2>4, <2>5, <3>1 DEF Evidence, Digested, Seen, HonestReply, From, At
  <2>11. Space'
    <3>1. Bytes(journal) + 2 * (Len(call.targets) - call.at) + 2 <= Capacity
      BY DEF IInv, Space, Running, Skips
    <3>2. Bytes(journal') + 2 * (Len(call.targets) - (call.at + 1)) + 2 <= Capacity
      <4>1. Bytes(journal') <= Bytes(journal) + 1 /\ Bytes(journal) \in Nat /\ Bytes(journal') \in Nat
        OBVIOUS
      <4>. DEFINE bytes == Bytes(journal)
                  bytesNext == Bytes(journal')
                  left == Len(call.targets) - call.at
      <4>2. left \in Nat /\ Len(call.targets) - (call.at + 1) = left - 1
        BY <2>1
      <4>3. bytes + 2 * left + 2 <= Capacity /\ bytes \in Nat /\ bytesNext \in Nat /\ bytesNext <= bytes + 1
        BY <3>1, <4>1
      <4>. HIDE DEF bytes, bytesNext, left
      <4>4. bytesNext + 2 * (left - 1) + 2 <= Capacity
        BY <1>1, <4>2, <4>3
      <4>. QED  BY <4>2, <4>4 DEF bytesNext
    <3>. QED  BY <2>5, <3>2 DEF Space
  <2>. QED  BY <2>6, <2>7, <2>8, <2>9, <2>10, <2>11 DEF IInv
<1>. QED  BY <1>2, <1>3

LEMMA DigestBeforeKeeps ==
  ASSUME IInv, DigestBefore
  PROVE  IInv'
<1>1. /\ call # None /\ call.pc = "digest" /\ UNCHANGED <<state, journal, next, mutated, worked, disturbed>>
      /\ Len(call.ids) = call.at - 1 /\ Len(call.before) = call.at - 1
  BY DEF DigestBefore, At, IInv, Shape
<1>2. World' /\ Bytes(journal) \in Nat /\ Bytes(journal') = Bytes(journal)
  BY <1>1, WorldStays, WholeBytes, SameReads DEF IInv, World, WholeLines
<1>3. next \in Nat
  BY Numbers DEF IInv
<1>4. /\ Len(call.targets) \in Nat /\ call.at \in Nat /\ call.at >= 1 /\ call.at <= Len(call.targets)
      /\ call.before \in Seq(Digests \cup {None}) /\ Target(call) \in Targets
  BY <1>1, Sequences DEF IInv
<1>5. CASE call' = [call EXCEPT !.pc = "begin", !.before = Append(@, state[Target(call)])]
  <2>1. call'.before = Append(call.before, state[Target(call)])
    BY <1>1, <1>5 DEF IInv, Typed, CallType
  <2>2. state[Target(call)] \in Digests
    BY <1>4 DEF IInv, World
  <2>3. /\ call'.before \in Seq(Digests \cup {None}) /\ Len(call'.before) = call.at
        /\ call'.before[call.at] = state[Target(call)]
        /\ \A i \in 1..Len(call.ids) : call'.before[i] = call.before[i]
        /\ \A i \in 1..call.at : i = call.at \/ (i \in 1..Len(call.before) /\ call'.before[i] = call.before[i])
    BY <1>1, <1>4, <2>1, <2>2, AppendedTo
  <2>4. /\ call' \in CallType /\ call'.pc = "begin" /\ call'.kind = call.kind /\ call'.targets = call.targets
        /\ call'.at = call.at /\ call'.ids = call.ids /\ call'.ok = call.ok
        /\ call'.targets[call'.at] = call.targets[call.at]
    BY <1>1, <1>5, <2>1, <2>3 DEF IInv, Typed, CallType
  <2>5. Typed' /\ Shape'
    BY <1>1, <1>4, <2>3, <2>4 DEF IInv, Typed, Shape
  <2>6. Room' /\ OwnIds'
    BY <1>1, <2>4 DEF IInv, Room, OwnIds
  <2>7. Evidence'
    BY <1>1, <2>4, SameReads DEF IInv, Evidence, Running, From
  <2>8. Effects' /\ Space' /\ HonestReply'
    BY <1>1, <1>2, <2>4 DEF IInv, Effects, Space, Running, HonestReply, At
  <2>9. Digested'
    <3>1. state'[Target(call')] = call'.before[call'.at]
      BY <1>1, <2>3, <2>4 DEF Target
    <3>2. From' = From /\ From \in Nat /\ From >= 1
      BY <1>1, <1>4, <2>4 DEF From
    <3>3. Digested
      BY DEF IInv
    <3>. QED  BY <1>1, <2>3, <2>4, <3>1, <3>2, <3>3 DEF Digested, Running
  <2>10. Seen'
    BY <1>1, <2>2, <2>3, <2>4, Constants DEF IInv, Seen
  <2>. QED  BY <1>2, <2>5, <2>6, <2>7, <2>8, <2>9, <2>10 DEF IInv
<1>6. CASE call.kind = "refusal" /\ Skip(Append(call.before, None))
  <2>1. Append(call.before, None) \in Seq(Digests \cup {None}) /\ Len(Append(call.before, None)) = call.at
    BY <1>1, <1>4, AppendedTo
  <2>2. Skips(Append(call.before, None))
    BY <1>1, <1>6, <2>1 DEF Skips
  <2>3. Bytes(journal') <= Bytes(journal) + 1
    BY <1>2
  <2>. QED  BY <1>1, <1>2, <2>2, <2>3, SkipKeeps
<1>7. CASE Refuse
  BY <1>1, <1>2, <1>3, <1>7, RefuseKeeps
<1>. QED  BY <1>5, <1>6, <1>7 DEF DigestBefore

(* Where a call goes on once its attempt has begun. *)
GoesOn ==
  \/ call.kind = "deletions" /\ ~Last(call) /\ call'.pc = "digest" /\ call'.at = call.at + 1
  \/ call.kind = "deletions" /\ Last(call) /\ call'.pc = "work" /\ call'.at = 1
  \/ call.kind = "refusal" /\ call'.pc = "settle" /\ call'.at = call.at
  \/ call.kind \in {"single", "batch"} /\ call'.pc = "work" /\ call'.at = call.at

(* The attempt that has begun joins those of the call. *)
Joins ==
  /\ call' \in CallType
  /\ call'.kind = call.kind /\ call'.targets = call.targets /\ call'.before = call.before /\ call'.ok = call.ok
  /\ Len(call'.ids) = call.at /\ call'.ids[call.at] = next
  /\ \A i \in 1..call.at : i = call.at \/ (i \in 1..Len(call.ids) /\ call'.ids[i] = call.ids[i])

(* The journal has the begin record; in a batch nothing else has changed there. *)
Recorded ==
  /\ At("begin") /\ next' = next + 1 /\ UNCHANGED <<state, mutated, worked, disturbed>>
  /\ Interrupted \subseteq Interrupted' /\ next \in Interrupted'
  /\ call.kind \in {"batch", "refusal"} =>
       /\ \A o : Settled(o)' = Settled(o)
       /\ Bytes(journal) \in Nat /\ Bytes(journal') \in Nat /\ Bytes(journal') <= Bytes(journal) + 1

LEMMA BegunKeeps ==
  ASSUME IInv, World', Recorded, Joins, GoesOn
  PROVE  IInv'
<1>1. /\ call # None /\ call.pc = "begin" /\ call.kind \in Kinds
      /\ Len(call.ids) = call.at - 1 /\ Len(call.before) = call.at
  BY DEF Recorded, At, IInv, Shape, Typed, CallType
<1>2. Len(call.targets) \in Nat /\ call.at \in Nat /\ call.at >= 1 /\ call.at <= Len(call.targets)
  BY <1>1, Sequences DEF IInv
<1>3. /\ next \in Nat /\ MaxAttempts \in Nat /\ Capacity \in Nat /\ next # None /\ next \notin mutated
      /\ next + Len(call.targets) - call.at <= MaxAttempts
  <2>1. next \in Ids
    BY <1>1, <1>2, Numbers DEF IInv, Room, Ids
  <2>2. next \notin mutated
    BY <2>1, Numbers DEF IInv, World, WholeLines
  <2>. QED  BY <1>1, <2>1, <2>2, Numbers DEF IInv, Room
<1>12. next' = next + 1 /\ UNCHANGED <<state, mutated, worked, disturbed>>
  BY DEF Recorded
<1>4. Typed' /\ Shape'
  BY <1>1, <1>2 DEF Joins, GoesOn, IInv, Typed, Shape, Last
<1>5. Room'
  <2>1. /\ call'.pc \in {"reserve", "digest", "begin"} => call'.at = call.at + 1
        /\ call'.pc \in {"work", "settle"} /\ call'.kind \in {"batch", "refusal"} => call'.at = call.at
    BY DEF Joins, GoesOn
  <2>2. /\ next' + Len(call.targets) - (call.at + 1) <= MaxAttempts
        /\ next' + Len(call.targets) - call.at <= MaxAttempts + 1
    BY <1>2, <1>3, <1>12
  <2>. QED  BY <2>1, <2>2 DEF Joins, Room
<1>6. OwnIds'
  <2>1. /\ \A i \in 1..Len(call.ids) : call.ids[i] # None => call.ids[i] < next
        /\ \A i, j \in 1..Len(call.ids) : call.ids[i] = call.ids[j] /\ call.ids[i] # None => i = j
        /\ call.kind # "refusal" => \A i \in 1..Len(call.ids) : call.ids[i] # None
    BY <1>1 DEF IInv, OwnIds
  <2>2. \A i \in 1..Len(call.ids) : call.ids[i] # None => call.ids[i] \in Nat
    BY <1>1, Sequences, Numbers DEF IInv
  <2>7. /\ call'.ids[call.at] = next
        /\ \A i \in 1..call.at : i = call.at \/ (i \in 1..Len(call.ids) /\ call'.ids[i] = call.ids[i])
    BY DEF Joins
  <2>3. \A i \in 1..call.at : call'.ids[i] # None => call'.ids[i] < next'
    <3>1. next < next' /\ next' \in Nat /\ next \in Nat
      BY <1>3, <1>12
    <3>2. ASSUME NEW i \in 1..Len(call.ids), call.ids[i] # None PROVE call.ids[i] < next'
      <4>1. call.ids[i] \in Nat /\ call.ids[i] < next
        BY <2>1, <2>2, <3>2
      <4>. QED  BY <3>1, <4>1
    <3>. QED  BY <2>7, <3>1, <3>2
  <2>4. \A i, j \in 1..call.at : call'.ids[i] = call'.ids[j] /\ call'.ids[i] # None => i = j
    <3>1. \A i \in 1..Len(call.ids) : call.ids[i] # next
      BY <1>3, <2>1, <2>2
    <3>. QED  BY <2>1, <2>7, <3>1
  <2>5. call.kind # "refusal" => \A i \in 1..call.at : call'.ids[i] # None
    BY <1>12, <1>3, <2>1 DEF Joins
  <2>6. call.kind = "refusal" => call'.ids[call'.at] # None
    BY <1>12, <1>3 DEF Joins, GoesOn
  <2>. QED  BY <2>3, <2>4, <2>5, <2>6 DEF Joins, OwnIds
<1>7. Evidence'
  <2>1. call.kind = "deletions" => \A i \in 1..call.at : call'.ids[i] \in Interrupted'
    BY <1>1, <1>2 DEF Recorded, Joins, IInv, Evidence, Running, From
  <2>2. \A i \in From'..call.at : call'.ids[i] \in Interrupted'
    <3>1. CASE call.kind = "deletions"
      <4>1. From' \in Nat /\ From' >= 1
        BY <1>2, <3>1 DEF Joins, GoesOn, From
      <4>. QED  BY <1>2, <2>1, <3>1, <4>1
    <3>2. CASE call.kind # "deletions"
      <4>1. From' = call.at
        BY <3>2 DEF Joins, GoesOn, From
      <4>. QED  BY <1>2, <4>1 DEF Joins, Recorded
    <3>. QED  BY <3>1, <3>2
  <2>3. call.kind = "batch" => \A i \in 1..call.at - 1 : call.ids[i] \in Settled("applied")
    BY <1>1 DEF IInv, Evidence, Running
  <2>4. call.kind = "batch" => \A i \in 1..call'.at - 1 : call'.ids[i] \in Settled("applied")'
    <3>1. call.kind = "batch" => call'.at = call.at /\ \A o : Settled(o)' = Settled(o)
      BY DEF GoesOn, Recorded
    <3>2. \A i \in 1..call.at - 1 : call'.ids[i] = call.ids[i]
      BY <1>2 DEF Joins
    <3>. QED  BY <2>3, <3>1, <3>2
  <2>. QED  BY <2>2, <2>4 DEF Joins, GoesOn, Evidence
<1>8. Effects'
  <2>1. call.kind \in {"refusal", "deletions"} => \A i \in 1..Len(call.ids) : call.ids[i] \notin mutated
    BY <1>1 DEF IInv, Effects
  <2>2. call.kind \in {"refusal", "deletions"} => \A i \in 1..call.at : call'.ids[i] \notin mutated'
    BY <1>12, <1>3, <2>1 DEF Joins
  <2>3. call'.pc = "settle" => ~call'.ok
    BY <1>1 DEF Joins, GoesOn, IInv, Shape
  <2>4. call'.pc = "work" /\ call'.kind = "deletions" => call'.at = 1
    BY DEF Joins, GoesOn
  <2>5. call'.pc = "work" /\ call'.kind # "deletions" => call'.ids[call'.at] \notin mutated'
    BY <1>12, <1>3 DEF Joins, GoesOn
  <2>. QED  BY <2>2, <2>3, <2>4, <2>5 DEF Joins, Effects
<1>9. Digested'
  <2>1. next \notin disturbed => state[call.targets[call.at]] = call.before[call.at]
    BY <1>1 DEF IInv, Digested, Target
  <2>2. CASE call.kind = "deletions"
    <3>1. From = 1 /\ Running
      BY <1>1, <2>2 DEF From, Running
    <3>2. ASSUME NEW i \in 1..call.at, call'.ids[i] \notin disturbed
          PROVE  IF call'.ids[i] \in mutated
                   THEN call.before[i] # Absent /\ state[call.targets[i]] = Absent
                   ELSE state[call.targets[i]] \in {call.before[i], Absent}
      <4>1. CASE i = call.at
        BY <1>12, <1>3, <2>1, <3>2, <4>1 DEF Joins
      <4>2. CASE i # call.at
        BY <2>2, <3>1, <3>2, <4>2 DEF Joins, IInv, Digested
      <4>. QED  BY <4>1, <4>2
    <3>3. call'.pc # "begin" /\ From' >= 1 /\ From' \in Nat
      BY <1>2, <2>2 DEF Joins, GoesOn, From
    <3>. QED  BY <1>12, <1>2, <2>2, <3>2, <3>3 DEF Joins, Digested
  <2>3. CASE call.kind # "deletions"
    <3>1. call'.pc # "begin" /\ From' = call.at
      BY <2>3 DEF Joins, GoesOn, From
    <3>2. \A i \in From'..Len(call'.ids) : i = call.at
      BY <1>2, <3>1 DEF Joins
    <3>. QED  BY <1>12, <1>3, <2>1, <2>3, <3>1, <3>2 DEF Joins, Digested
  <2>. QED  BY <2>2, <2>3
<1>10. Space'
  <2>1. SUFFICES ASSUME call.kind \in {"batch", "refusal"}
                 PROVE  Bytes(journal') + 2 * (Len(call.targets) - call.at) + 1 <= Capacity
    BY DEF Joins, GoesOn, Space
  <2>2. Bytes(journal) + 2 * (Len(call.targets) - call.at) + 2 <= Capacity
    BY <1>1, <2>1 DEF IInv, Space, Running
  <2>3. Bytes(journal) \in Nat /\ Bytes(journal') \in Nat /\ Bytes(journal') <= Bytes(journal) + 1
    BY <2>1 DEF Recorded
  <2>4. Len(call.targets) - call.at \in Nat
    BY <1>2
  <2>. QED  BY <1>3, <2>2, <2>3, <2>4
<1>11. HonestReply' /\ Seen'
  BY <1>1 DEF GoesOn, Joins, HonestReply, At, IInv, Seen
<1>. QED  BY <1>4, <1>5, <1>6, <1>7, <1>8, <1>9, <1>10, <1>11 DEF IInv

(* What a begin that fails, or a kill, leaves of the journal. *)
LEMMA BeginLeaves ==
  ASSUME Tearing = FALSE, IInv, At("begin"), next' = next + 1, UNCHANGED <<state, mutated, worked, disturbed>>,
         journal' \in {journal, BeginInto, Appended(BeginInto, BeginLine(next, Target(call)))}
  PROVE  /\ World' /\ Interrupted \subseteq Interrupted'
         /\ call.kind \in {"batch", "refusal"} =>
              /\ \A o : Settled(o)' = Settled(o)
              /\ Bytes(journal) \in Nat /\ Bytes(journal') \in Nat /\ Bytes(journal') <= Bytes(journal) + 1
         /\ journal' = Appended(BeginInto, BeginLine(next, Target(call))) => next \in Interrupted'
<1>1. /\ BeginInto \in {journal, Rotated}
      /\ call.kind \in {"batch", "refusal"} => BeginInto = journal
  BY DEF BeginInto
<1>2. /\ call # None /\ call.pc = "begin"
      /\ Len(call.targets) \in Nat /\ call.at \in Nat /\ call.at <= Len(call.targets) /\ Target(call) \in Targets
  BY Sequences DEF IInv, At
<1>3. next \in Ids /\ next \in Nat /\ next + 1 \in 1..MaxAttempts + 1
  <2>1. next + Len(call.targets) - call.at <= MaxAttempts
    BY <1>2 DEF IInv, Room
  <2>. QED  BY <1>2, <2>1, Numbers DEF IInv, Ids
<1>4. WholeLines
  BY DEF IInv, World
<1>. DEFINE j == BeginInto
            t == Target(call)
<1>5. j \in {journal, Rotated} /\ t \in Targets /\ journal' \in {journal, j, Appended(j, BeginLine(next, t))}
  BY <1>1, <1>2
<1>. HIDE DEF j, t
<1>6. /\ Whole(journal', next')
      /\ Interrupted \subseteq Interrupted'
      /\ \A o : Settled(o)' \subseteq Settled(o)
      /\ j = journal => /\ \A o : Settled(o)' = Settled(o)
                       /\ Bytes(journal) \in Nat /\ Bytes(journal') \in Nat
                       /\ Bytes(journal') <= Bytes(journal) + 1
      /\ journal' = Appended(j, BeginLine(next, t)) => next \in Interrupted'
  BY <1>3, <1>4, <1>5, BeginReads
<1>7. World'
  <2>1. \A id \in mutated' \cup worked' : id < next'
    BY <1>3, <1>4, Numbers DEF WholeLines, IInv, World
  <2>2. HonestOutcome'
    BY <1>6 DEF IInv, World, HonestOutcome
  <2>. QED  BY <1>3, <1>6, <2>1, <2>2 DEF IInv, World, WholeLines
<1>. QED  BY <1>1, <1>6, <1>7 DEF j, t

LEMMA BeginKeeps ==
  ASSUME Tearing = FALSE, IInv, Begin
  PROVE  IInv'
<1>. DEFINE r == BeginLine(next, Target(call))
            more == call.kind = "deletions" /\ ~Last(call)
<1>1. /\ At("begin") /\ call # None /\ call.pc = "begin" /\ next' = next + 1
      /\ UNCHANGED <<state, mutated, worked, disturbed>>
      /\ Len(call.ids) = call.at - 1 /\ Len(call.before) = call.at
  BY DEF Begin, At, IInv, Shape
<1>2. journal' \in {journal, BeginInto, Appended(BeginInto, r)}
  BY BrokenIsWhole DEF Begin, BrokenBegin
<1>3. /\ World' /\ Interrupted \subseteq Interrupted'
      /\ call.kind \in {"batch", "refusal"} =>
           /\ \A o : Settled(o)' = Settled(o)
           /\ Bytes(journal) \in Nat /\ Bytes(journal') \in Nat /\ Bytes(journal') <= Bytes(journal) + 1
      /\ journal' = Appended(BeginInto, r) => next \in Interrupted'
  BY <1>1, <1>2, BeginLeaves
<1>. HIDE DEF r
<1>4. next \in Nat /\ next <= next'
  BY <1>1, Numbers DEF IInv
<1>5. CASE /\ journal' = Appended(BeginInto, r)
           /\ call' = [call EXCEPT !.ids = Append(@, next),
                                   !.pc = IF more THEN "digest" ELSE IF call.kind = "refusal" THEN "settle" ELSE "work",
                                   !.at = IF more THEN @ + 1 ELSE IF call.kind = "deletions" THEN 1 ELSE @]
  <2>1. call \in CallType /\ call.at \in Nat /\ call.ids \in Seq(Ids \cup {None}) /\ call.kind \in Kinds
    BY <1>1 DEF IInv, Typed, CallType
  <2>2. next \in Ids
    BY <1>1, <1>4, Sequences, Numbers DEF IInv, Room, Ids
  <2>3. /\ Append(call.ids, next) \in Seq(Ids \cup {None})
        /\ Len(Append(call.ids, next)) = call.at /\ Append(call.ids, next)[call.at] = next
        /\ \A i \in 1..call.at : i = call.at \/ (i \in 1..Len(call.ids) /\ Append(call.ids, next)[i] = call.ids[i])
    BY <1>1, <2>1, <2>2, AppendedTo
  <2>9. PICK l \in {"digest", "settle", "work"}, a \in Nat :
          call' = [call EXCEPT !.ids = Append(call.ids, next), !.pc = l, !.at = a]
    <3>1. call.at + 1 \in Nat /\ 1 \in Nat
      BY <2>1
    <3>. QED  BY <1>5, <2>1, <3>1
  <2>4. call' \in CallType /\ call'.ids = Append(call.ids, next)
    BY <2>1, <2>3, <2>9 DEF CallType
  <2>5. call'.kind = call.kind /\ call'.targets = call.targets /\ call'.before = call.before /\ call'.ok = call.ok
    BY <2>1, <2>9 DEF CallType
  <2>6. Joins
    BY <2>3, <2>4, <2>5 DEF Joins
  <2>7. GoesOn
    BY <1>5, <2>1 DEF GoesOn, CallType, Kinds
  <2>8. Recorded
    BY <1>1, <1>3, <1>5 DEF Recorded
  <2>. QED  BY <1>3, <2>6, <2>7, <2>8, BegunKeeps
<1>6. CASE BeginFailed
  <2>1. CASE call.kind = "refusal"
    <3>1. Skips(call.before)
      BY <1>1, <1>6, <2>1, Sequences DEF BeginFailed, Skips, IInv
    <3>. QED  BY <1>1, <1>3, <2>1, <3>1, SkipKeeps
  <2>2. CASE call.kind # "refusal" /\ ~(call.kind = "deletions" /\ call.ids # <<>>)
    <3>1. Refuse
      BY <1>6, <2>2 DEF BeginFailed
    <3>. QED  BY <1>1, <1>3, <1>4, <3>1, RefuseKeeps
  <2>3. CASE call.kind = "deletions" /\ call.ids # <<>>
    <3>1. call' = [call EXCEPT !.at = 1, !.pc = "unwind"]
      BY <1>6, <2>3 DEF BeginFailed
    <3>2. /\ call' \in CallType /\ call'.pc = "unwind" /\ call'.at = 1 /\ call'.kind = "deletions"
          /\ call'.targets = call.targets /\ call'.ids = call.ids /\ call'.before = call.before /\ call'.ok = call.ok
      BY <1>1, <2>3, <3>1 DEF IInv, Typed, CallType
    <3>3. /\ call.ids \in Seq(Ids \cup {None}) /\ Len(call.ids) \in Nat /\ Len(call.ids) >= 1
          /\ Len(call.targets) \in Nat /\ Len(call.targets) >= 1 /\ call.at \in Nat /\ call.at >= 1
      BY <1>1, <2>3, Sequences DEF IInv
    <3>4. Typed' /\ Shape' /\ Room'
      BY <1>1, <2>3, <3>2, <3>3 DEF IInv, Typed, Shape, Room
    <3>5. OwnIds'
      <4>1. \A i \in 1..Len(call.ids) : call.ids[i] # None => call.ids[i] \in Nat
        BY <1>1, Sequences, Numbers DEF IInv
      <4>2. OwnIds /\ next' = next + 1
        BY <1>1 DEF IInv
      <4>3. \A i \in 1..Len(call.ids) : call.ids[i] # None => call.ids[i] < next'
        BY <1>1, <1>4, <4>1, <4>2 DEF OwnIds
      <4>. QED  BY <1>1, <2>3, <3>2, <4>2, <4>3 DEF OwnIds
    <3>6. From = 1 /\ From' = 1 /\ Running
      BY <1>1, <2>3, <3>2 DEF From, Running
    <3>7. Evidence'
      BY <1>3, <2>3, <3>2, <3>6 DEF IInv, Evidence
    <3>8. Effects' /\ Seen' /\ Space' /\ HonestReply'
      BY <1>1, <2>3, <3>2 DEF IInv, Effects, Seen, Space, HonestReply, At
    <3>9. Digested'
      BY <1>1, <2>3, <3>2, <3>6 DEF IInv, Digested
    <3>. QED  BY <1>3, <3>4, <3>5, <3>7, <3>8, <3>9 DEF IInv
  <2>. QED  BY <2>1, <2>2, <2>3
<1>. QED  BY <1>5, <1>6 DEF Begin, r

LEMMA InterruptedIds ==
  ASSUME World
  PROVE  /\ Interrupted \subseteq Ids
         /\ \A id \in Interrupted, o \in Outcomes : id \notin Settled(o)
<1>1. Readable \subseteq Records
  BY DEF World, WholeLines, Whole, Journal, Readable
<1>2. \A r \in Records : r.id \in Ids
  BY DEF Records
<1>3. Begun \subseteq Ids
  BY <1>1, <1>2 DEF Begun
<1>. QED  BY <1>3 DEF Interrupted

(* The attempt that is to be settled next. *)
LEMMA SettlesItsOwn ==
  ASSUME IInv, call # None, call.pc \in {"work", "settle", "unwind"}
  PROVE  /\ call.at \in 1..Len(call.ids) /\ call.ids[call.at] \in Interrupted /\ call.ids[call.at] \in Ids
         /\ \A i \in 1..Len(call.ids) : call.ids[i] = call.ids[call.at] => i = call.at
<1>1. /\ Len(call.targets) \in Nat /\ Len(call.ids) \in Nat /\ call.at \in Nat
      /\ call.at >= 1 /\ call.at <= Len(call.targets)
  BY Sequences DEF IInv
<1>2. call.at <= Len(call.ids)
  BY <1>1 DEF IInv, Shape
<1>3. From \in Nat /\ From <= call.at
  BY <1>1 DEF From
<1>4. call.ids[call.at] \in Interrupted
  BY <1>1, <1>2, <1>3 DEF IInv, Evidence, Running
<1>5. call.ids[call.at] \in Ids /\ None \notin Ids
  BY <1>4, InterruptedIds, Constants DEF IInv
<1>. QED  BY <1>1, <1>2, <1>4, <1>5 DEF IInv, OwnIds

(* What a settle leaves of the journal, when its outcome is true. *)
LEMMA SettleLeaves ==
  ASSUME IInv, call # None, call.pc \in {"settle", "unwind"}, NEW o \in Outcomes,
         UNCHANGED <<state, next, mutated, worked, disturbed>>,
         o = "applied" => call.ids[call.at] \in worked,
         (o = "refused" /\ call.ids[call.at] \in mutated) => call.ids[call.at] \in disturbed,
         journal' \in {journal, Appended(journal, SettleLine(call.ids[call.at], o))}
  PROVE  /\ World' /\ Interrupted \ {call.ids[call.at]} \subseteq Interrupted'
         /\ \A p : Settled(p) \subseteq Settled(p)'
         /\ Bytes(journal) \in Nat /\ Bytes(journal') \in Nat /\ Bytes(journal') <= Bytes(journal) + 1
         /\ journal' = Appended(journal, SettleLine(call.ids[call.at], o)) => call.ids[call.at] \in Settled(o)'
<1>. DEFINE id == call.ids[call.at]
<1>1. id \in Interrupted /\ id \in Ids
  BY SettlesItsOwn
<1>2. /\ o = "applied" => id \in worked
      /\ (o = "refused" /\ id \in mutated) => id \in disturbed
      /\ journal' \in {journal, Appended(journal, SettleLine(id, o))}
  OBVIOUS
<1>. HIDE DEF id
<1>3. WholeLines /\ next \in Nat /\ UNCHANGED next
  BY Numbers DEF IInv, World
<1>4. /\ Whole(journal', next')
      /\ Interrupted \ {id} \subseteq Interrupted'
      /\ \A p : Settled(p) \subseteq Settled(p)' /\ (p # o => Settled(p)' = Settled(p))
      /\ Settled(o)' \subseteq Settled(o) \cup {id}
      /\ Bytes(journal) \in Nat /\ Bytes(journal') \in Nat /\ Bytes(journal') <= Bytes(journal) + 1
      /\ journal' = Appended(journal, SettleLine(id, o)) => id \in Settled(o)'
  BY <1>1, <1>2, <1>3, SettleReads
<1>5. HonestOutcome'
  <2>1. Settled("applied") \subseteq worked /\ Settled("refused") \cap mutated \subseteq disturbed
    BY DEF IInv, World, HonestOutcome
  <2>2. Settled("applied")' \subseteq worked
    BY <1>2, <1>4, <2>1
  <2>3. Settled("refused")' \cap mutated \subseteq disturbed
    BY <1>2, <1>4, <2>1
  <2>. QED  BY <2>2, <2>3 DEF HonestOutcome
<1>6. World'
  BY <1>4, <1>5 DEF IInv, World, WholeLines
<1>. QED  BY <1>4, <1>6 DEF id

LEMMA UnwindKeeps ==
  ASSUME Tearing = FALSE, IInv, Unwind
  PROVE  IInv'
<1>1. /\ call # None /\ call.pc = "unwind" /\ call.kind = "deletions"
      /\ UNCHANGED <<state, next, mutated, worked, disturbed>>
      /\ Len(call.ids) <= Len(call.targets)
  BY DEF Unwind, At, IInv, Shape
<1>2. /\ call.at \in 1..Len(call.ids)
      /\ \A i \in 1..Len(call.ids) : call.ids[i] = call.ids[call.at] => i = call.at
  BY <1>1, SettlesItsOwn
<1>3. \A i \in 1..Len(call.ids) : call.ids[i] \notin mutated
  BY <1>1 DEF IInv, Effects
<1>4. World' /\ Interrupted \ {call.ids[call.at]} \subseteq Interrupted'
  <2>1. journal' \in {journal, Appended(journal, SettleLine(call.ids[call.at], "refused"))}
    BY BrokenIsWhole DEF Unwind
  <2>. QED  BY <1>1, <1>2, <1>3, <2>1, SettleLeaves DEF Outcomes
<1>5. next \in Nat
  BY Numbers DEF IInv
<1>6. CASE Refuse
  BY <1>1, <1>4, <1>5, <1>6, RefuseKeeps
<1>7. CASE call.at # Len(call.ids) /\ call' = [call EXCEPT !.at = @ + 1]
  <2>1. /\ Len(call.targets) \in Nat /\ Len(call.ids) \in Nat /\ call.at \in Nat
        /\ call.at >= 1 /\ call.at < Len(call.ids)
    BY <1>1, <1>2, <1>7, Sequences DEF IInv
  <2>2. /\ call' \in CallType /\ call'.pc = "unwind" /\ call'.kind = "deletions" /\ call'.at = call.at + 1
        /\ call'.targets = call.targets /\ call'.ids = call.ids /\ call'.before = call.before /\ call'.ok = call.ok
    <3>1. call \in CallType /\ call.at + 1 \in Nat
      BY <1>1, <2>1 DEF IInv, Typed
    <3>. QED  BY <1>1, <1>7, <3>1 DEF CallType
  <2>3. Typed' /\ Shape' /\ Room' /\ OwnIds'
    <3>1. call'.at >= 1 /\ call'.at <= Len(call.ids) /\ call'.at <= Len(call.targets)
      BY <1>1, <2>1, <2>2
    <3>5. call.ok
      BY <1>1 DEF IInv, Shape
    <3>2. Typed' /\ Shape'
      BY <1>1, <2>2, <3>1, <3>5 DEF Typed, Shape
    <3>3. Room'
      BY <2>2 DEF Room
    <3>4. OwnIds'
      BY <1>1, <2>2 DEF IInv, OwnIds
    <3>. QED  BY <3>2, <3>3, <3>4
  <2>4. From = call.at /\ From' = call.at + 1 /\ Running
    BY <1>1, <2>2 DEF From, Running
  <2>5. Evidence'
    <3>1. \A i \in call.at..Len(call.ids) : call.ids[i] \in Interrupted
      BY <2>4 DEF IInv, Evidence
    <3>2. \A i \in call.at + 1..Len(call.ids) : call.ids[i] \in Interrupted'
      BY <1>2, <1>4, <2>1, <3>1
    <3>. QED  BY <2>2, <2>4, <3>2 DEF Evidence
  <2>6. Digested'
    <3>1. \A i \in call.at + 1..Len(call.ids) : i \in call.at..Len(call.ids)
      BY <2>1
    <3>. QED  BY <1>1, <2>2, <2>4, <3>1 DEF IInv, Digested
  <2>7. Effects' /\ Seen' /\ Space' /\ HonestReply'
    BY <1>1, <2>2 DEF IInv, Effects, Seen, Space, HonestReply, At
  <2>. QED  BY <1>4, <2>3, <2>5, <2>6, <2>7 DEF IInv
<1>. QED  BY <1>6, <1>7 DEF Unwind

(* The mutation of one target, and where it leaves the call. *)
Mutates(d, ok) ==
  /\ state' = [state EXCEPT ![Target(call)] = d]
  /\ mutated' = IF d = state[Target(call)] THEN mutated ELSE mutated \cup {call.ids[call.at]}
  /\ worked' = IF ok THEN worked \cup {call.ids[call.at]} ELSE worked
  /\ UNCHANGED <<journal, next, disturbed>>
  /\ call' \in CallType /\ call'.kind = call.kind /\ call'.targets = call.targets
  /\ call'.ids = call.ids /\ call'.before = call.before
  /\ \/ ok /\ call.kind = "deletions" /\ ~Last(call) /\ call'.pc = "work" /\ call'.at = call.at + 1 /\ call'.ok = call.ok
     \/ call.kind = "deletions" /\ (ok => Last(call)) /\ call'.pc = "settle" /\ call'.at = 1 /\ call'.ok = ok
     \/ call.kind # "deletions" /\ call'.pc = "settle" /\ call'.at = call.at /\ call'.ok = ok

LEMMA WorkMutates ==
  ASSUME IInv, Work
  PROVE  \E d \in Digests, ok \in BOOLEAN :
           /\ call.kind = "deletions" => d \in {state[Target(call)], Absent}
           /\ Mutates(d, ok)
<1>1. /\ call # None /\ call \in CallType /\ call.at \in Nat /\ call.pc = "work" /\ Target(call) \in Targets
      /\ UNCHANGED <<journal, next, disturbed>>
  BY Sequences DEF Work, At, IInv, Typed
<1>2. PICK d \in {state[Target(call)]} \cup (IF call.kind = "deletions" THEN {Absent} ELSE Digests \ {Absent}),
           ok \in BOOLEAN :
        /\ state' = [state EXCEPT ![Target(call)] = d]
        /\ mutated' = IF d = state[Target(call)] THEN mutated ELSE mutated \cup {call.ids[call.at]}
        /\ worked' = IF ok THEN worked \cup {call.ids[call.at]} ELSE worked
        /\ call' = IF ok /\ call.kind = "deletions" /\ ~Last(call)
                     THEN [call EXCEPT !.at = @ + 1]
                     ELSE [call EXCEPT !.pc = "settle", !.ok = ok, !.at = IF call.kind = "deletions" THEN 1 ELSE @]
  BY DEF Work
<1>3. d \in Digests
  BY <1>1, <1>2, Constants DEF IInv, World
<1>4. call.kind = "deletions" => d \in {state[Target(call)], Absent}
  BY <1>2
<1>5. CASE ok /\ call.kind = "deletions" /\ ~Last(call)
  <2>1. call' = [call EXCEPT !.at = call.at + 1] /\ call.at + 1 \in Nat
    BY <1>1, <1>2, <1>5
  <2>2. /\ call' \in CallType /\ call'.kind = call.kind /\ call'.targets = call.targets /\ call'.pc = "work"
        /\ call'.ids = call.ids /\ call'.before = call.before /\ call'.at = call.at + 1 /\ call'.ok = call.ok
    BY <1>1, <2>1 DEF CallType
  <2>. QED  BY <1>1, <1>2, <1>3, <1>4, <1>5, <2>2 DEF Mutates
<1>6. CASE ~(ok /\ call.kind = "deletions" /\ ~Last(call))
  <2>1. PICK a \in Nat : /\ call' = [call EXCEPT !.pc = "settle", !.ok = ok, !.at = a]
                         /\ call.kind = "deletions" => a = 1
                         /\ call.kind # "deletions" => a = call.at
    BY <1>1, <1>2, <1>6
  <2>2. /\ call' \in CallType /\ call'.kind = call.kind /\ call'.targets = call.targets /\ call'.pc = "settle"
        /\ call'.ids = call.ids /\ call'.before = call.before /\ call'.at = a /\ call'.ok = ok
    BY <1>1, <2>1 DEF CallType
  <2>. QED  BY <1>1, <1>2, <1>3, <1>4, <1>6, <2>1, <2>2 DEF Mutates
<1>. QED  BY <1>5, <1>6

LEMMA WorkKeeps ==
  ASSUME IInv, Work
  PROVE  IInv'
<1>1. PICK d \in Digests, ok \in BOOLEAN :
        /\ call.kind = "deletions" => d \in {state[Target(call)], Absent}
        /\ Mutates(d, ok)
  BY WorkMutates
<1>. DEFINE id == call.ids[call.at]
            t == Target(call)
<1>2. /\ call # None /\ call.pc = "work" /\ call.kind \in Kinds /\ call.kind # "refusal"
      /\ Len(call.before) = Len(call.ids) /\ call.ok
      /\ call.kind = "deletions" => Len(call.ids) = Len(call.targets)
      /\ call.kind # "deletions" => Len(call.ids) = call.at
  BY DEF Work, At, IInv, Shape, Typed, CallType
<1>3. /\ id \in Interrupted /\ id \in Ids /\ call.at \in 1..Len(call.ids)
      /\ \A i \in 1..Len(call.ids) : call.ids[i] = id => i = call.at
  BY <1>2, SettlesItsOwn
<1>4. /\ Len(call.targets) \in Nat /\ Len(call.ids) \in Nat /\ call.at \in Nat
      /\ call.at >= 1 /\ call.at <= Len(call.targets) /\ t \in Targets /\ t = call.targets[call.at]
      /\ \A i \in 1..Len(call.targets) : call.targets[i] \in Targets
  BY <1>2, Sequences DEF IInv, Target
<1>5. /\ Interrupted' = Interrupted /\ \A o : Settled(o)' = Settled(o)
      /\ Bytes(journal') = Bytes(journal)
  BY <1>1, SameReads DEF Mutates
<1>6. /\ state' = [state EXCEPT ![t] = d] /\ state \in [Targets -> Digests]
      /\ mutated \subseteq mutated' /\ mutated' \subseteq mutated \cup {id}
      /\ worked \subseteq worked' /\ worked' \subseteq worked \cup {id}
      /\ d # state[t] => mutated' = mutated \cup {id}
      /\ d = state[t] => mutated' = mutated
      /\ ok => id \in worked'
      /\ UNCHANGED <<journal, next, disturbed>>
  BY <1>1 DEF Mutates, IInv, World
<1>7. World'
  <2>1. id < next
    BY <1>2, <1>3, Constants DEF IInv, OwnIds
  <2>2. WholeLines'
    BY <1>6, <2>1 DEF IInv, World, WholeLines
  <2>3. HonestOutcome'
    <3>1. id \notin Settled("refused")
      BY <1>3, InterruptedIds DEF IInv, Outcomes
    <3>. QED  BY <1>5, <1>6, <3>1 DEF IInv, World, HonestOutcome
  <2>. QED  BY <1>3, <1>4, <1>6, <2>2, <2>3 DEF IInv, World
<1>15. /\ call' \in CallType /\ call'.kind = call.kind /\ call'.targets = call.targets /\ call'.ids = call.ids
       /\ call'.before = call.before /\ call'.pc \in {"work", "settle"}
  BY <1>1 DEF Mutates
<1>16. /\ call'.at >= 1 /\ call'.at <= Len(call.targets)
       /\ call.kind # "deletions" => call'.at = call.at
  BY <1>1, <1>4 DEF Mutates, Last
<1>8. Typed' /\ Shape'
  <2>1. call.kind = "single" => Len(call.targets) = 1
    BY <1>2 DEF IInv, Shape
  <2>2. call'.pc = "work" => call'.ok
    BY <1>1, <1>2 DEF Mutates
  <2>. QED  BY <1>2, <1>15, <1>16, <2>1, <2>2 DEF Typed, Shape
<1>9. Room' /\ OwnIds'
  <2>1. Room'
    BY <1>2, <1>6, <1>15, <1>16 DEF IInv, Room
  <2>2. OwnIds'
    BY <1>2, <1>6, <1>15 DEF IInv, OwnIds
  <2>. QED  BY <2>1, <2>2
<1>10. Evidence'
  <2>1. From' = From
    BY <1>1, <1>2 DEF Mutates, From
  <2>2. call'.pc = "settle" /\ call.kind = "deletions" => call'.at = 1
    BY <1>1 DEF Mutates
  <2>3. call.kind = "batch" => call'.at = call.at
    BY <1>1 DEF Mutates
  <2>. QED  BY <1>1, <1>2, <1>5, <2>1, <2>2, <2>3 DEF Mutates, IInv, Evidence, Running
<1>11. Effects'
  <2>1. call.kind = "deletions" => \A i \in 1..call.at - 1 : call.ids[i] \in worked
    BY <1>2 DEF IInv, Effects
  <2>2. ok /\ call.kind = "deletions" => \A i \in 1..call.at : call.ids[i] \in worked'
    BY <1>4, <1>6, <2>1
  <2>3. ok => \A i \in call'.at..Len(call.ids) : call'.pc = "settle" => call.ids[i] \in worked'
    <3>1. CASE call.kind = "deletions"
      <4>1. ok /\ call'.pc = "settle" => call.at = Len(call.ids) /\ call'.at = 1
        BY <1>1, <1>2, <3>1 DEF Mutates, Last
      <4>. QED  BY <2>2, <3>1, <4>1
    <3>2. CASE call.kind # "deletions"
      <4>1. \A i \in call'.at..Len(call.ids) : i = call.at
        BY <1>2, <1>4, <1>16, <3>2
      <4>. QED  BY <1>6, <4>1
    <3>. QED  BY <3>1, <3>2
  <2>4. call'.pc = "work" => call.kind = "deletions" /\ ok /\ call'.at = call.at + 1
    BY <1>1 DEF Mutates
  <2>5. call'.pc = "settle" => call'.ok = ok
    BY <1>1 DEF Mutates
  <2>6. call'.pc \in {"work", "settle"} /\ call'.kind = call.kind /\ call'.ids = call.ids
    BY <1>1 DEF Mutates
  <2>. QED  BY <1>2, <1>4, <2>2, <2>3, <2>4, <2>5, <2>6 DEF Effects
<1>12. Digested'
  <2>1. CASE call.kind = "deletions"
    <3>1. From = 1 /\ Running
      BY <1>2, <2>1 DEF From, Running
    <3>2. ASSUME NEW i \in 1..Len(call.ids), call.ids[i] \notin disturbed
          PROVE  IF call.ids[i] \in mutated'
                   THEN call.before[i] # Absent /\ state'[call.targets[i]] = Absent
                   ELSE state'[call.targets[i]] \in {call.before[i], Absent}
      <4>1. IF call.ids[i] \in mutated
              THEN call.before[i] # Absent /\ state[call.targets[i]] = Absent
              ELSE state[call.targets[i]] \in {call.before[i], Absent}
        BY <2>1, <3>1, <3>2 DEF IInv, Digested
      <4>2. call.targets[i] \in Targets
        BY <1>2, <1>4, <2>1
      <4>3. CASE d = state[t]
        BY <1>6, <4>1, <4>2, <4>3
      <4>4. CASE d # state[t]
        <5>1. d = Absent
          BY <1>1, <2>1, <4>4
        <5>. QED  BY <1>3, <1>4, <1>6, <4>1, <4>2, <4>4, <5>1
      <4>. QED  BY <4>3, <4>4
    <3>3. call'.pc # "begin" /\ From' >= 1 /\ From' \in Nat
      BY <1>1, <2>1 DEF Mutates, From
    <3>4. call'.ids = call.ids /\ call'.targets = call.targets /\ call'.before = call.before /\ call'.kind = call.kind
      BY <1>1 DEF Mutates
    <3>5. \A i \in From'..Len(call.ids) : i \in 1..Len(call.ids)
      BY <1>4, <3>3
    <3>. QED  BY <1>6, <2>1, <3>2, <3>3, <3>4, <3>5 DEF Digested
  <2>2. CASE call.kind # "deletions"
    <3>1. From = call.at /\ From' = call.at /\ Running /\ call'.pc # "begin" /\ Len(call.ids) = call.at
      BY <1>1, <1>2, <2>2 DEF Mutates, From, Running
    <3>2. id \notin mutated
      BY <1>2, <2>2 DEF IInv, Effects
    <3>3. id \notin disturbed => state[t] = call.before[call.at]
      BY <1>2, <1>4, <2>2, <3>1, <3>2 DEF IInv, Digested
    <3>4. id \notin disturbed => (id \in mutated' <=> state'[t] # call.before[call.at])
      BY <1>4, <1>6, <3>2, <3>3
    <3>5. \A i \in From'..Len(call.ids) : i = call.at
      BY <1>4, <3>1
    <3>6. call'.ids = call.ids /\ call'.targets = call.targets /\ call'.before = call.before /\ call'.kind = call.kind
      BY <1>1 DEF Mutates
    <3>. QED  BY <1>4, <1>6, <2>2, <3>1, <3>4, <3>5, <3>6 DEF Digested
  <2>. QED  BY <2>1, <2>2
<1>13. Seen' /\ HonestReply'
  BY <1>1, <1>2 DEF Mutates, IInv, Seen, HonestReply, At
<1>14. Space'
  <2>1. call.kind \in {"batch", "refusal"} => call'.at = call.at /\ call'.pc = "settle"
    BY <1>1 DEF Mutates
  <2>. QED  BY <1>1, <1>2, <1>5, <2>1 DEF Mutates, IInv, Space, Running
<1>. QED  BY <1>7, <1>8, <1>9, <1>10, <1>11, <1>12, <1>13, <1>14 DEF IInv

(* The outcome that a digest taken after the work calls for is true. *)
LEMMA VerdictIsTrue ==
  ASSUME IInv, At("settle"), NEW after \in {state[Target(call)], None}
  PROVE  \E o \in Outcomes :
           /\ Verdict(after) = SettleLine(call.ids[call.at], o)
           /\ call.ok => o = "applied"
           /\ o = "applied" => call.ids[call.at] \in worked
           /\ (o = "refused" /\ call.ids[call.at] \in mutated) => call.ids[call.at] \in disturbed
<1>1. /\ call # None /\ call.pc = "settle" /\ Len(call.before) = Len(call.ids)
  BY DEF At, IInv, Shape
<1>2. /\ call.at \in 1..Len(call.ids) /\ call.at \in Nat /\ Target(call) \in Targets
      /\ Target(call) = call.targets[call.at]
  BY <1>1, SettlesItsOwn, Sequences DEF IInv, Target
<1>3. CASE call.ok
  <2>1. call.ids[call.at] \in worked
    BY <1>1, <1>2, <1>3 DEF IInv, Effects
  <2>. QED  BY <1>3, <2>1 DEF Verdict, Outcomes
<1>4. CASE ~call.ok /\ after = call.before[call.at]
  <2>1. CASE call.kind = "refusal"
    <3>1. call.ids[call.at] \notin mutated
      BY <1>1, <1>2, <2>1 DEF IInv, Effects
    <3>. QED  BY <1>4, <3>1 DEF Verdict, Outcomes
  <2>2. CASE call.kind # "refusal"
    <3>1. state[Target(call)] = call.before[call.at]
      BY <1>1, <1>2, <1>4, <2>2 DEF IInv, Seen
    <3>2. From = call.at /\ Running
      BY <1>1 DEF From, Running
    <3>3. call.ids[call.at] \in mutated => call.ids[call.at] \in disturbed
      BY <1>2, <3>1, <3>2 DEF IInv, Digested
    <3>. QED  BY <1>4, <3>3 DEF Verdict, Outcomes
  <2>. QED  BY <2>1, <2>2
<1>5. CASE ~call.ok /\ after # call.before[call.at]
  BY <1>5 DEF Verdict, Outcomes
<1>. QED  BY <1>3, <1>4, <1>5

(* A settle, with its digest and whether it left something to complain about. *)
Settles(c) ==
  /\ At("settle") /\ UNCHANGED <<state, next, mutated, worked, disturbed>>
  /\ World' /\ Interrupted \ {call.ids[call.at]} \subseteq Interrupted'
  /\ \A p : Settled(p) \subseteq Settled(p)'
  /\ Bytes(journal) \in Nat /\ Bytes(journal') \in Nat /\ Bytes(journal') <= Bytes(journal) + 1
  /\ call.ok /\ ~c => call.ids[call.at] \in Settled("applied")'
  /\ AfterSettle(c)

LEMMA SettleSettles ==
  ASSUME Tearing = FALSE, IInv, Settle
  PROVE  \E c \in BOOLEAN : Settles(c)
<1>1. /\ At("settle") /\ call # None /\ call.pc = "settle" /\ UNCHANGED <<state, next, mutated, worked, disturbed>>
  BY DEF Settle, At
<1>2. PICK after \in {state[Target(call)], None}, c \in BOOLEAN :
        /\ AfterSettle(c)
        /\ journal' \in {journal, Appended(journal, Verdict(after))}
        /\ ~c => journal' = Appended(journal, Verdict(after))
  <2>1. PICK after \in {state[Target(call)], None} :
          \/ journal' = Appended(journal, Verdict(after)) /\ AfterSettle(after = None)
          \/ journal' \in Broken(journal, Verdict(after)) /\ AfterSettle(TRUE)
    BY DEF Settle
  <2>2. CASE journal' = Appended(journal, Verdict(after)) /\ AfterSettle(after = None)
    <3>1. (after = None) \in BOOLEAN
      OBVIOUS
    <3>. QED  BY <2>2, <3>1
  <2>3. CASE journal' \in Broken(journal, Verdict(after)) /\ AfterSettle(TRUE)
    BY <2>3, BrokenIsWhole
  <2>. QED  BY <2>1, <2>2, <2>3
<1>3. PICK o \in Outcomes :
           /\ Verdict(after) = SettleLine(call.ids[call.at], o)
           /\ call.ok => o = "applied"
           /\ o = "applied" => call.ids[call.at] \in worked
           /\ (o = "refused" /\ call.ids[call.at] \in mutated) => call.ids[call.at] \in disturbed
  BY <1>1, VerdictIsTrue
<1>4. /\ World' /\ Interrupted \ {call.ids[call.at]} \subseteq Interrupted'
      /\ \A p : Settled(p) \subseteq Settled(p)'
      /\ Bytes(journal) \in Nat /\ Bytes(journal') \in Nat /\ Bytes(journal') <= Bytes(journal) + 1
      /\ journal' = Appended(journal, SettleLine(call.ids[call.at], o)) => call.ids[call.at] \in Settled(o)'
  <2>1. journal' \in {journal, Appended(journal, SettleLine(call.ids[call.at], o))}
    BY <1>2, <1>3
  <2>. QED  BY <1>1, <1>3, <2>1, SettleLeaves
<1>5. call.ok /\ ~c => call.ids[call.at] \in Settled("applied")'
  BY <1>2, <1>3, <1>4
<1>. QED  BY <1>1, <1>2, <1>4, <1>5 DEF Settles

LEMMA SettleKeeps ==
  ASSUME Tearing = FALSE, IInv, Settle
  PROVE  IInv'
<1>1. PICK c \in BOOLEAN : Settles(c)
  BY SettleSettles
<1>. DEFINE id == call.ids[call.at]
            failed == ~call.ok \/ call.complaint \/ c
<1>2. /\ call # None /\ call \in CallType /\ call.pc = "settle" /\ call.kind \in Kinds
      /\ Len(call.before) = Len(call.ids)
      /\ call.kind = "deletions" => Len(call.ids) = Len(call.targets)
      /\ call.kind # "deletions" => Len(call.ids) = call.at
      /\ call.kind = "single" => Len(call.targets) = 1
      /\ call.kind = "refusal" => ~call.ok
  BY <1>1 DEF Settles, At, IInv, Shape, Typed, CallType
<1>3. /\ call.at \in 1..Len(call.ids)
      /\ \A i \in 1..Len(call.ids) : call.ids[i] = id => i = call.at
  BY <1>2, SettlesItsOwn
<1>4. /\ Len(call.targets) \in Nat /\ Len(call.ids) \in Nat /\ call.at \in Nat
      /\ call.at >= 1 /\ call.at <= Len(call.targets)
  BY <1>2, Sequences DEF IInv
<1>5. /\ UNCHANGED <<state, next, mutated, worked, disturbed>>
      /\ World' /\ Interrupted \ {id} \subseteq Interrupted'
      /\ \A p : Settled(p) \subseteq Settled(p)'
      /\ call.ok /\ ~c => id \in Settled("applied")'
  BY <1>1 DEF Settles
<1>6. Bytes(journal) \in Nat /\ Bytes(journal') \in Nat /\ Bytes(journal') <= Bytes(journal) + 1
  BY <1>1 DEF Settles
<1>7. next \in Nat /\ Capacity \in Nat /\ MaxAttempts \in Nat
  BY Numbers DEF IInv
<1>8. From = call.at /\ Running
  BY <1>2 DEF From, Running
<1>9. /\ call.kind = "batch" => \A i \in 1..call.at - 1 : call.ids[i] \in Settled("applied")
      /\ call.kind = "deletions" /\ call.ok /\ ~call.complaint =>
           \A i \in 1..call.at - 1 : call.ids[i] \in Settled("applied")
  BY <1>2, <1>8 DEF IInv, Evidence
<1>10. CASE call.kind = "deletions" /\ ~Last(call)
  <2>1. call' = [call EXCEPT !.at = call.at + 1, !.complaint = call.complaint \/ c]
    BY <1>1, <1>2, <1>10 DEF Settles, AfterSettle, CallType
  <2>2. call.at + 1 \in Nat /\ call.complaint \in BOOLEAN /\ call.at < Len(call.targets)
    BY <1>2, <1>4, <1>10 DEF CallType, Last
  <2>3. /\ call' \in CallType /\ call'.pc = "settle" /\ call'.kind = "deletions" /\ call'.at = call.at + 1
        /\ call'.targets = call.targets /\ call'.ids = call.ids /\ call'.before = call.before /\ call'.ok = call.ok
        /\ ~call'.complaint => ~call.complaint /\ ~c
    BY <1>2, <1>10, <2>1, <2>2 DEF CallType
  <2>4. Typed' /\ Shape' /\ Room' /\ OwnIds'
    BY <1>2, <1>4, <1>5, <1>10, <2>2, <2>3 DEF IInv, Typed, Shape, Room, OwnIds
  <2>5. From' = call.at + 1
    BY <2>3 DEF From
  <2>6. Evidence'
    <3>1. \A i \in call.at..Len(call.ids) : call.ids[i] \in Interrupted
      BY <1>8 DEF IInv, Evidence
    <3>2. \A i \in call.at + 1..Len(call.ids) : call.ids[i] \in Interrupted'
      BY <1>3, <1>4, <1>5, <3>1
    <3>3. call.ok /\ ~call'.complaint => \A i \in 1..call.at : call.ids[i] \in Settled("applied")'
      BY <1>4, <1>5, <1>9, <1>10, <2>3
    <3>4. call'.at - 1 = call.at
      BY <1>4, <2>3
    <3>. QED  BY <2>3, <2>5, <3>2, <3>3, <3>4 DEF Evidence
  <2>7. Digested'
    <3>1. \A i \in call.at + 1..Len(call.ids) : i \in call.at..Len(call.ids)
      BY <1>4
    <3>. QED  BY <1>5, <1>8, <1>10, <2>3, <2>5, <3>1 DEF IInv, Digested
  <2>8. Effects'
    <3>1. \A i \in call.at + 1..Len(call.ids) : i \in call.at..Len(call.ids)
      BY <1>4
    <3>. QED  BY <1>2, <1>5, <2>3, <3>1 DEF IInv, Effects
  <2>9. Seen' /\ Space' /\ HonestReply'
    BY <1>2, <1>5, <1>10, <2>3 DEF IInv, Seen, Space, HonestReply, At
  <2>. QED  BY <1>5, <2>4, <2>6, <2>7, <2>8, <2>9 DEF IInv
<1>11. CASE ~Last(call) /\ (call.kind = "refusal" \/ (call.kind = "batch" /\ ~failed))
  <2>1. call' = [call EXCEPT !.at = call.at + 1, !.pc = "digest"]
    BY <1>1, <1>2, <1>11 DEF Settles, AfterSettle, CallType
  <2>2. call.at + 1 \in Nat /\ call.at < Len(call.targets)
    BY <1>4, <1>11 DEF Last
  <2>3. /\ call' \in CallType /\ call'.pc = "digest" /\ call'.kind = call.kind /\ call'.at = call.at + 1
        /\ call'.targets = call.targets /\ call'.ids = call.ids /\ call'.before = call.before /\ call'.ok = call.ok
    BY <1>2, <2>1, <2>2 DEF CallType
  <2>4. /\ call.kind = "refusal" \/ (call.kind = "batch" /\ call.ok)
        /\ Len(call.ids) = call.at
    BY <1>2, <1>11
  <2>5. Typed' /\ Shape'
    <3>1. call'.at >= 1 /\ call'.at <= Len(call.targets) /\ call'.at - 1 = call.at
      BY <1>4, <2>2, <2>3
    <3>. QED  BY <1>2, <2>3, <2>4, <3>1 DEF Typed, Shape
  <2>6. Room'
    <3>1. next + Len(call.targets) - call.at <= MaxAttempts + 1
      BY <1>2, <2>4 DEF IInv, Room
    <3>2. next + Len(call.targets) - (call.at + 1) <= MaxAttempts
      BY <1>4, <1>7, <3>1
    <3>. QED  BY <1>5, <2>3, <3>2 DEF Room
  <2>7. OwnIds'
    BY <1>2, <1>5, <2>3 DEF IInv, OwnIds
  <2>8. From' = call.at + 1 /\ \A i \in call.at + 1..call.at : FALSE
    BY <1>4, <2>3, <2>4 DEF From
  <2>9. Evidence'
    <3>1. call.kind = "batch" => \A i \in 1..call.at : call.ids[i] \in Settled("applied")'
      BY <1>4, <1>5, <1>9, <1>11
    <3>2. call'.at - 1 = call.at
      BY <1>4, <2>3
    <3>. QED  BY <2>3, <2>4, <2>8, <3>1, <3>2 DEF Evidence
  <2>10. Digested'
    BY <2>3, <2>4, <2>8 DEF Digested
  <2>11. Effects' /\ Seen' /\ HonestReply'
    BY <1>2, <1>5, <2>3, <2>4 DEF IInv, Effects, Seen, HonestReply, At
  <2>12. Space'
    <3>1. Bytes(journal) + 2 * (Len(call.targets) - call.at) + 1 <= Capacity
      BY <1>2, <1>8, <2>4 DEF IInv, Space
    <3>. DEFINE left == Len(call.targets) - call.at
    <3>2. left \in Nat /\ Len(call.targets) - (call.at + 1) = left - 1
      BY <1>4
    <3>3. Bytes(journal) + 2 * left + 1 <= Capacity
      BY <3>1
    <3>. HIDE DEF left
    <3>4. Bytes(journal') + 2 * (left - 1) + 2 <= Capacity
      BY <1>6, <1>7, <3>2, <3>3
    <3>. QED  BY <2>3, <3>2, <3>4 DEF Space
  <2>. QED  BY <1>5, <2>5, <2>6, <2>7, <2>9, <2>10, <2>11, <2>12 DEF IInv
<1>12. CASE /\ ~(call.kind = "deletions" /\ ~Last(call))
            /\ ~(~Last(call) /\ (call.kind = "refusal" \/ (call.kind = "batch" /\ ~failed)))
  <2>1. Finish(IF call.kind = "refusal" THEN "refused" ELSE IF failed THEN "failed" ELSE "ok")
    BY <1>1, <1>12 DEF Settles, AfterSettle
  <2>2. CASE call.kind = "refusal"
    <3>1. \A i \in 1..Len(call.ids) : call.ids[i] \notin mutated
      BY <1>2, <2>2 DEF IInv, Effects
    <3>. QED  BY <1>2, <1>5, <1>7, <2>1, <2>2, <3>1, FinishKeeps
  <2>3. CASE call.kind # "refusal" /\ failed
    BY <1>2, <1>5, <1>7, <2>1, <2>3, FinishKeeps
  <2>4. CASE call.kind # "refusal" /\ ~failed
    <3>1. Last(call) \/ call.kind = "single"
      BY <1>2, <1>12, <2>4 DEF Kinds
    <3>2. call.at = Len(call.targets) /\ Len(call.ids) = call.at
      <4>1. CASE call.kind = "single"
        <5>1. Len(call.targets) = 1 /\ Len(call.ids) = call.at
          BY <1>2, <4>1
        <5>. QED  BY <1>4, <5>1
      <4>2. CASE call.kind # "single"
        BY <1>2, <3>1, <4>2 DEF Last
      <4>. QED  BY <4>1, <4>2
    <3>3. \A i \in 1..call.at - 1 : call.ids[i] \in Settled("applied")
      <4>1. CASE call.kind = "single"
        <5>1. call.at = 1
          BY <1>2, <3>2, <4>1
        <5>. QED  BY <5>1
      <4>2. CASE call.kind \in {"batch", "deletions"}
        BY <1>9, <2>4, <4>2
      <4>. QED  BY <1>2, <2>4, <4>1, <4>2 DEF Kinds
    <3>4. \A i \in 1..Len(call.ids) : call.ids[i] \in Settled("applied")'
      BY <1>4, <1>5, <2>4, <3>2, <3>3
    <3>5. Finish("ok")
      BY <2>1, <2>4
    <3>. QED  BY <1>2, <1>5, <1>7, <3>2, <3>4, <3>5, FinishKeeps
  <2>. QED  BY <2>2, <2>3, <2>4
<1>. QED  BY <1>10, <1>11, <1>12

LEMMA ReturnKeeps ==
  ASSUME IInv, Return
  PROVE  IInv'
BY WorldStays, IdleKeeps DEF Return, IInv

LEMMA KillKeeps ==
  ASSUME Tearing = FALSE, IInv, Kill
  PROVE  IInv'
<1>1. call # None /\ call' = None /\ UNCHANGED <<state, mutated, worked, disturbed>>
  BY DEF Kill
<1>2. CASE UNCHANGED <<journal, next>>
  <2>1. World'
    BY <1>1, <1>2, WorldStays DEF IInv
  <2>. QED  BY <1>1, <2>1, IdleKeeps
<1>3. CASE /\ At("begin") /\ next' = next + 1
           /\ journal' \in {BeginInto} \cup Broken(BeginInto, BeginLine(next, Target(call)))
  <2>1. journal' \in {journal, BeginInto, Appended(BeginInto, BeginLine(next, Target(call)))}
    BY <1>3, BrokenIsWhole
  <2>2. World'
    BY <1>1, <1>3, <2>1, BeginLeaves
  <2>. QED  BY <1>1, <2>2, IdleKeeps
<1>4. CASE At("settle") /\ journal' \in Broken(journal, Verdict(state[Target(call)])) /\ UNCHANGED next
  <2>1. journal' \in {journal, Appended(journal, Verdict(state[Target(call)]))}
    BY <1>4, BrokenIsWhole
  <2>2. PICK o \in Outcomes :
          /\ Verdict(state[Target(call)]) = SettleLine(call.ids[call.at], o)
          /\ o = "applied" => call.ids[call.at] \in worked
          /\ (o = "refused" /\ call.ids[call.at] \in mutated) => call.ids[call.at] \in disturbed
    BY <1>4, VerdictIsTrue
  <2>3. journal' \in {journal, Appended(journal, SettleLine(call.ids[call.at], o))}
    BY <2>1, <2>2
  <2>4. World'
    BY <1>1, <1>4, <2>2, <2>3, SettleLeaves DEF At
  <2>. QED  BY <1>1, <2>4, IdleKeeps
<1>. QED  BY <1>2, <1>3, <1>4 DEF Kill

LEMMA OtherWriteKeeps ==
  ASSUME IInv, OtherWrite
  PROVE  IInv'
<1>1. /\ UNCHANGED <<journal, next, call, mutated, worked>>
      /\ disturbed' = IF call = None THEN disturbed
                      ELSE disturbed \cup ((Range(call.ids) \cup (IF At("begin") THEN {next} ELSE {})) \cap Ids)
  BY DEF OtherWrite
<1>2. state' \in [Targets -> Digests] /\ disturbed \subseteq disturbed' /\ disturbed' \subseteq Ids
  BY <1>1 DEF OtherWrite, IInv, World
<1>3. /\ Interrupted' = Interrupted /\ \A o : Settled(o)' = Settled(o)
      /\ Bytes(journal') = Bytes(journal)
  BY <1>1, SameReads
<1>4. World'
  BY <1>1, <1>2, <1>3 DEF IInv, World, WholeLines, HonestOutcome
<1>5. Typed' /\ Shape' /\ Room' /\ OwnIds' /\ Seen'
  BY <1>1 DEF IInv, Typed, Shape, Room, OwnIds, Seen
<1>6. From' = From /\ Running' = Running
  BY <1>1 DEF From, Running
<1>7. Evidence' /\ Effects' /\ Space' /\ HonestReply'
  BY <1>1, <1>3, <1>6 DEF IInv, Evidence, Effects, Space, HonestReply, At
<1>8. Digested'
  <2>1. call # None /\ call.pc = "begin" => next \in disturbed'
    <3>1. call # None /\ call.pc = "begin" => next \in Ids
      BY Sequences, Numbers DEF IInv, Room, Ids
    <3>. QED  BY <1>1, <3>1 DEF At
  <2>2. Running => \A i \in From..Len(call.ids) : call.ids[i] \in disturbed'
    <3>1. SUFFICES ASSUME Running, NEW i \in From..Len(call.ids) PROVE call.ids[i] \in disturbed'
      OBVIOUS
    <3>2. call # None /\ call.ids \in Seq(Ids \cup {None}) /\ call.at \in Nat /\ call.at >= 1
      BY <3>1, Sequences DEF Running, IInv
    <3>3. i \in DOMAIN call.ids
      BY <3>1, <3>2 DEF From
    <3>4. call.ids[i] \in Range(call.ids)
      BY <3>3 DEF Range
    <3>5. call.ids[i] \in Ids
      BY <3>1, InterruptedIds DEF IInv, Evidence
    <3>. QED  BY <1>1, <3>2, <3>4, <3>5
  <2>. QED  BY <1>1, <1>6, <2>1, <2>2 DEF Digested
<1>. QED  BY <1>4, <1>5, <1>7, <1>8 DEF IInv

LEMMA NextKeeps ==
  ASSUME Tearing = FALSE, IInv, [Next]_vars
  PROVE  IInv'
<1>1. CASE UNCHANGED vars
  <2>1. UNCHANGED <<state, journal, next, call, mutated, worked, disturbed>>
    BY <1>1 DEF vars
  <2>2. World' /\ Interrupted' = Interrupted /\ (\A o : Settled(o)' = Settled(o)) /\ Bytes(journal') = Bytes(journal)
    BY <2>1, WorldStays, SameReads DEF IInv
  <2>3. From' = From /\ Running' = Running
    BY <2>1 DEF From, Running
  <2>4. Typed' /\ Shape' /\ Room' /\ OwnIds' /\ Seen' /\ Digested'
    BY <2>1, <2>3 DEF IInv, Typed, Shape, Room, OwnIds, Seen, Digested, Target
  <2>5. Evidence' /\ Effects' /\ Space' /\ HonestReply'
    BY <2>1, <2>2, <2>3 DEF IInv, Evidence, Effects, Space, HonestReply, At
  <2>. QED  BY <2>2, <2>4, <2>5 DEF IInv
<1>. QED  BY <1>1, StartKeeps, ReserveKeeps, DigestBeforeKeeps, BeginKeeps, UnwindKeeps, WorkKeeps, SettleKeeps,
             ReturnKeeps, KillKeeps, OtherWriteKeeps DEF Next

THEOREM Invariance ==
  ASSUME Tearing = FALSE
  PROVE  Spec => []IInv
<1>1. IInv /\ [Next]_vars => IInv'
  BY NextKeeps
<1>. QED  BY <1>1, InitIInv, PTL DEF Spec

-----------------------------------------------------------------------------
(* What no step takes away. *)

LEMMA StepsKeepEvidence ==
  ASSUME Tearing = FALSE, IInv, [Next]_vars, NEW id \in Interrupted
  PROVE  \/ id \in Interrupted'
         \/ (At("settle") \/ At("unwind")) /\ id = call.ids[call.at]
<1>1. CASE UNCHANGED journal
  BY <1>1, SameReads
<1>2. CASE Reserve
  BY <1>2, RotationIsRead DEF Reserve, IInv, World
<1>3. CASE Begin
  <2>1. journal' \in {journal, BeginInto, Appended(BeginInto, BeginLine(next, Target(call)))}
    BY <1>3, BrokenIsWhole DEF Begin, BrokenBegin
  <2>2. At("begin") /\ next' = next + 1 /\ UNCHANGED <<state, mutated, worked, disturbed>>
    BY <1>3 DEF Begin
  <2>. QED  BY <2>1, <2>2, BeginLeaves
<1>4. CASE Unwind
  <2>1. At("unwind") /\ call # None /\ call.pc = "unwind" /\ call.kind = "deletions"
    BY <1>4 DEF Unwind, At, IInv, Shape
  <2>2. call.ids[call.at] \notin mutated
    BY <2>1, SettlesItsOwn DEF IInv, Effects
  <2>3. journal' \in {journal, Appended(journal, SettleLine(call.ids[call.at], "refused"))}
    BY <1>4, BrokenIsWhole DEF Unwind
  <2>4. UNCHANGED <<state, next, mutated, worked, disturbed>>
    BY <1>4 DEF Unwind
  <2>. QED  BY <2>1, <2>2, <2>3, <2>4, SettleLeaves DEF Outcomes
<1>5. CASE Settle
  <2>1. PICK c \in BOOLEAN : Settles(c)
    BY <1>5, SettleSettles
  <2>. QED  BY <2>1 DEF Settles
<1>6. CASE Kill /\ ~UNCHANGED journal
  <2>1. CASE /\ At("begin") /\ next' = next + 1
             /\ journal' \in {BeginInto} \cup Broken(BeginInto, BeginLine(next, Target(call)))
    <3>1. journal' \in {journal, BeginInto, Appended(BeginInto, BeginLine(next, Target(call)))}
      BY <2>1, BrokenIsWhole
    <3>2. UNCHANGED <<state, mutated, worked, disturbed>>
      BY <1>6 DEF Kill
    <3>. QED  BY <2>1, <3>1, <3>2, BeginLeaves
  <2>2. CASE At("settle") /\ journal' \in Broken(journal, Verdict(state[Target(call)])) /\ UNCHANGED next
    <3>1. journal' \in {journal, Appended(journal, Verdict(state[Target(call)]))}
      BY <2>2, BrokenIsWhole
    <3>2. PICK o \in Outcomes :
            /\ Verdict(state[Target(call)]) = SettleLine(call.ids[call.at], o)
            /\ o = "applied" => call.ids[call.at] \in worked
            /\ (o = "refused" /\ call.ids[call.at] \in mutated) => call.ids[call.at] \in disturbed
      BY <2>2, VerdictIsTrue
    <3>3. journal' \in {journal, Appended(journal, SettleLine(call.ids[call.at], o))}
      BY <3>1, <3>2
    <3>4. call # None /\ call.pc = "settle" /\ UNCHANGED <<state, next, mutated, worked, disturbed>>
      BY <1>6, <2>2 DEF Kill, At
    <3>5. Interrupted \ {call.ids[call.at]} \subseteq Interrupted'
      BY <3>2, <3>3, <3>4, SettleLeaves
    <3>. QED  BY <2>2, <3>5
  <2>. QED  BY <1>6, <2>1, <2>2 DEF Kill
<1>. QED  BY <1>1, <1>2, <1>3, <1>4, <1>5, <1>6 DEF Next, vars, Start, DigestBefore, Work, Return, OtherWrite

-----------------------------------------------------------------------------
(* The results. *)

(***************************************************************************)
(* As long as a failing append leaves nothing half-written, a journalled   *)
(* mutation never runs without evidence: from before it starts until it is *)
(* settled, whoever reads the journal finds it interrupted.                *)
(***************************************************************************)
THEOREM EvidenceFirst ==
  ASSUME Tearing = FALSE
  PROVE  Spec => []EvidenceBeforeMutation
<1>1. ASSUME IInv PROVE EvidenceBeforeMutation
  <2>1. SUFFICES ASSUME At("work") \/ At("settle") PROVE Open \subseteq Interrupted
    BY DEF EvidenceBeforeMutation
  <2>2. Running /\ Open = {call.ids[i] : i \in From..Len(call.ids)}
    BY <2>1 DEF At, Running, From, Open
  <2>. QED  BY <1>1, <2>2 DEF IInv, Evidence
<1>2. Spec => []IInv
  BY Invariance
<1>3. IInv => EvidenceBeforeMutation
  BY <1>1
<1>. QED  BY <1>2, <1>3, PTL

(***************************************************************************)
(* No rotation, batch, later call or kill removes the evidence of an       *)
(* interrupted attempt: only settling that very attempt does.              *)
(***************************************************************************)
THEOREM EvidenceStays ==
  ASSUME Tearing = FALSE
  PROVE  Spec => EvidenceKept
<1>1. IInv /\ [Next]_vars =>
        [\A id \in Interrupted :
           \/ id \in Interrupted'
           \/ (At("settle") \/ At("unwind")) /\ id = call.ids[call.at]]_vars
  BY StepsKeepEvidence
<1>2. Spec => []IInv
  BY Invariance
<1>. QED  BY <1>1, <1>2, PTL DEF Spec, EvidenceKept

(***************************************************************************)
(* Receipts and replies are true: "applied" only after reported success,   *)
(* "refused" only if the attempt changed nothing (or others wrote too),    *)
(* "ok" only with a readable "applied" receipt for every target.           *)
(***************************************************************************)
THEOREM Honesty ==
  ASSUME Tearing = FALSE
  PROVE  Spec => []HonestRecords
<1>1. ASSUME IInv PROVE HonestRecords
  <2>1. TypeOK
    BY <1>1 DEF IInv, World, WholeLines, Whole, Typed, TypeOK
  <2>2. HonestReply /\ HonestOutcome
    BY <1>1 DEF IInv, World
  <2>. QED  BY <2>1, <2>2 DEF HonestRecords
<1>2. Spec => []IInv
  BY Invariance
<1>3. IInv => HonestRecords
  BY <1>1
<1>. QED  BY <1>2, <1>3, PTL

(***************************************************************************)
(* The room that a batch reserves is enough for all its records: while it  *)
(* runs the journal stays within its capacity, so that no rotation drops   *)
(* the receipts of the files it has already written.                       *)
(***************************************************************************)
THEOREM ReservationIsEnough ==
  ASSUME Tearing = FALSE
  PROVE  Spec => []BatchReservation
<1>1. ASSUME IInv PROVE BatchReservation
  <2>1. SUFFICES ASSUME call # None, call.kind \in {"batch", "refusal"},
                        call.pc \in {"digest", "begin", "work", "settle"}
                 PROVE  /\ Bytes(journal) <= Capacity
                        /\ call.kind = "batch" => \A i \in 1..call.at - 1 : call.ids[i] \in Settled("applied")
    BY DEF BatchReservation
  <2>2. Running
    BY <2>1 DEF Running
  <2>3. Len(call.targets) \in Nat /\ call.at \in Nat /\ call.at <= Len(call.targets)
    BY <1>1, <2>1, Sequences DEF IInv
  <2>4. Bytes(journal) \in Nat /\ Capacity \in Nat
    BY <1>1, WholeBytes, Constants DEF IInv, World, WholeLines
  <2>5. Bytes(journal) + 2 * (Len(call.targets) - call.at)
          + (IF call.pc \in {"digest", "begin"} THEN 2 ELSE 1) <= Capacity
    BY <1>1, <2>1, <2>2 DEF IInv, Space
  <2>6. Bytes(journal) <= Capacity
    <3>. DEFINE left == Len(call.targets) - call.at
                own == IF call.pc \in {"digest", "begin"} THEN 2 ELSE 1
    <3>1. left \in Nat /\ own \in Nat
      BY <2>3
    <3>2. Bytes(journal) + 2 * left + own <= Capacity
      BY <2>5
    <3>. HIDE DEF left, own
    <3>. QED  BY <2>4, <3>1, <3>2
  <2>. QED  BY <1>1, <2>2, <2>6 DEF IInv, Evidence
<1>2. Spec => []IInv
  BY Invariance
<1>3. IInv => BatchReservation
  BY <1>1
<1>. QED  BY <1>2, <1>3, PTL
=============================================================================
