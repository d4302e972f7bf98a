------------------------------ MODULE FileReads ------------------------------
(***************************************************************************)
(* Reading a file with its digest (GuardedRegularFile::                    *)
(* read_range_with_digest in crates/core/src/fs/guarded_file.rs, behind    *)
(* file_info, read_file_bytes and every SHA-256 precondition): the file is *)
(* read piece by piece through one handle, with a look at its size and     *)
(* times before and after, while others write into it, cut it, or put      *)
(* another file under its name.                                            *)
(***************************************************************************)
EXTENDS Integers, Sequences, FiniteSets

CONSTANTS Buffer,     \* bytes a read asks for (64 KiB), at least one
          MaxSize,    \* bound on the size of a file
          MaxWrites,  \* bound on what others do
          Offsets, Counts,  \* offset and max_bytes of a call
          None

VARIABLES content,        \* bytes of the file the call opened
          stamp, clock,   \* its last change, and the clock, in ticks
          named,          \* whether the name still leads to it
          read,           \* the call
          seen,           \* contents since the look before
          blurred,        \* whether it was written in the tick the look before had seen
          writes

vars == <<content, stamp, clock, named, read, seen, blurred, writes>>
world == <<content, stamp, clock, named, seen, blurred, writes>>

\* Bytes by what they are to UTF-8 and to a line count: "a" a character of its own, "n"
\* a newline, "l" and "t" the first of two and of three, "c" one that continues.
Bytes == {"a", "n", "l", "t", "c"}
Texts == UNION {[1..n -> Bytes] : n \in 0..MaxSize}

\* str::from_utf8: 0 for a text, more for one that ends inside a character (the bytes it
\* lacks), -1 for what no further byte can make one.
Wants(s) ==
  LET after(w, b) == CASE w = -1 -> -1
                       [] w > 0 -> IF b = "c" THEN w - 1 ELSE -1
                       [] OTHER -> CASE b \in {"a", "n"} -> 0 [] b = "l" -> 1
                                     [] b = "t" -> 2 [] OTHER -> -1
      want[n \in 0..Len(s)] == IF n = 0 THEN 0 ELSE LET w == want[n - 1] IN after(w, s[n])
  IN want[Len(s)]
Newlines(s) == Cardinality({n \in DOMAIN s : s[n] = "n"})
Prefix(s, n) == SubSeq(s, 1, n)
Suffix(s, n) == SubSeq(s, n + 1, Len(s))
Least(S) == CHOOSE n \in S : \A m \in S : n <= m
Most(S) == CHOOSE n \in S : \A m \in S : m <= n
Smaller(m, n) == IF m < n THEN m ELSE n

\* Utf8LineCounter
NewCounter == [valid |-> TRUE, pending |-> <<>>, newlines |-> 0, last |-> None]
Counted(c, s) == [c EXCEPT !.newlines = @ + Newlines(s), !.last = s[Len(s)]]
\* The bytes of s that go to a character begun in the piece before.
Completes(c, s) == LET ends == {n \in 1..Len(s) : Wants(c.pending \o Prefix(s, n)) <= 0}
                   IN IF c.pending = <<>> THEN 0
                      ELSE IF ends = {} THEN Len(s) ELSE Least(ends)
\* The character that the end of s cuts.
CutShort(s) == Suffix(s, Most({n \in 0..Len(s) : Wants(Prefix(s, n)) = 0}))
\* Faulty variant of Update: what a piece cut short is forgotten.
UpdateForgetful(c, s) ==
  [Counted(c, s) EXCEPT !.valid = @ /\ Wants(s) # -1,
                        !.pending = IF Wants(s) > 0 THEN CutShort(s) ELSE <<>>]
Update(c, s) ==
  LET begun == c.pending \o Prefix(s, Completes(c, s))
      rest == Suffix(s, Completes(c, s))
      bad == Wants(begun) = -1 \/ Wants(rest) = -1
  IN IF ~c.valid THEN Counted(c, s)
     ELSE [Counted(c, s) EXCEPT !.valid = ~bad,
                                !.pending = IF bad THEN <<>>
                                            ELSE IF Wants(begun) > 0 THEN begun ELSE CutShort(rest)]
FinishCount(c) == IF ~c.valid \/ c.pending # <<>> THEN None
                  ELSE IF c.last \in {None, "n"} THEN c.newlines ELSE c.newlines + 1

Idle == [pc |-> "none", offset |-> 0, max |-> 0, size |-> 0, stamp |-> 0, hashed |-> <<>>,
         bytes |-> <<>>, count |-> NewCounter]
TypeOK ==
  /\ content \in Texts /\ named \in BOOLEAN /\ stamp <= clock
  /\ read.pc \in {"none", "reading", "after", "path", "done", "refused"}
  /\ Len(read.hashed) <= read.size /\ read.count.pending \in Texts

Init == /\ content \in Texts /\ stamp = 0 /\ clock \in 0..1 /\ named = TRUE
        /\ read = Idle /\ seen = {} /\ blurred = FALSE /\ writes = 0

\* The look before.
Before == \E o \in Offsets, m \in Counts :
  /\ read.pc = "none"
  /\ read' = [Idle EXCEPT !.pc = IF o > Len(content) THEN "refused" ELSE "reading",
                          !.offset = o, !.max = m, !.size = Len(content), !.stamp = stamp]
  /\ seen' = {content} /\ blurred' = FALSE
  /\ UNCHANGED <<content, stamp, clock, named, writes>>

At == Len(read.hashed)
RangeEnd == read.offset + Smaller(read.size - read.offset, read.max)
Retained(piece) == SubSeq(piece, (IF read.offset > At THEN read.offset - At ELSE 0) + 1,
                                 Smaller(RangeEnd - At, Len(piece)))

\* read_at returns up to what it was asked for; nothing when the file has become shorter.
Read ==
  /\ read.pc = "reading" /\ At < read.size
  /\ IF At >= Len(content) THEN read' = [read EXCEPT !.pc = "refused"]
     ELSE \E n \in 1..Smaller(Buffer, Smaller(read.size, Len(content)) - At) :
            LET piece == SubSeq(content, At + 1, At + n)
            IN read' = [read EXCEPT !.hashed = @ \o piece, !.count = Update(@, piece),
                                    !.bytes = @ \o Retained(piece)]
  /\ UNCHANGED world
AllRead == /\ read.pc = "reading" /\ At = read.size /\ read' = [read EXCEPT !.pc = "after"]
           /\ UNCHANGED world

\* Faulty variant of SameSnapshot: the size alone is compared.
SameSnapshotBySize == Len(content) = read.size
\* The look after, and revalidate_current_path.
SameSnapshot == Len(content) = read.size /\ stamp = read.stamp
After == /\ read.pc = "after" /\ read' = [read EXCEPT !.pc = IF SameSnapshot THEN "path" ELSE "refused"]
         /\ UNCHANGED world
Revalidate == /\ read.pc = "path" /\ read' = [read EXCEPT !.pc = IF named THEN "done" ELSE "refused"]
              /\ UNCHANGED world

\* Others: one byte written or appended, all of them written, the end cut
\* off, another file under the name.
Running == read.pc \notin {"done", "refused"} /\ writes < MaxWrites
Written(s) == /\ Running /\ writes' = writes + 1
              /\ content' = s /\ stamp' = clock /\ seen' = seen \cup {s}
              /\ blurred' = (blurred \/ (read.pc # "none" /\ clock = read.stamp))
              /\ UNCHANGED <<clock, named, read>>
WriteByte == \E n \in DOMAIN content, b \in Bytes : Written([content EXCEPT ![n] = b])
Rewrite == \E b \in Bytes : Written([n \in DOMAIN content |-> b])
AppendByte == \E b \in Bytes : Len(content) < MaxSize /\ Written(Append(content, b))
Cut == content # <<>> /\ Written(Prefix(content, Len(content) - 1))
Rename == /\ Running /\ named /\ named' = FALSE /\ writes' = writes + 1
          /\ UNCHANGED <<content, stamp, clock, seen, blurred, read>>
Tick == /\ Running /\ clock' = clock + 1 /\ clock < 2
        /\ UNCHANGED <<content, stamp, named, read, seen, blurred, writes>>

Next == Before \/ Read \/ AllRead \/ After \/ Revalidate
          \/ WriteByte \/ Rewrite \/ AppendByte \/ Cut \/ Rename \/ Tick
Spec == Init /\ [][Next]_vars

-----------------------------------------------------------------------------
\* What was hashed is what the file held at one moment of the call, however it was cut
\* into pieces and whatever was written meanwhile, unless the writing fell in the very
\* clock tick of the change the look before had seen.
ReadsOneMoment == read.pc = "done" /\ ~blurred => read.hashed \in seen /\ named

\* The line count and the bytes returned are those of the text that was hashed, wherever
\* the pieces cut a character or the range.
ReportsWhatItHashed == read.pc = "done" =>
  /\ FinishCount(read.count) =
       IF Wants(read.hashed) # 0 THEN None
       ELSE Newlines(read.hashed) + (IF read.hashed # <<>> /\ read.hashed[read.size] # "n" THEN 1 ELSE 0)
  /\ read.bytes = SubSeq(read.hashed, read.offset + 1, Smaller(read.offset + read.max, read.size))
=============================================================================
