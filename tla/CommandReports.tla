---------------------------- MODULE CommandReports ----------------------------
(***************************************************************************)
(* How output becomes the text of a report (crates/core/src/process/       *)
(* runner.rs and guarded_command.rs, and the callers of the latter): the   *)
(* capture of a child keeps a head and a tail, an artifact is read up to a *)
(* limit, redaction works line by line, and the result is cut to a number  *)
(* of characters.  A character is abstracted to the name of a secret, its  *)
(* value or a newline, and remembers the line it is from.                  *)
(***************************************************************************)
EXTENDS Naturals, Sequences, FiniteSets, SequencesExt

CONSTANTS HeadBytes,              \* CAPTURE_HEAD_BYTES, or the limit of an artifact
          TailBytes,              \* CAPTURE_TAIL_BYTES
          MaxChars,               \* MAX_OUTPUT_CHARS, or a caller's max_chars
          MaxLength               \* bound on the streams; all are positive

VARIABLES stream,  \* what the child wrote, or the artifact holds
          via,     \* which report is made of it
          report   \* <<>> before it is made

vars == <<stream, via, report>>

\* Line 0 is text of the server's own.
Lettered == {"name", "value"}
Stream(s) == [i \in DOMAIN s |->
                [is |-> s[i], line |-> 1 + Cardinality({j \in 1..(i - 1) : s[j] = "newline"})]]
Own(t) == [i \in DOMAIN t |-> [is |-> t[i], line |-> 0]]
Omitted  == Own(<<"newline", "omitted", "newline">>)
Redacted == Own(<<"redacted">>)
Malformed == Own(<<"malformed">>)

First(s, n) == SubSeq(s, 1, IF n < Len(s) THEN n ELSE Len(s))
Final(s, n) == SubSeq(s, IF n < Len(s) THEN Len(s) - n + 1 ELSE 1, Len(s))
Newlines(s) == {i \in DOMAIN s : s[i].is = "newline"}

\* capture_stream: a head, and of what follows a tail; whatever follows the head counts as
\* truncation.
Captured(s) ==
  IF Len(s) <= HeadBytes THEN [bytes |-> s, truncated |-> FALSE]
  ELSE [bytes |-> First(s, HeadBytes) \o Omitted \o Final(SubSeq(s, HeadBytes + 1, Len(s)), TailBytes),
        truncated |-> TRUE]

\* contains_secret_assignment looks at the first place the name stands.
IsSecret(l) == \E i \in 1..(Len(l) - 1) :
                 /\ l[i].is = "name" /\ l[i + 1].is = "value"
                 /\ \A j \in 1..(i - 1) : l[j].is # "name"

\* redact_line, over text.lines() joined again.
Split(s) ==
  FoldLeft(LAMBDA acc, c : IF c.is = "newline" THEN Append(acc, <<>>)
                           ELSE [acc EXCEPT ![Len(acc)] = Append(@, c)], <<<<>>>>, s)
Redact(s) ==
  FlattenSeq([i \in DOMAIN Split(s) |->
    (IF i = 1 THEN <<>> ELSE Own(<<"newline">>))
      \o (IF IsSecret(Split(s)[i]) THEN Redacted ELSE Split(s)[i])])

\* truncate_head_tail
HeadTail(s) ==
  LET kept == IF MaxChars > Len(Omitted) THEN MaxChars - Len(Omitted) ELSE 0
  IN IF Len(s) <= MaxChars THEN s
     ELSE First(s, kept \div 2) \o Omitted \o Final(s, kept - kept \div 2)

\* redact_captured_output: the lines the capture cut are dropped before redaction.
\* Faulty variant of WholeHead: the cut line is kept.
CutHead(h) == h
WholeHead(h) == IF Newlines(h) = {} THEN <<>>
                ELSE First(h, CHOOSE i \in Newlines(h) : \A j \in Newlines(h) : j <= i)
WholeTail(t) == IF Newlines(t) = {} THEN <<>>
                ELSE LET first == CHOOSE k \in Newlines(t) : \A j \in Newlines(t) : k <= j
                     IN SubSeq(t, first + 1, Len(t))
RedactCaptured(b, truncated) ==
  LET end == HeadBytes + Len(Omitted) IN
  IF ~truncated THEN HeadTail(Redact(b))
  ELSE IF SubSeq(b, HeadBytes + 1, end) # Omitted THEN Malformed
  ELSE HeadTail(Redact(WholeHead(First(b, HeadBytes)) \o Omitted
                         \o WholeTail(SubSeq(b, end + 1, Len(b)))))

\* redact_and_truncate_output and its _tail.
Beginning(t) == IF Len(t) <= MaxChars THEN t ELSE First(t, MaxChars) \o Omitted
Ending(t) == IF Len(t) <= MaxChars THEN t ELSE Omitted \o Final(t, MaxChars)

\* What is there to report: a capture, the first bytes of an artifact, or all that gh printed.
Kept(route, s) ==
  CASE route \in {"no_shell", "command", "guarded"} -> Captured(s).bytes
    [] route = "artifact" -> First(s, HeadBytes)
    [] route \in {"log_head", "log_tail"} -> s

\* run_no_shell_command; command_result of the Docker jobs; text_artifact of Harbor's evidence;
\* github_pr_run; and run_guarded_command, which prints what was captured.
Routes == {"no_shell", "command", "artifact", "log_head", "log_tail", "guarded"}
Report(route, s) ==
  CASE route = "no_shell" -> RedactCaptured(Captured(s).bytes, Captured(s).truncated)
    [] route \in {"command", "artifact", "log_head"} -> Beginning(Redact(Kept(route, s)))
    [] route = "log_tail" -> Ending(Redact(s))
    [] route = "guarded" -> Kept(route, s)

TypeOK == /\ Len(stream) <= MaxLength /\ via \in Routes
          /\ \A i \in DOMAIN report : report[i].line \in 0..(MaxLength + 1)

Init == /\ \E s \in BoundedSeq(Lettered \cup {"newline"}, MaxLength) : stream = Stream(s)
        /\ via \in Routes /\ report = <<>>

Make == report = <<>> /\ report' = Report(via, stream) /\ UNCHANGED <<stream, via>>

Next == Make
Spec == Init /\ [][Next]_vars

Line(n) == SelectSeq(stream, LAMBDA c : c.line = n /\ c.is # "newline")
SecretLines == {n \in 1..(Len(stream) + 1) : IsSecret(Line(n))}
KeptWhole == {n \in SecretLines : \E l \in Range(Split(Kept(via, stream))) : l = Line(n)}

\* Nothing of a line that redaction would hide is reported, wherever the capture and the
\* character limit cut the stream: redact_captured_output drops the partial lines at both cuts,
\* and truncation comes after redaction.  The results of Docker jobs and Harbor's artifacts are
\* redacted as they were cut, so there it holds of the lines that the cut left whole, and
\* run_guarded_command redacts nothing.  No report exceeds its limit by more than the mark that
\* says so.
ShowsNoCutSecret ==
  /\ \A i \in DOMAIN report :
       /\ via \in {"no_shell", "log_head", "log_tail"} => report[i].line \notin SecretLines
       /\ via \in {"command", "artifact"} => report[i].line \notin KeptWhole
  /\ Len(report) <= IF via = "guarded" THEN HeadBytes + Len(Omitted) + TailBytes
                    ELSE MaxChars + Len(Omitted)
=============================================================================
