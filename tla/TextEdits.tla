------------------------------ MODULE TextEdits ------------------------------
(***************************************************************************)
(* How the entries of a guarded replacement are placed in the text of one  *)
(* file (crates/core/src/replace/exact.rs), and the preview of one entry   *)
(* as a line diff (crates/core/src/patch/diff.rs).  Positions count        *)
(* letters from 1; a hunk runs from start to end, end excluded.            *)
(***************************************************************************)
EXTENDS Integers, Sequences, FiniteSets, SequencesExt

CONSTANTS Letters,                \* of texts, "newline" among them
          MaxText, MaxOld, MaxNew, MaxEntries,  \* bounds on the requests
          None

VARIABLES request, report  \* report is None until the request is answered
vars == <<request, report>>

Texts(n) == BoundedSeq(Letters, n)
\* A digest is the file's current one or not; the entries of a request may expect several.
Entries(news, digests) == [old: Texts(MaxOld), new: news, sha: digests]
Edits == BoundedSeq(Entries({<<>>, <<"new">>}, {None, "current", "older"}), 2)
           \cup BoundedSeq(Entries({<<"new">>}, {None}), MaxEntries)
TextRequests == [kind: {"preview"}, text: Texts(MaxText), entries: [{1} -> Entries(Texts(MaxNew), {None})]]
                 \cup [kind: {"edit"}, text: Texts(MaxText), entries: Edits \ {<<>>}]

----------------------------------------------------------------------------
Occurs(t, old, i) == i + Len(old) - 1 <= Len(t) /\ SubSeq(t, i, i + Len(old) - 1) = old
\* Faulty variant of Matches: the search ends with the first.
FirstMatch(t, old) == LET at == SelectSeq([i \in DOMAIN t |-> i], LAMBDA i : Occurs(t, old, i))
                      IN IF at = <<>> THEN <<>> ELSE <<Head(at)>>
\* match_indices: from left to right, each behind the end of the one before.
Matches(t, old) ==
  FoldLeft(LAMBDA acc, i : IF Occurs(t, old, i) /\ (acc = <<>> \/ Last(acc) + Len(old) <= i)
                           THEN Append(acc, i) ELSE acc,
           <<>>, [i \in DOMAIN t |-> i])

Expected(es) == {i \in DOMAIN es : es[i].sha # None}
Least(S) == CHOOSE i \in S : \A j \in S : i <= j
Contradicting(es) == {i \in Expected(es) : es[i].sha # es[Least(Expected(es))].sha}
Unplaced(t, es) == {i \in DOMAIN es : Len(Matches(t, es[i].old)) # 1}

Placed(t, es) ==
  LET at(i) == Head(Matches(t, es[i].old))
      hunk(i) == [entry |-> i, start |-> at(i), end |-> at(i) + Len(es[i].old)]
      before(g, h) == \/ g.start < h.start
                      \/ g.start = h.start /\ g.end < h.end
                      \/ g.start = h.start /\ g.end = h.end /\ g.entry < h.entry
  IN SetToSortSeq({hunk(i) : i \in DOMAIN es}, before)
\* Faulty variant of Conflicts: only identical places.
Duplicates(hs) == {k \in 2..Len(hs) : hs[k].start = hs[k - 1].start /\ hs[k].end = hs[k - 1].end}
\* reject_conflicting_hunks looks at neighbours only.
Conflicts(hs) == {k \in 2..Len(hs) : hs[k].start < hs[k - 1].end}

Updated(t, es, hs) ==
  LET done == FoldLeft(LAMBDA acc, h : [text |-> acc.text \o SubSeq(t, acc.cursor, h.start - 1)
                                                 \o es[h.entry].new,
                                        cursor |-> h.end],
                       [text |-> <<>>, cursor |-> 1], hs)
  IN done.text \o SubSeq(t, done.cursor, Len(t))

\* Answers: the entry that is refused, or the new text.
Refused(i) == [refused |-> i]
Plan(t, es) ==
  CASE \E i \in DOMAIN es : es[i].old = <<>> ->
         Refused(Least({i \in DOMAIN es : es[i].old = <<>>}))
    [] Contradicting(es) # {} -> Refused(Least(Contradicting(es)))
    [] \E i \in Expected(es) : es[i].sha # "current" -> Refused(Least(Expected(es)))
    [] Unplaced(t, es) # {} -> Refused(Least(Unplaced(t, es)))
    [] Conflicts(Placed(t, es)) # {} -> Refused(Placed(t, es)[Least(Conflicts(Placed(t, es)))].entry)
    [] OTHER -> [text |-> Updated(t, es, Placed(t, es))]

----------------------------------------------------------------------------
\* split_inclusive: a line keeps its newline, the last may have none.
Lines(t) ==
  FoldLeft(LAMBDA acc, c : IF acc = <<>> \/ Last(Last(acc)) = "newline" THEN Append(acc, <<c>>)
                           ELSE [acc EXCEPT ![Len(acc)] = Append(@, c)],
           <<>>, t)

\* The common lines that remain from old line i and new line j on.
Larger(m, n) == IF m < n THEN n ELSE m
Lengths(old, new) ==
  LET common[i \in 1..(Len(old) + 1), j \in 1..(Len(new) + 1)] ==
        CASE i > Len(old) \/ j > Len(new) -> 0
          [] i <= Len(old) /\ j <= Len(new) /\ old[i] = new[j] -> common[i + 1, j + 1] + 1
          [] OTHER -> Larger(common[i + 1, j], common[i, j + 1])
  IN common
Shown(mark, line) == [mark |-> mark, line |-> line]
\* Faulty variant of Script: whatever differs is removed and added.
ScriptGreedy(old, new) ==
  LET s[i \in 1..(Len(old) + 1), j \in 1..(Len(new) + 1)] ==
        CASE i <= Len(old) /\ j <= Len(new) /\ old[i] = new[j] ->
               <<Shown(" ", old[i])>> \o s[i + 1, j + 1]
          [] i <= Len(old) /\ (j > Len(new) \/ old[i] # new[j]) -> <<Shown("-", old[i])>> \o s[i + 1, j]
          [] i > Len(old) /\ j <= Len(new) -> <<Shown("+", new[j])>> \o s[i, j + 1]
          [] OTHER -> <<>>
  IN s[1, 1]
\* diff_script: a line that is not common is removed rather than added, if it may be either.
Script(old, new) ==
  LET common == Lengths(old, new)
      s[i \in 1..(Len(old) + 1), j \in 1..(Len(new) + 1)] ==
        LET both == i <= Len(old) /\ j <= Len(new) IN
        CASE both /\ old[i] = new[j] -> <<Shown(" ", old[i])>> \o s[i + 1, j + 1]
          [] i <= Len(old) /\ (both => old[i] # new[j] /\ common[i + 1, j] >= common[i, j + 1]) ->
               <<Shown("-", old[i])>> \o s[i + 1, j]
          [] j <= Len(new) /\ (both => old[i] # new[j] /\ common[i + 1, j] < common[i, j + 1]) ->
               <<Shown("+", new[j])>> \o s[i, j + 1]
          [] OTHER -> <<>>
  IN s[1, 1]

Preview(t, es) ==
  LET plan == Plan(t, es)
  IN IF "refused" \in DOMAIN plan THEN plan ELSE [script |-> Script(Lines(t), Lines(plan.text))]

Init == request \in TextRequests /\ report = None
Answer == /\ report = None
          /\ report' = IF request.kind = "edit" THEN Plan(request.text, request.entries)
                       ELSE Preview(request.text, request.entries)
          /\ UNCHANGED request
Next == Answer
Spec == Init /\ [][Next]_vars

----------------------------------------------------------------------------
(* What an edit should be, letter by letter and whatever the order of its entries.         *)
Places(t, e) == {i \in DOMAIN t : Occurs(t, e.old, i)}
OccursOnce(t, e) == Cardinality(Places(t, e)) = 1
\* e occurs, and each of its occurrences overlaps all the others.
Entangled(t, e) == /\ Places(t, e) # {}
                   /\ \A i, j \in Places(t, e) : j < i + Len(e.old)
Wanted(e) == e.old # <<>> /\ e.sha \in {None, "current"}
Apart(es, at) == \A k, l \in DOMAIN es : k # l => \/ at[k] + Len(es[k].old) <= at[l]
                                                \/ at[l] + Len(es[l].old) <= at[k]
Edited(t, es, at) ==
  FlattenSeq([i \in DOMAIN t |->
    CASE \E k \in DOMAIN es : at[k] = i -> es[CHOOSE k \in DOMAIN es : at[k] = i].new
      [] \E k \in DOMAIN es : i \in (at[k] + 1)..(at[k] + Len(es[k].old) - 1) -> <<>>
      [] OTHER -> <<t[i]>>])

\* An edit is accepted when each entry expects the current file and occurs once in it, apart from
\* the occurrences of the others; it changes these, all at once, and no other letter.  An entry
\* that is missing, occurs in two places or overlaps another is refused.  What becomes of an
\* entry whose occurrences all overlap each other is left to EditsOneOccurrence
\* (plan_file_replacement, reject_conflicting_hunks).
ReplacesEachPlace ==
  (report # None /\ request.kind = "edit") =>
    LET t == request.text
        es == request.entries
        at == [k \in DOMAIN es |-> IF es[k].old = <<>> \/ Places(t, es[k]) = {} THEN 0
                                   ELSE Least(Places(t, es[k]))]
        refused == report \in {Refused(k) : k \in DOMAIN es}
        edited == report = [text |-> Edited(t, es, at)]
        placed == \A k \in DOMAIN es : Wanted(es[k]) /\ Entangled(t, es[k])
    IN IF ~placed \/ ~Apart(es, at) THEN refused
       ELSE edited \/ (refused /\ \E k \in DOMAIN es : ~OccursOnce(t, es[k]))

\* "Refuse if `old` appears more than once" (docs/tool-spec.md:325): each entry of an accepted edit
\* has one occurrence (match_indices counts occurrences that do not overlap).
EditsOneOccurrence ==
  (report # None /\ request.kind = "edit" /\ "text" \in DOMAIN report) =>
    \A k \in DOMAIN request.entries : OccursOnce(request.text, request.entries[k])

Marked(script, marks) ==
  LET some == SelectSeq(script, LAMBDA l : l.mark \in marks)
  IN FlattenSeq([k \in DOMAIN some |-> some[k].line])
Subsequences(s) == {[k \in 1..Cardinality(S) |-> s[SetToSortSeq(S, LAMBDA i, j : i < j)[k]]] :
                      S \in SUBSET DOMAIN s}

\* The lines of a preview that are not added make up the file, those that are not removed make
\* up what the edit would write, and no script would keep more lines in common
\* (preview_exact_replacement_in_root, diff_script).
ShowsTheEdit ==
  (report # None /\ request.kind = "preview" /\ "script" \in DOMAIN report) =>
    LET t == request.text
        new == Plan(t, request.entries).text
        kept == Cardinality({k \in DOMAIN report.script : report.script[k].mark = " "})
    IN /\ Marked(report.script, {" ", "-"}) = t
       /\ Marked(report.script, {" ", "+"}) = new
       /\ \A s \in Subsequences(Lines(t)) \cap Subsequences(Lines(new)) : Len(s) <= kept
=============================================================================
