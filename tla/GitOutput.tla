------------------------------ MODULE GitOutput ------------------------------
(***************************************************************************)
(* What the server reads out of Git's answers (crates/core/src/git/        *)
(* state.rs and status.rs): the NUL-separated records of git status and of *)
(* git diff --name-status, the bounded sample of a status report, and HEAD *)
(* of a repository that may have no commit.  A field is either a record    *)
(* with two status letters and a path, or a bare path; a file may be named *)
(* so that its bare path reads like a record.                              *)
(***************************************************************************)
EXTENDS Naturals, Sequences, FiniteSets, SequencesExt

CONSTANTS Paths,        \* what changed is named by these
          Lookalike,    \* a path spelled like an untracked record of ..
          Hidden,       \* .. this path, which did not change and is none of Paths
          None,
          MaxChanges,   \* bound on the changes of one answer
          Capture,      \* how many fields the bounded capture holds
          MaxSampled, MaxBytes, Size  \* the sample's limits, and the bytes of a change

VARIABLES changes,  \* what git status has to report, in its order
          commits,  \* whether any revision exists
          headed,   \* whether HEAD resolves to one
          asked,    \* the parser in use
          reply     \* what it made of Git's answer

vars == <<changes, commits, headed, asked, reply>>

(* --------------------------- what Git prints --------------------------- *)
Kinds == {<<" ", "M">>, <<"M", "M">>, <<" ", "D">>, <<"?", "?">>, <<"!", "!">>, <<"R", " ">>,
          <<"C", " ">>}
Doubled(k) == "R" \in ToSet(k) \/ "C" \in ToSet(k)
Changes == {[kind |-> k, path |-> p, from |-> f] : k \in Kinds, p \in Paths, f \in Paths \cup {None}}
IsChange(c) == IF Doubled(c.kind) THEN c.from \in Paths \ {c.path} ELSE c.from = None
Reports == {s \in BoundedSeq({c \in Changes : IsChange(c)}, MaxChanges) :
              \A i, j \in DOMAIN s : i # j => s[i].path # s[j].path}

Bare(p) == [kind |-> None, path |-> p]
\* status --porcelain=v1 -z: the new path with the letters, then the original path bare.
Entry(fields, c) ==
  LET lettered == Append(fields, [kind |-> c.kind, path |-> c.path])
  IN IF Doubled(c.kind) THEN Append(lettered, Bare(c.from)) ELSE lettered
Porcelain(s) == FoldLeft(Entry, <<>>, s)
\* diff --cached --name-status -z: the status a field of its own, then one path or two.
Lettered(fields, c) ==
  LET letters == Append(fields, [kind |-> c.kind, path |-> None])
  IN Append(IF Doubled(c.kind) THEN Append(letters, Bare(c.from)) ELSE letters, Bare(c.path))
NameStatus(s) == FoldLeft(Lettered, <<>>, s)

(* ------------------------- what the code reads ------------------------- *)
\* The letters of a field taken for a record: ensure_porcelain_entry_shape.
Shape(f) == IF f.kind # None THEN f
            ELSE IF f.path = Lookalike THEN [kind |-> <<"?", "?">>, path |-> Hidden]
            ELSE Bare(f.path)

Nothing == [ok |-> TRUE, recs |-> <<>>, open |-> FALSE]
\* Faulty variant of Record: the original of a rename is left in the stream.
RecordAlone(acc, f) ==
  [ok |-> acc.ok /\ Shape(f).kind # None,
   recs |-> Append(acc.recs, [kind |-> Shape(f).kind, path |-> Shape(f).path, from |-> None]),
   open |-> FALSE]
\* One record, or the bare original of the record before it.
Record(acc, f) ==
  IF acc.open
  THEN [acc EXCEPT !.open = FALSE, !.recs[Len(acc.recs)].from = f.path]
  ELSE [ok |-> acc.ok /\ Shape(f).kind # None,
        recs |-> Append(acc.recs, [kind |-> Shape(f).kind, path |-> Shape(f).path, from |-> None]),
        open |-> Shape(f).kind # None /\ Doubled(Shape(f).kind)]
Parsed(acc, f) == IF acc.ok THEN Record(acc, f) ELSE acc
Records(fields) == FoldLeft(Parsed, Nothing, fields)

\* parse_name_status_paths: a status, then as many paths as it carries.
Staged(acc, f) ==
  IF acc.left = 0
  THEN [acc EXCEPT !.left = IF f.kind # None /\ Doubled(f.kind) THEN 2 ELSE 1]
  ELSE [paths |-> acc.paths \cup {f.path}, left |-> acc.left - 1]
NoneListed == [paths |-> {}, left |-> 0]
Listed(fields) == FoldLeft(Staged, NoneListed, fields)

ReadPaths(recs)   == {r.path : r \in ToSet(recs)} \cup ({r.from : r \in ToSet(recs)} \ {None})
ReadSources(recs) == {r.from : r \in {q \in ToSet(recs) : "R" \in ToSet(q.kind)}}
ReadUntracked(recs, letters) == {r.path : r \in {q \in ToSet(recs) : q.kind \in letters}}

Parsers == {"paths", "sources", "untracked", "ignored", "dirty", "staged", "sample"}
ConstantsAreSane ==
  /\ MaxChanges \in Nat /\ Capture \in Nat /\ MaxSampled \in Nat /\ MaxBytes \in Nat
  /\ Size \in [Paths -> Nat]
  /\ None \notin Paths /\ None \notin Kinds /\ None \notin Parsers \cup {"head", "revisions"}
  /\ None # [is |-> "unborn"]

Refused == [is |-> "refused"]
Answer(paths) == [is |-> "paths", paths |-> paths]

\* A capture that filled up is refused, however well it would parse.
Complete(fields) == Len(fields) <= Capture

ReadStatus(p, fields) ==
  LET r == Records(fields) IN
  IF ~Complete(fields) \/ ~r.ok \/ r.open THEN Refused
  ELSE CASE p = "paths"     -> Answer(ReadPaths(r.recs))
         [] p = "sources"   -> Answer(ReadSources(r.recs))
         [] p = "untracked" -> Answer(ReadUntracked(r.recs, {<<"?", "?">>}))
         [] p = "ignored"   -> Answer(ReadUntracked(r.recs, {<<"?", "?">>, <<"!", "!">>}))
         \* status::dirty_paths knows no renames.
         [] p = "dirty"     -> IF \E k \in DOMAIN r.recs : Doubled(r.recs[k].kind) THEN Refused
                               ELSE Answer(ReadPaths(r.recs))

\* cached_paths
ReadStaged(fields) ==
  LET r == Listed(fields) IN
  IF ~Complete(fields) \/ r.left # 0 THEN Refused ELSE Answer(r.paths)

\* status_snapshot: the first changes that fit, a separator between two of them.
Longer(bytes, c) == bytes + Size[c.path]
Length(s) == FoldLeft(Longer, 0, s)
Bytes(s, n) == Length(SubSeq(s, 1, n)) + (IF n = 0 THEN 0 ELSE n - 1)
Sampled(s) == CHOOSE n \in 0..Len(s) :
                /\ n <= MaxSampled /\ Bytes(s, n) <= MaxBytes
                /\ n < Len(s) => n = MaxSampled \/ Bytes(s, n + 1) > MaxBytes
ReadSample(s) ==
  IF ~Complete(s) THEN Refused
  ELSE [is |-> "sample", clean |-> s = <<>>, count |-> Len(s), shown |-> SubSeq(s, 1, Sampled(s)),
        cut |-> Sampled(s) < Len(s)]

(* ------------------------------- behaviour ------------------------------- *)
TypeOK == /\ changes \in Reports /\ commits \in BOOLEAN /\ headed \in BOOLEAN
          /\ asked \in Parsers \cup {None, "head", "revisions"}

Init == /\ changes \in Reports /\ asked = None /\ reply = None
        /\ commits \in BOOLEAN /\ headed \in BOOLEAN /\ (headed => commits)
        /\ changes # <<>> => ~commits

Ask(p) ==
  /\ asked = None
  /\ asked' = p
  /\ reply' = CASE p = "staged" -> ReadStaged(NameStatus(changes))
                [] p = "sample" -> ReadSample(changes)
                [] OTHER        -> ReadStatus(p, Porcelain(changes))
  /\ UNCHANGED <<changes, commits, headed>>

\* head: rev-parse, and if that fails rev-list --all --count.
AskHead ==
  /\ asked = None
  /\ asked' = IF headed THEN "head" ELSE "revisions"
  /\ reply' = IF headed THEN [is |-> "commit"] ELSE None
  /\ UNCHANGED <<changes, commits, headed>>
CountRevisions ==
  /\ asked = "revisions"
  /\ asked' = "head"
  /\ reply' = IF commits THEN Refused ELSE [is |-> "unborn"]
  /\ UNCHANGED <<changes, commits, headed>>

\* The first commit, by somebody else.
OthersCommit ==
  /\ ~headed /\ reply = None
  /\ commits' = TRUE /\ headed' = TRUE
  /\ UNCHANGED <<changes, asked, reply>>

Next == (\E p \in Parsers : Ask(p)) \/ AskHead \/ CountRevisions \/ OthersCommit
Spec == Init /\ [][Next]_vars

(* ------------------------------- properties ------------------------------- *)
Of(kinds) == {c \in ToSet(changes) : c.kind \in kinds}
Originals(S) == {c.from : c \in S} \ {None}
Meant(p) ==
  CASE p \in {"paths", "dirty", "staged"} -> {c.path : c \in ToSet(changes)}
                                               \cup Originals(ToSet(changes))
    [] p = "sources"   -> Originals({c \in ToSet(changes) : "R" \in ToSet(c.kind)})
    [] p = "untracked" -> {c.path : c \in Of({<<"?", "?">>})}
    [] p = "ignored"   -> {c.path : c \in Of({<<"?", "?">>, <<"!", "!">>})}

\* Every set of paths the code reads out of an answer of Git is exactly the set Git meant,
\* renames with both sides and files named like a record included, and an answer the
\* capture cut is refused rather than read as a smaller one.  A sampled report counts
\* every change and says when it shows fewer; a repository is called unborn only while
\* it has no commit (parse_porcelain_paths and its siblings, ensure_output_complete,
\* status_snapshot, head).
ReadsWhatGitMeant ==
  /\ asked \in Parsers \ {"sample"} /\ reply.is = "paths" => reply.paths = Meant(asked)
  /\ asked \in Parsers \ {"dirty"} /\ Complete(NameStatus(changes)) => reply.is # "refused"
  /\ asked \in Parsers /\ asked = "sample" /\ reply.is = "sample" =>
       /\ reply.count = Len(changes) /\ reply.clean = (changes = <<>>)
       /\ IsPrefix(reply.shown, changes) /\ reply.cut = (reply.shown # changes)
       /\ Len(reply.shown) <= MaxSampled /\ Bytes(reply.shown, Len(reply.shown)) <= MaxBytes
  /\ asked = "head" /\ reply.is = "unborn" => ~headed
=============================================================================
