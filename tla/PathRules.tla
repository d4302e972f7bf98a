----------------------------- MODULE PathRules ------------------------------
(***************************************************************************)
(* The rules by which the tools accept a path a caller spells, and the     *)
(* spelling each hands on.  Each part of core and server has a function of *)
(* its own for this, and a request often passes several of them: what one  *)
(* has checked, another one acts on.                                       *)
(*                                                                         *)
(* A spelling is the sequence of its segments between slashes: <<"", "a">> *)
(* is /a, <<"a", "">> is a/, <<"">> is the empty string.                   *)
(***************************************************************************)
EXTENDS Naturals, Sequences, SequencesExt

CONSTANTS Plain,      \* names of entries
          Magic,      \* names with a wildcard of Git's pathspecs
          Colon,      \* names that begin with a colon
          Backslash,  \* names with a backslash
          GitDir,     \* .git
          MaxLength,  \* bound on the segments of a spelling
          None

VARIABLES raw, rule, answer
vars == <<raw, rule, answer>>

Names == Plain \cup Magic \cup Colon \cup Backslash \cup {GitDir}
Blank == ""              \* before a leading slash, after a trailing one, between two
NamesAreNames == {Blank, ".", ".."} \cap Names = {}
ConstantsAreSane == NamesAreNames /\ MaxLength \in Nat
Segments == Names \cup {Blank, ".", ".."}
Spellings == UNION {[1..n -> Segments] : n \in 1..MaxLength}
Empty == <<Blank>>
Has(s, S) == \E i \in DOMAIN s : s[i] \in S

-----------------------------------------------------------------------------
(* std::path, which drops empty segments and, but for a leading one, dots. *)

Absolute(s) == s[1] = Blank /\ Len(s) > 1
CurDir(s) == s[1] = "."
\* The components other than RootDir and CurDir.
Named(path, x) == IF x \in {Blank, "."} THEN path ELSE Append(path, x)
Components(s) == FoldLeft(Named, <<>>, s)
Normal(s) == ~Absolute(s) /\ ~CurDir(s) /\ ~Has(s, {".."})

-----------------------------------------------------------------------------
(* The rules.  Each answers None or the spelling it hands on; <<>> is the  *)
(* root.                                                                   *)

If(accepts, spelling) == IF accepts THEN spelling ELSE None

\* guarded_file::normalize_relative_path
GuardedFilePath(s) == If(s # Empty /\ Normal(s), Components(s))

\* executable::normalize_relative_path
ExecutablePath(s) == If(s # Empty /\ Normal(s), Components(s))

\* normalize_directory_path: Path equality takes ./ for a dot.
DirectoryPath(s) ==
  IF CurDir(s) /\ Components(s) = <<>> THEN <<>> ELSE If(s # Empty /\ Normal(s), Components(s))

\* Faulty variant of JournalPath: a leading dot is dropped as well.
JournalPathLenient(s) == If(s # Empty /\ ~Absolute(s) /\ ~Has(s, {".."}), Components(s))
\* validate_relative_path, normalize_repo_relative_path: what the journal records.
JournalPath(s) == If(s # Empty /\ Normal(s), Components(s))

\* Faulty variant of GitShape: a climb is looked for in front only.
GitShapeByPrefix(s) == s # Empty /\ ~Absolute(s) /\ s[1] # ".." /\ ~Has(s, Magic) /\ s[1] \notin Colon
\* ensure_git_path_shape, git_path: the spelling stays as it is.
GitShape(s) == s # Empty /\ Normal(s) /\ ~Has(s, Magic) /\ s[1] \notin Colon
GitPath(s) == If(GitShape(s), s)

\* git_prefixes
Trimmed(s) ==
  LET kept == {i \in DOMAIN s : s[i] # Blank}
  IN IF kept = {} THEN Empty ELSE SubSeq(s, 1, CHOOSE i \in kept : \A j \in kept : j <= i)
GitPrefix(s) == IF Trimmed(s) = Empty THEN None ELSE GitPath(Trimmed(s))

\* guarded_path::normalize_relative_path: one spelling per path, none of it in .git.
AsSpelled(s) == Components(s) = s
WorktreePath(s) ==
  If(s # Empty /\ Normal(s) /\ AsSpelled(s) /\ s[1] \notin Colon /\ ~Has(s, Magic \cup Backslash \cup {GitDir}), s)

\* normalize_repository_selector
Selector(s) == If(s # Empty /\ Normal(s) /\ AsSpelled(s) /\ ~Has(s, Backslash \cup {GitDir}), s)

\* task_image::normalize_relative
TaskPath(s) == If(s # Empty /\ ~Has(s, Backslash) /\ Normal(s), Components(s))

\* normalized_relative_cwd; an absolute spelling is one outside the root.
WorkingDirectory(s) == If(~Absolute(s) /\ ~Has(s, {".."}), Components(s))

\* safe_relative_components, likewise.
NewDirectory(s) == If(~Absolute(s) /\ ~Has(s, {".."}) /\ Components(s) # <<>>, Components(s))

Rules == {"guarded file", "executable", "directory", "journal", "git", "git prefix", "worktree",
          "selector", "task", "working directory", "new directory"}

Answer(r, s) ==
  CASE r = "guarded file" -> GuardedFilePath(s)   [] r = "executable" -> ExecutablePath(s)
    [] r = "directory" -> DirectoryPath(s)        [] r = "journal" -> JournalPath(s)
    [] r = "git" -> GitPath(s)                    [] r = "git prefix" -> GitPrefix(s)
    [] r = "worktree" -> WorktreePath(s)          [] r = "selector" -> Selector(s)
    [] r = "task" -> TaskPath(s)                  [] r = "working directory" -> WorkingDirectory(s)
    [] r = "new directory" -> NewDirectory(s)

-----------------------------------------------------------------------------
Init == raw \in Spellings /\ rule \in Rules /\ answer = "none yet"
Check == answer = "none yet" /\ answer' = <<Answer(rule, raw)>> /\ UNCHANGED <<raw, rule>>
Next == Check
Spec == Init /\ [][Next]_vars

-----------------------------------------------------------------------------
(* What the kernel and Git take a spelling for, when no component is a     *)
(* symbolic link: its entry below the root, or Outside.                    *)

Outside == <<"..">>
Step(at, x) ==
  CASE at = Outside \/ x \in {Blank, "."} -> at
    [] x = ".." -> IF at = <<>> THEN Outside ELSE Front(at)
    [] OTHER -> Append(at, x)
Walk(s) == FoldLeft(Step, <<>>, s)
Meant(s) == IF s # <<>> /\ Absolute(s) THEN Outside ELSE Walk(s)

\* Rules whose answers are compared as text, with each other and with what Git prints.
Texts == {"guarded file", "executable", "directory", "journal", "worktree", "selector", "task",
          "working directory", "new directory"}

\* Whatever rule accepts a path, the spelling it hands on names the same entry as the
\* caller's, in or at the root; and the rules whose answers are compared as text spell one
\* entry one way, so that the name a receipt records is the name the edit acts on.
NamesOneEntry ==
  answer # "none yet" /\ answer # <<None>> =>
    LET s == answer[1]
    IN /\ Meant(s) = Meant(raw)
       /\ Meant(s) # Outside
       /\ rule \in Texts => s = Meant(raw)

\* The journal and the guarded edits accept the same paths, and the stricter rules for
\* tracked files and repositories only paths the journal would record under that name.
JournalSpeaksForEdits ==
  answer # "none yet" /\ rule \in {"guarded file", "executable", "worktree", "selector", "task"} =>
    LET j == JournalPath(raw)
    IN /\ answer # <<None>> => answer = <<j>>
       /\ rule \in {"guarded file", "executable"} => (answer = <<None>> <=> j = None)
=============================================================================
