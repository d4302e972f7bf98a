----------------------------- MODULE MCGitTools -----------------------------
(***************************************************************************)
(* The tools around a Git repository, one part of them in each behaviour:  *)
(* the changes of a worktree (WorktreeChanges, with the small repositories *)
(* of MCWorktreeChanges), the synchronisation with a remote (GitSync), the *)
(* readings of what Git prints (GitOutput), the spellings of paths         *)
(* (PathRules), and what callers are shown: files (FileReads), directories *)
(* (DirectoryListing), the output of commands (CommandReports), the edit   *)
(* of a text (TextEdits) and the runs of Harbor (HarborRuns).  Every part  *)
(* has variables of its own, which the others leave alone.                 *)
(***************************************************************************)
EXTENDS MCWorktreeChanges

CONSTANTS
  Branches, MaxLen, MaxMoves,                              \* of GitSync
  Reported, Lookalike, Unchanged, MaxReported, Capture,    \* Paths, Hidden, MaxChanges ... of GitOutput
  MaxSampled, MaxSample, NameBytes,
  Plain, Magic, Colon, Backslash, GitDir, MaxLength,       \* of PathRules
  Buffer, MaxSize, MaxWrites, Offsets, Counts,             \* of FileReads
  Size, Limits, Depths, MaxRemovals,                       \* of DirectoryListing
  TrialNames, Given, MaxRewards, MaxTrials, MaxEvidence,   \* of HarborRuns
  HeadBytes, TailBytes, MaxChars, MaxStream,               \* of CommandReports
  Letters, MaxText, MaxOld, MaxNew, MaxEntries             \* of TextEdits

VARIABLES part,
  remote, tracking, local, current, edit, task, next, noted, told, moves,
  changes, commits, headed, asked, reply,
  raw, rule, answer,
  content, stamp, clock, named, read, seen, blurred, writes,
  parent, kind, hidden, query, pending, names, entries, truncated, stage, removals,
  req, pc, at, exit, job, failed, timedOut, rewards, missing, past, az, report,
  stream, via, shown,
  request, outcome
syncs == <<remote, tracking, local, current, edit, task, next, noted, told, moves>>
outputs == <<changes, commits, headed, asked, reply>>
spellings == <<raw, rule, answer>>
reads == <<content, stamp, clock, named, read, seen, blurred, writes>>
listings == <<parent, kind, hidden, query, pending, names, entries, truncated, stage, removals>>
harbors == <<req, pc, at, exit, job, failed, timedOut, rewards, missing, past, az, report>>
reports == <<stream, via, shown>>
texts == <<request, outcome>>

Sync == INSTANCE GitSync WITH call <- task, pc <- next, read <- noted, reply <- told

Output == INSTANCE GitOutput WITH
  Paths <- Reported, Hidden <- Unchanged, Size <- NameBytes, MaxChanges <- MaxReported, MaxBytes <- MaxSample

Spelling == INSTANCE PathRules

Reading == INSTANCE FileReads

Listing == INSTANCE DirectoryListing WITH MaxChanges <- MaxRemovals, call <- query, pc <- stage, changes <- removals

Harbor == INSTANCE HarborRuns WITH Names <- TrialNames, MaxBytes <- MaxEvidence

Report == INSTANCE CommandReports WITH MaxLength <- MaxStream, report <- shown

Text == INSTANCE TextEdits WITH report <- outcome

ASSUME PartsAreSane == /\ Sync!ConstantsAreSane /\ Output!ConstantsAreSane
                       /\ Spelling!ConstantsAreSane /\ Harbor!ConstantsAreSane

(* A change takes as many bytes of a sample as its name is long. *)
ShortNames == [name \in Reported |-> IF name = CHOOSE n \in Reported : TRUE THEN 2 ELSE 1]

Clean == head = [r \in Paths |-> None] /\ index = head /\ work = head /\ call = None
NoSync == /\ remote = None /\ tracking = None /\ local = None /\ current = None /\ edit = None
          /\ task = None /\ next = None /\ noted = None /\ told = None /\ moves = None
NoOutput == changes = None /\ commits = None /\ headed = None /\ asked = None /\ reply = None
NoSpelling == raw = None /\ rule = None /\ answer = None
NoRead == /\ content = None /\ stamp = None /\ clock = None /\ named = None
          /\ read = None /\ seen = None /\ blurred = None /\ writes = None
NoListing == /\ parent = None /\ kind = None /\ hidden = None /\ query = None /\ pending = None
             /\ names = None /\ entries = None /\ truncated = None /\ stage = None /\ removals = None
NoHarbor == /\ req = None /\ pc = None /\ at = None /\ exit = None /\ job = None /\ failed = None
            /\ timedOut = None /\ rewards = None /\ missing = None /\ past = None /\ az = None /\ report = None
NoReport == stream = None /\ via = None /\ shown = None
NoText == request = None /\ outcome = None

MCInit ==
  \/ /\ part = "changes" /\ Init
     /\ NoSync /\ NoOutput /\ NoSpelling /\ NoRead /\ NoListing /\ NoHarbor /\ NoReport /\ NoText
  \/ /\ Clean
     /\ \/ /\ part = "sync" /\ Sync!Init
           /\ NoOutput /\ NoSpelling /\ NoRead /\ NoListing /\ NoHarbor /\ NoReport /\ NoText
        \/ /\ part = "output" /\ Output!Init
           /\ NoSync /\ NoSpelling /\ NoRead /\ NoListing /\ NoHarbor /\ NoReport /\ NoText
        \/ /\ part = "spelling" /\ Spelling!Init
           /\ NoSync /\ NoOutput /\ NoRead /\ NoListing /\ NoHarbor /\ NoReport /\ NoText
        \/ /\ part = "read" /\ Reading!Init
           /\ NoSync /\ NoOutput /\ NoSpelling /\ NoListing /\ NoHarbor /\ NoReport /\ NoText
        \/ /\ part = "list" /\ Listing!Init
           /\ NoSync /\ NoOutput /\ NoSpelling /\ NoRead /\ NoHarbor /\ NoReport /\ NoText
        \/ /\ part = "harbor" /\ Harbor!Init
           /\ NoSync /\ NoOutput /\ NoSpelling /\ NoRead /\ NoListing /\ NoReport /\ NoText
        \/ /\ part = "report" /\ Report!Init
           /\ NoSync /\ NoOutput /\ NoSpelling /\ NoRead /\ NoListing /\ NoHarbor /\ NoText
        \/ /\ part = "text" /\ Text!Init
           /\ NoSync /\ NoOutput /\ NoSpelling /\ NoRead /\ NoListing /\ NoHarbor /\ NoReport

MCNext ==
  /\ UNCHANGED part
  /\ \/ /\ part = "changes" /\ Next
        /\ UNCHANGED <<syncs, outputs, spellings, reads, listings, harbors, reports, texts>>
     \/ /\ part = "sync" /\ Sync!Next
        /\ UNCHANGED <<vars, outputs, spellings, reads, listings, harbors, reports, texts>>
     \/ /\ part = "output" /\ Output!Next
        /\ UNCHANGED <<vars, syncs, spellings, reads, listings, harbors, reports, texts>>
     \/ /\ part = "spelling" /\ Spelling!Next
        /\ UNCHANGED <<vars, syncs, outputs, reads, listings, harbors, reports, texts>>
     \/ /\ part = "read" /\ Reading!Next
        /\ UNCHANGED <<vars, syncs, outputs, spellings, listings, harbors, reports, texts>>
     \/ /\ part = "list" /\ Listing!Next
        /\ UNCHANGED <<vars, syncs, outputs, spellings, reads, harbors, reports, texts>>
     \/ /\ part = "harbor" /\ Harbor!Next
        /\ UNCHANGED <<vars, syncs, outputs, spellings, reads, listings, reports, texts>>
     \/ /\ part = "report" /\ Report!Next
        /\ UNCHANGED <<vars, syncs, outputs, spellings, reads, listings, harbors, texts>>
     \/ /\ part = "text" /\ Text!Next
        /\ UNCHANGED <<vars, syncs, outputs, spellings, reads, listings, harbors, reports>>

everything == <<part, vars, syncs, outputs, spellings, reads, listings, harbors, reports, texts>>
MCSpec == MCInit /\ [][MCNext]_everything
Symmetry == Permutations(Branches)

-----------------------------------------------------------------------------
(* The counts and branches that synchronisation reports agree with the     *)
(* commits it names, although the refs move meanwhile (GitSync).           *)
HonestReports == part = "sync" => Sync!TypeOK /\ Sync!HonestReports

(* A push moves one branch, forward, to the expected commit, and no tool   *)
(* that synchronises drops commits or seen edits without a confirmed reset *)
(* (GitSync).                                                              *)
MovesOnlyWhatItMay == [][part = "sync" => Sync!PushesTheExpected /\ Sync!DropsNothing]_syncs

(* What the parsers make of Git's bounded output is what Git meant         *)
(* (GitOutput).                                                            *)
ReadsWhatGitMeant == part = "output" => Output!TypeOK /\ Output!ReadsWhatGitMeant

(* An accepted spelling names one entry, the caller's, for every rule, and *)
(* the journal knows it by the name the edit has for it (PathRules).       *)
NamesOneEntry == part = "spelling" => Spelling!NamesOneEntry /\ Spelling!JournalSpeaksForEdits

(* A hashed read is of one moment of the file, its lines and bytes are     *)
(* those of the text hashed (FileReads), and a listing holds what was      *)
(* asked for and says when it leaves some out (DirectoryListing).          *)
HonestReads ==
  /\ part = "read" => Reading!TypeOK /\ Reading!ReadsOneMoment /\ Reading!ReportsWhatItHashed
  /\ part = "list" => Listing!TypeOK /\ Listing!ListingIsHonest

(* Of a secret line that redaction can know, nothing is reported, wherever *)
(* the capture and the character limit cut the output (CommandReports).    *)
ShowsNoCutSecret == part = "report" => Report!TypeOK /\ Report!ShowsNoCutSecret

(* A completed Harbor profile scored as it must in each of its runs, and   *)
(* the evidence of a Harbor run accounts for every trial (HarborRuns).     *)
HarborIsJudgedFairly ==
  part = "harbor" => Harbor!TypeOK /\ Harbor!PassesWhatScored /\ Harbor!AccountsForTrials

(* An edit of several entries, none of which overlaps itself, changes each *)
(* entry's one place and nothing else, whatever their order, and a preview *)
(* shows what the edit would do (TextEdits).                               *)
EditsWhatMatched == part = "text" => Text!ReplacesEachPlace /\ Text!ShowsTheEdit
=============================================================================
