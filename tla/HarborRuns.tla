------------------------------ MODULE HarborRuns ------------------------------
(***************************************************************************)
(* Validation profiles, Harbor runs and Azure deployments                  *)
(* (crates/server/src/tools/process/runs.rs) and the evidence read from    *)
(* what Harbor leaves in the repository (tools/harbor.rs).  Each runs      *)
(* guarded commands in a background worker (BackgroundJobs,                *)
(* GuardedCommands); Harbor writes one job: a result file that lists its   *)
(* trials, a directory for every trial, and a summary printed on stdout.   *)
(* Others may remove or cut what it wrote before it is read.               *)
(***************************************************************************)
EXTENDS Integers, Sequences, FiniteSets, SequencesExt

CONSTANTS Names,       \* names of trials: naturals, so that they have an order
          Given,       \* the rewards a trial is given, some of Scores
          None,
          MaxRewards,  \* MAX_STRUCTURED_REWARDS
          MaxTrials,   \* MAX_STRUCTURED_TRIALS
          MaxBytes     \* MAX_STRUCTURED_EVIDENCE_BYTES; what a trial shows takes 1 or 2

VARIABLES req,       \* the request
          pc, at,    \* where the worker is, and the command of the profile it is at
          exit,      \* how the last command ended
          job,       \* the trials of the last Harbor run: their rewards and exceptions
          failed, timedOut, rewards, missing,  \* what a profile has gathered
          past,      \* what every Harbor run of the profile really showed
          az,        \* the az command that was run
          report     \* the reply or terminal log

vars == <<req, pc, at, exit, job, failed, timedOut, rewards, missing, past, az, report>>
gathered == <<failed, timedOut, rewards, missing, past>>

Full == 2                 \* the reward 1.0
Scores == 0..Full
Exits == {"zero", "nonzero", "timeout"}
Jobs == [Names -> [reward : Given \cup {None}, exception : BOOLEAN]]
Agents == {"oracle", "nop"}

\* The profiles differ in their commands; one of them runs Harbor, twice for each agent.
Profile(name) == IF name = "dynamo-harbor-task"
                 THEN <<"git", "bash", "oracle", "nop", "oracle", "nop">>
                 ELSE <<"git", "git">>
Commands == Profile(req.profile)

HarborCalls ==
  [kind : {"profile"}, profile : {"repo-basic", "dynamo-harbor-task"}, stop : BOOLEAN]
    \cup [kind : {"harbor"}, project : {"directory", "symlink", "missing", "dash"}]
    \cup [kind : {"azure"}, dryRun : BOOLEAN, confirmed : BOOLEAN, optIn : BOOLEAN]

Shown == [trial : Names, reward : Scores \cup {None}, opened : BOOLEAN]
Evidences == [rewards : Seq(Scores), omittedRewards : Nat, trials : Seq(Shown), omitted : Nat]
Statuses == {"refused", "completed", "failed", "timed_out", "previewed"}
Replies == [status : Statuses]
             \cup [status : Statuses, ran : Nat, failed : BOOLEAN]
             \cup [status : Statuses, evidence : Evidences \cup {None}]

ConstantsAreSane ==
  /\ Names \subseteq Nat /\ IsFiniteSet(Names) /\ Given \subseteq Scores
  /\ None \notin Scores \cup Seq(Scores) \cup Replies
  /\ MaxRewards \in Nat /\ MaxTrials \in Nat /\ MaxBytes \in Nat

TypeOK == /\ req \in HarborCalls /\ pc \in {"begin", "run", "ended", "verdict", "end"}
          /\ at \in 1..7 /\ exit \in Exits \cup {None} /\ job \in Jobs \cup {None}
          /\ failed \in BOOLEAN /\ timedOut \in BOOLEAN /\ missing \in 0..4
          /\ \A a \in Agents : \A i \in DOMAIN rewards[a] : rewards[a][i] \in Scores
          /\ az \in {None, "what-if", "create"}
          /\ report \in Replies \cup {None} /\ (pc = "end" <=> report # None)

Init == /\ req \in HarborCalls /\ pc = "begin" /\ at = 1 /\ exit = None /\ job = None
        /\ failed = FALSE /\ timedOut = FALSE /\ rewards = [a \in Agents |-> <<>>]
        /\ missing = 0 /\ past = <<>> /\ az = None /\ report = None

Report(r) == pc' = "end" /\ report' = r
Outcome(e) == CASE e = "timeout" -> "timed_out" [] e = "zero" -> "completed" [] OTHER -> "failed"

----------------------------------------------------------------------------
\* What Harbor recorded: reward_stats lists the trials that scored, exception_stats those
\* that raised.  A trial may be in both.
Scored(j) == {n \in Names : j[n].reward # None}
Listed(j) == Scored(j) \cup {n \in Names : j[n].exception}
Scoring(j, s) == {n \in Names : j[n].reward = s}
Times(j, s) == [i \in 1..Cardinality(Scoring(j, s)) |-> s]
Recorded(j) == Times(j, 0) \o Times(j, 1) \o Times(j, Full)

\* Faulty variant of FromFile: a file without rewards counts.
FromFileEvenIfEmpty(j, found) == IF found = "whole" THEN Recorded(j) ELSE None
\* What the file gives.  Only a whole one, beneath jobs/<job>/, is read; one that records
\* no reward gives no answer.
FromFile(j, found) == IF found = "whole" /\ Scored(j) # {} THEN Recorded(j) ELSE None

\* What the output gives otherwise, the first of: the table, one row per reward with its
\* count; the last labelled line; the mean, where a trial without a reward counts as zero.
Mean(j) == (Cardinality(Scoring(j, 1)) + Full * Cardinality(Scoring(j, Full))) \div Cardinality(Listed(j))
FromOutput(j, shown) ==
  IF "table" \in shown /\ Scored(j) # {} THEN {Recorded(j)}
  ELSE IF "labelled" \in shown /\ Scored(j) # {} THEN {<<j[n].reward>> : n \in Scored(j)}
  ELSE IF "mean" \in shown /\ Listed(j) # {} THEN {<<Mean(j)>>} ELSE {None}
Readings(j, found, shown) ==
  IF FromFile(j, found) # None THEN {FromFile(j, found)} ELSE FromOutput(j, shown)

\* What a run really showed, as far as the place it was read from can tell: whether its only
\* trial scored fully, or all of them did; a labelled line tells of one trial alone.
Truth(j, found, shown) ==
  IF Scored(j) # {} /\ (found = "whole" \/ "table" \in shown)
  THEN IF Len(Recorded(j)) # 1 THEN "several" ELSE IF Recorded(j)[1] = Full THEN "full" ELSE "less"
  ELSE IF Scored(j) # {} /\ "labelled" \in shown THEN "one"
  ELSE IF \A n \in Listed(j) : j[n].reward = Full THEN "full" ELSE "less"

----------------------------------------------------------------------------
\* The typed starters check their request; a Harbor project is looked up without following
\* links, and no part of its name may read as an option.
Begin ==
  /\ pc = "begin" /\ UNCHANGED <<req, at, exit, job, gathered>>
  /\ \/ /\ req.kind = "profile" \/ (req.kind = "harbor" /\ req.project = "directory")
        /\ pc' = "run" /\ UNCHANGED <<az, report>>
     \/ /\ req.kind = "harbor" /\ req.project # "directory"
        /\ Report([status |-> "refused"]) /\ UNCHANGED az
     \/ /\ req.kind = "azure" /\ req.dryRun
        /\ pc' = "run" /\ az' = "what-if" /\ UNCHANGED report
     \/ /\ req.kind = "azure" /\ ~req.dryRun
        /\ IF req.confirmed /\ req.optIn THEN pc' = "run" /\ az' = "create" /\ UNCHANGED report
           ELSE Report([status |-> "refused"]) /\ UNCHANGED az

\* One guarded command runs to its end, or cannot be run, which ends the worker.
RunsHarbor == req.kind = "harbor" \/ (req.kind = "profile" /\ Commands[at] \in Agents)
Run ==
  /\ pc = "run" /\ UNCHANGED <<req, at, gathered, az>>
  /\ \/ /\ pc' = "ended" /\ exit' \in Exits /\ UNCHANGED report
        /\ IF RunsHarbor
           THEN job' \in {j \in Jobs : req.kind = "profile" =>
                                         \A n \in Names : j[n].exception = (j[n].reward = None)}
           ELSE UNCHANGED job
     \/ Report([status |-> "failed"]) /\ UNCHANGED <<exit, job>>

\* The profile's loop: a command that failed or timed out fails the profile, a Harbor run's
\* rewards are gathered for its agent, and it goes on unless it stops on failure.
CommandFailed == exit # "zero"
NextCommand ==
  IF (CommandFailed /\ req.stop) \/ at = Len(Commands) THEN pc' = "verdict" /\ UNCHANGED at
  ELSE pc' = "run" /\ at' = at + 1
Gather(values) ==
  IF values = None THEN missing' = missing + 1 /\ UNCHANGED rewards
  ELSE rewards' = [rewards EXCEPT ![Commands[at]] = @ \o values] /\ UNCHANGED missing
Judge ==
  /\ pc = "ended" /\ req.kind = "profile" /\ NextCommand
  /\ failed' = (failed \/ CommandFailed) /\ timedOut' = (timedOut \/ exit = "timeout")
  /\ IF RunsHarbor
     THEN \E found \in {"whole", "unreadable"}, shown \in SUBSET {"table", "labelled", "mean"} :
            /\ \E values \in Readings(job, found, shown) : Gather(values)
            /\ past' = Append(past, Truth(job, found, shown))
     ELSE UNCHANGED <<rewards, missing, past>>
  /\ job' = None /\ exit' = None /\ UNCHANGED <<req, az, report>>

\* The verdict on the Harbor profile: both runs of an agent count, and only once each.
Deterministic(s) == Len(s) > 1 /\ \A i \in DOMAIN s : s[i] = s[1]
HarborPassed == /\ ~failed /\ missing = 0
                /\ Len(rewards["oracle"]) = 2 /\ \A i \in 1..2 : rewards["oracle"][i] = Full
                /\ Len(rewards["nop"]) = 2 /\ \A i \in 1..2 : rewards["nop"][i] < Full
                /\ \A a \in Agents : Deterministic(rewards[a])
Verdict ==
  /\ pc = "verdict"
  /\ LET bad == failed \/ (req.profile = "dynamo-harbor-task" /\ ~HarborPassed)
     IN Report([status |-> IF timedOut THEN "timed_out" ELSE IF bad THEN "failed" ELSE "completed",
                ran |-> at, failed |-> bad])
  /\ UNCHANGED <<req, at, exit, job, gathered, az>>

----------------------------------------------------------------------------
\* Faulty variant of Precedes: by name alone.
PrecedesByName(j, m, n) == m < n
\* The evidence of one Harbor run: trials that raised come first, at most MaxTrials of them
\* are opened, and those at the end go while the whole is too long.  What a trial shows is
\* short when its directory cannot be opened any more; it is listed all the same.
Precedes(j, m, n) == IF j[m].exception = j[n].exception THEN m < n ELSE j[m].exception
Ordered(j) == CHOOSE s \in Bijection(1..Cardinality(Listed(j)), Listed(j)) :
                \A k, l \in DOMAIN s : k < l => Precedes(j, s[k], s[l])
Entry(j, n, lost) == [trial |-> n, reward |-> j[n].reward, opened |-> n \notin lost]
Bytes(entries, long) ==
  Len(entries) + Cardinality({k \in DOMAIN entries : entries[k].opened /\ entries[k].trial \in long})
Fitting(entries, long) ==
  SubSeq(entries, 1, CHOOSE k \in 0..Len(entries) :
    /\ Bytes(SubSeq(entries, 1, k), long) <= MaxBytes
    /\ \A l \in (k + 1)..Len(entries) : Bytes(SubSeq(entries, 1, l), long) > MaxBytes)
Few(s, most) == SubSeq(s, 1, IF Len(s) < most THEN Len(s) ELSE most)
Evidence(j, lost, long) ==
  LET trials == Fitting([i \in DOMAIN Few(Ordered(j), MaxTrials) |-> Entry(j, Ordered(j)[i], lost)], long)
  IN [rewards |-> Few(Recorded(j), MaxRewards),
      omittedRewards |-> Len(Recorded(j)) - Len(Few(Recorded(j), MaxRewards)),
      trials |-> trials, omitted |-> Cardinality(Listed(j)) - Len(trials)]

Collect ==
  /\ pc = "ended" /\ req.kind = "harbor"
  /\ \/ \E lost, long \in SUBSET Names :
          Report([status |-> Outcome(exit), evidence |-> Evidence(job, lost, long)])
     \/ Report([status |-> Outcome(exit), evidence |-> None])  \* no result file to read
  /\ UNCHANGED <<req, at, exit, job, gathered, az>>

\* A preview reports the plan however az ended; an apply reports how it ended.
Azure == /\ pc = "ended" /\ req.kind = "azure"
         /\ Report([status |-> IF req.dryRun THEN "previewed" ELSE Outcome(exit)])
         /\ UNCHANGED <<req, at, exit, job, gathered, az>>

Next == Begin \/ Run \/ Judge \/ Verdict \/ Collect \/ Azure
Spec == Init /\ [][Next]_vars

----------------------------------------------------------------------------
\* A completed Harbor profile ran all of its commands to a zero exit within their limits,
\* and each of its four runs gave its own reward: both of the oracle's scored fully, in
\* every trial, and neither of the other agent's did, wherever the rewards were read; only
\* a labelled line is taken at its word (run_validation_profile_sync, rewards_for_run,
\* rewards_from_output).
PassesWhatScored ==
  (req.kind = "profile" /\ req.profile = "dynamo-harbor-task"
     /\ report # None /\ report.status = "completed") =>
  /\ report.ran = Len(Commands) /\ ~failed /\ ~timedOut
  /\ Len(past) = 4
  /\ \A i \in 1..4 : past[i] \in {IF i % 2 = 1 THEN "full" ELSE "less", "one"}

\* The evidence of a run accounts for every trial and reward Harbor recorded: a trial is
\* shown with its own reward or counted as omitted, whether or not its directory is still
\* there, and no trial that raised is omitted while one that did not is shown
\* (structured_evidence_result, enforce_structured_evidence_limit).
AccountsForTrials ==
  (req.kind = "harbor" /\ report # None /\ report.status # "refused" /\ job # None) =>
    LET e == report.evidence
        shownTrials == {e.trials[i].trial : i \in DOMAIN e.trials}
    IN e # None =>
         /\ Cardinality(shownTrials) = Len(e.trials)
         /\ e.omitted = Cardinality(Listed(job) \ shownTrials) /\ shownTrials \subseteq Listed(job)
         /\ \A i \in DOMAIN e.trials : e.trials[i].reward = job[e.trials[i].trial].reward
         /\ \A m \in Listed(job) \ shownTrials, n \in shownTrials :
              job[m].exception => job[n].exception
         /\ e.omittedRewards + Len(e.rewards) = Cardinality(Scored(job))
=============================================================================
