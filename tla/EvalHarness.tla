---------------------------- MODULE EvalHarness ----------------------------
(***************************************************************************)
(* The evals command of cli.py with evals/harness.py and evals/report.py:  *)
(* load the scenarios, replay each of them, score the replays, write two   *)
(* reports named after the second.  Several commands may run at a time in  *)
(* one directory, and share its reports.                                   *)
(***************************************************************************)
EXTENDS EvalMetrics

CONSTANTS
  Commands,     \* invocations of the command
  Directories,  \* what scenarios/ may hold: files, in the order of their names
  All,          \* --all of each command
  Runs,         \* --runs of each command, zero and less included
  Gold,         \* the tools that each scenario's gold trajectory calls
  Outcomes,     \* how a replay of each may end: [trajectory, diagnosis, tokens]
  LastSecond    \* bound on the clock

ASSUME EvalAssumption ==
  /\ Directories \subseteq Seq([name : DOMAIN Gold, loads : BOOLEAN])
  /\ All \in [Commands -> BOOLEAN]
  /\ Runs \in [Commands -> Int]
  /\ \A scenario \in DOMAIN Gold :
       /\ Gold[scenario] \in Seq(Tools)
       /\ \A o \in Outcomes[scenario] : /\ o.trajectory \in Seq(TrajectoryEntry)
                                       /\ o.tokens \in Nat
  /\ LastSecond \in Nat

VARIABLES
  directory,  \* the files of scenarios/: [name, loads]
  stage,      \* where each command is
  runs,       \* its replays of the scenario it is at
  results,    \* the scenarios it has scored
  stamp,      \* the second its reports are named after
  clock,      \* the wall clock, in seconds
  reports     \* reports/: whose whole text the file of each kind and second holds

harnessVars == <<directory, stage, runs, results, stamp, clock, reports>>

Kinds == {"md", "json"}
CommandStages == {"start", "running", "stamped", "md_open", "md_written",
                  "json_open", "done", "failed"}
Ended(c) == stage[c] \in {"done", "failed"}

\* Without --all, the first file only.
Selected(c) ==
  LET names == Map(LAMBDA f : f.name, directory)
  IN  IF All[c] THEN names ELSE SubSeq(names, 1, 1)

\* The scenario a command is at, while there is one.
Remains(c) == Len(results[c]) < Len(Selected(c))
Replaying(c) == stage[c] = "running" /\ Remains(c)
Current(c) == Selected(c)[Len(results[c]) + 1]

\* A ScenarioEvalResult's metrics, which its replays determine.
Metrics(result) == Compute(result.runs, Gold[result.scenario])

HarnessInit ==
  /\ directory \in Directories
  /\ stage = [c \in Commands |-> "start"]
  /\ runs = [c \in Commands |-> <<>>]
  /\ results = [c \in Commands |-> <<>>]
  /\ stamp = [c \in Commands |-> -1]
  /\ clock = 0
  /\ reports = [kind \in Kinds |-> [t \in 0..LastSecond |-> {}]]

-----------------------------------------------------------------------------

\* Every file is loaded, the ones that are not selected too.
Begin(c) ==
  /\ stage[c] = "start"
  /\ directory # <<>>
  /\ \A i \in DOMAIN directory : directory[i].loads
  /\ stage' = [stage EXCEPT ![c] = "running"]
  /\ UNCHANGED <<directory, runs, results, stamp, clock, reports>>

\* No file, one that does not parse or, with all of them loaded, no provider to make.
BeginFails(c) ==
  /\ stage[c] = "start"
  /\ stage' = [stage EXCEPT ![c] = "failed"]
  /\ UNCHANGED <<directory, runs, results, stamp, clock, reports>>

\* _single_run returns: one more replay of the current scenario.
RunReturns(c, o) ==
  /\ Replaying(c)
  /\ Len(runs[c]) < Runs[c]
  /\ runs' = [runs EXCEPT ![c] = Append(@,
                [scenario |-> Current(c), trajectory |-> o.trajectory,
                 diagnosis |-> o.diagnosis, tokens |-> o.tokens])]
  /\ UNCHANGED <<directory, stage, results, stamp, clock, reports>>

\* Mutant: the replays of the scenario start over.
RunRaisesStartsOver(c) ==
  /\ Replaying(c)
  /\ Len(runs[c]) < Runs[c]
  /\ runs' = [runs EXCEPT ![c] = <<>>]
  /\ UNCHANGED <<directory, stage, results, stamp, clock, reports>>

\* It raises: what was scored before is discarded with the rest.
RunRaises(c) ==
  /\ Replaying(c)
  /\ Len(runs[c]) < Runs[c]
  /\ stage' = [stage EXCEPT ![c] = "failed"]
  /\ UNCHANGED <<directory, runs, results, stamp, clock, reports>>

\* Mutant: the list of replays is not made anew for each scenario.
ScoreKeepsRuns(c) ==
  /\ Replaying(c)
  /\ Len(runs[c]) >= Runs[c]
  /\ runs[c] # <<>>
  /\ results' = [results EXCEPT ![c] = Append(@,
       [scenario |-> Current(c), runs |-> runs[c]])]
  /\ UNCHANGED <<directory, stage, runs, stamp, clock, reports>>

\* run_all scores the scenario when its replays are done.
Score(c) ==
  /\ Replaying(c)
  /\ Len(runs[c]) >= Runs[c]
  /\ runs[c] # <<>>
  /\ results' = [results EXCEPT ![c] = Append(@,
       [scenario |-> Current(c), runs |-> runs[c]])]
  /\ runs' = [runs EXCEPT ![c] = <<>>]
  /\ UNCHANGED <<directory, stage, stamp, clock, reports>>

\* Without a replay, compute divides by zero.
ScoreFails(c) ==
  /\ Replaying(c)
  /\ Len(runs[c]) >= Runs[c]
  /\ runs[c] = <<>>
  /\ stage' = [stage EXCEPT ![c] = "failed"]
  /\ UNCHANGED <<directory, runs, results, stamp, clock, reports>>

\* write: the reports are named after this second.
Stamp(c) ==
  /\ stage[c] = "running"
  /\ ~Remains(c)
  /\ stamp' = [stamp EXCEPT ![c] = clock]
  /\ stage' = [stage EXCEPT ![c] = "stamped"]
  /\ UNCHANGED <<directory, runs, results, clock, reports>>

\* Mutant: each report is named after the second it is opened in.
OpenAtClock(c, kind, before, after) ==
  /\ stage[c] = before
  /\ reports' = [reports EXCEPT ![kind][clock] = {}]
  /\ stage' = [stage EXCEPT ![c] = after]
  /\ UNCHANGED <<directory, runs, results, stamp, clock>>

\* write_text truncates the file, whoever wrote it ...
Open(c, kind, before, after) ==
  /\ stage[c] = before
  /\ reports' = [reports EXCEPT ![kind][stamp[c]] = {}]
  /\ stage' = [stage EXCEPT ![c] = after]
  /\ UNCHANGED <<directory, runs, results, stamp, clock>>

\* ... and writes from its beginning: the end of a longer text that another
\* command has written meanwhile stays.
Write(c, kind, before, after, rest) ==
  /\ stage[c] = before
  /\ rest \in {{}, reports[kind][stamp[c]]}
  /\ reports' = [reports EXCEPT ![kind][stamp[c]] = rest \cup {c}]
  /\ stage' = [stage EXCEPT ![c] = after]
  /\ UNCHANGED <<directory, runs, results, stamp, clock>>

\* The file system refuses, or the command is interrupted.
WriteFails(c) ==
  /\ stage[c] \in {"stamped", "md_open", "md_written", "json_open"}
  /\ stage' = [stage EXCEPT ![c] = "failed"]
  /\ UNCHANGED <<directory, runs, results, stamp, clock, reports>>

SecondPasses ==
  /\ clock < LastSecond
  /\ clock' = clock + 1
  /\ UNCHANGED <<directory, stage, runs, results, stamp, reports>>

\* What a command does besides replaying.
Bookkeeping(c) ==
  \/ Begin(c)
  \/ BeginFails(c)
  \/ Score(c)
  \/ ScoreFails(c)
  \/ Stamp(c)
  \/ Open(c, "md", "stamped", "md_open")
  \/ Open(c, "json", "md_written", "json_open")
  \/ \E rest \in SUBSET Commands :
        \/ Write(c, "md", "md_open", "md_written", rest)
        \/ Write(c, "json", "json_open", "done", rest)
  \/ WriteFails(c)

Replay(c) == RunRaises(c) \/ (Replaying(c) /\ \E o \in Outcomes[Current(c)] : RunReturns(c, o))

HarnessNext ==
  \/ \E c \in Commands : Bookkeeping(c) \/ Replay(c)
  \/ SecondPasses
  \/ (\A c \in Commands : Ended(c)) /\ UNCHANGED harnessVars

\* What commands may do ...
HarnessSafety == HarnessInit /\ [][HarnessNext]_harnessVars

\* ... and that a replay returns or raises, and the command goes on.
HarnessSpec ==
  /\ HarnessSafety
  /\ \A c \in Commands : WF_harnessVars(Bookkeeping(c) \/ Replay(c))

-----------------------------------------------------------------------------
\* Properties.

Scenarios == DOMAIN Gold
Replays ==
  {[scenario |-> s, trajectory |-> o.trajectory, diagnosis |-> o.diagnosis,
    tokens |-> o.tokens] : s \in Scenarios, o \in UNION {Outcomes[s] : s \in Scenarios}}

HarnessTypeOK ==
  /\ directory \in Directories
  /\ stage \in [Commands -> CommandStages]
  /\ runs \in [Commands -> Seq(Replays)]
  /\ results \in [Commands -> Seq([scenario : Scenarios, runs : Seq(Replays)])]
  /\ stamp \in [Commands -> -1..LastSecond]
  /\ clock \in 0..LastSecond
  /\ reports \in [Kinds -> [0..LastSecond -> SUBSET Commands]]

\* Every selected scenario is scored, in order, on as many replays as were asked
\* for, all of them its own.
Complete(c) ==
  /\ Len(results[c]) = Len(Selected(c))
  /\ \A i \in DOMAIN results[c] :
       /\ results[c][i].scenario = Selected(c)[i]
       /\ Len(results[c][i].runs) = Runs[c]
       /\ \A j \in 1..Runs[c] : results[c][i].runs[j].scenario = Selected(c)[i]

\* A report is all or nothing: whatever failed, no text of a command is in either
\* file unless it evaluated everything it was asked to, and without a replay or
\* with a file that does not load there is none.
ReportsAreComplete ==
  \A kind \in Kinds, t \in 0..LastSecond : \A c \in reports[kind][t] :
    /\ Complete(c) /\ results[c] # <<>> /\ Runs[c] > 0
    /\ stage[c] \in {"md_written", "json_open", "done", "failed"}

\* A command that says its reports are written has written both, and they stay
\* as it wrote them unless another command ended in the same second.
ReportsAreKept ==
  \A c \in Commands :
    stage[c] = "done" /\ (\A d \in Commands \ {c} : stamp[d] # stamp[c]) =>
      \A kind \in Kinds : reports[kind][stamp[c]] = {c}

\* Twice what two sets share among what both have: the harmonic mean of precision and
\* recall.
Dice(a, g) ==
  IF a \cup g = {} THEN One
  ELSE Share(2 * Cardinality(a \cap g), Cardinality(a) + Cardinality(g))

\* F1 is the mean of each replay's harmonic mean, rounded once: what compute reports
\* comes of the replays' own precision and recall, not of those it reports.
F1IsHarmonic ==
  \A c \in Commands : \A i \in DOMAIN results[c] :
    LET f1 == Metrics(results[c][i]).tool_f1
        replays == results[c][i].runs
        gold == ToSet(Gold[results[c][i].scenario])
        used == [j \in DOMAIN replays |-> ToSet(ToolsOf(replays[j].trajectory))]
    IN  f1 = Reported([j \in DOMAIN replays |-> Dice(used[j], gold)])

\* The scores measure what the code says they do.  They are thousandths of a whole.
\* Consistency, which the code takes from the sets of tools and from neither their order
\* nor the routes, is full when all replays use the same tools, and only then as long as
\* a lone difference is not rounded away, which takes n * n * |Tools| >= 2000.  The
\* verdict is that of the majority, or "right" if there is none.
ScoresAreSound ==
  \A c \in Commands : \A i \in DOMAIN results[c] :
    LET m == Metrics(results[c][i])
        replays == results[c][i].runs
        tools == [j \in DOMAIN replays |-> ToSet(ToolsOf(replays[j].trajectory))]
        same == \A j \in DOMAIN tools : tools[j] = tools[1]
        n == Len(replays)
        right == {j \in DOMAIN replays : replays[j].diagnosis = "right"}
    IN  /\ {m.tool_precision, m.tool_recall, m.tool_f1, m.consistency} \subseteq 0..1000
        /\ same => m.consistency = 1000
        /\ m.consistency = 1000 /\ n * n * Cardinality(Tools) < 2000 => same
        /\ m.reasoning_correct <=>
             Cardinality(right) >= Cardinality(DOMAIN replays \ right)

\* The order of the replays does not matter to any score: to exchange the first
\* with any other changes none.
ReplayOrderIrrelevant ==
  \A c \in Commands : \A i \in DOMAIN results[c] :
    LET result == results[c][i]
        r == result.runs
    IN  \A j \in DOMAIN r :
          Metrics([result EXCEPT !.runs = [r EXCEPT ![1] = r[j], ![j] = r[1]]])
            = Metrics(result)

\* A command whose replays return or raise ends.
EveryCommandEnds == \A c \in Commands : <>Ended(c)
=============================================================================
