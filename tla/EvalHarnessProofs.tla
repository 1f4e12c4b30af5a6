------------------------- MODULE EvalHarnessProofs -------------------------
(***************************************************************************)
(* Theorems about EvalHarness, for any number of commands, any files and   *)
(* any outcomes of the replays.                                            *)
(***************************************************************************)
EXTENDS EvalHarness, LoopsProofs

\* What a command selects from a directory with files: some of their names.
LEMMA SelectedTyped ==
  ASSUME NEW c \in Commands, directory \in Directories, directory # <<>>
  PROVE  Selected(c) \in Seq(Scenarios) /\ Len(Selected(c)) >= 1
<1> DEFINE names == [i \in DOMAIN directory |-> directory[i].name]
<1>1. directory \in Seq([name : DOMAIN Gold, loads : BOOLEAN])
  BY EvalAssumption
<1>2. /\ names \in Seq(Scenarios)
      /\ Len(names) = Len(directory)
  <2>1. /\ Len(directory) \in Nat
        /\ DOMAIN directory = 1..Len(directory)
        /\ \A i \in 1..Len(directory) : directory[i].name \in Scenarios
    <3> DEFINE File == [name : DOMAIN Gold, loads : BOOLEAN]
    <3>1. directory \in Seq(File)
      BY <1>1
    <3>2. \A i \in 1..Len(directory) : directory[i] \in File
      BY <3>1, ElementOfSeq
    <3>3. \A f \in File : f.name \in Scenarios
      BY DEF Scenarios
    <3> HIDE DEF File
    <3> QED BY <3>1, <3>2, <3>3, LenProperties
  <2>2. names \in [1..Len(directory) -> Scenarios]
    BY <2>1
  <2> HIDE DEF names
  <2> QED BY <2>1, <2>2
<1>3. Len(directory) >= 1
  BY <1>1
<1>4. SubSeq(names, 1, 1) \in Seq(Scenarios) /\ Len(SubSeq(names, 1, 1)) = 1
  BY <1>2, <1>3
<1>5. Selected(c) = IF All[c] THEN names ELSE SubSeq(names, 1, 1)
  BY DEF Selected, Map
<1> QED BY <1>2, <1>3, <1>4, <1>5

\* The directory does not change, and neither does what is selected.
LEMMA SelectedSame ==
  ASSUME [HarnessNext]_harnessVars
  PROVE  directory' = directory /\ \A c \in Commands : Selected(c)' = Selected(c)
<1>1. directory' = directory
  BY DEF HarnessNext, harnessVars, Bookkeeping, Replay, Begin, BeginFails, RunReturns,
         RunRaises, Score, ScoreFails, Stamp, Open, Write, WriteFails, SecondPasses
<1> QED BY <1>1 DEF Selected, Map

-----------------------------------------------------------------------------
\* Types.

\* A command that got past its files has some.
TypeInv ==
  /\ HarnessTypeOK
  /\ \A c \in Commands : stage[c] \notin {"start", "failed"} => directory # <<>>

\* The state is well formed to begin with.
LEMMA TypeInitially == HarnessInit => TypeInv
BY EvalAssumption DEF HarnessInit, TypeInv, HarnessTypeOK, CommandStages, Kinds

\* No step makes it ill formed.
LEMMA TypePreserved == TypeInv /\ [HarnessNext]_harnessVars => TypeInv'
<1> SUFFICES ASSUME TypeInv, [HarnessNext]_harnessVars PROVE TypeInv'
  OBVIOUS
<1>0. LastSecond \in Nat
  BY EvalAssumption
<1> USE DEF TypeInv, HarnessTypeOK, CommandStages
<1>1. ASSUME NEW c \in Commands, Begin(c) \/ BeginFails(c) \/ ScoreFails(c)
                                   \/ RunRaises(c) \/ WriteFails(c)
      PROVE  TypeInv'
  BY <1>1 DEF Begin, BeginFails, ScoreFails, RunRaises, WriteFails
<1>2. ASSUME NEW c \in Commands, Replaying(c)
      PROVE  Current(c) \in Scenarios
  <2>1. directory # <<>> /\ directory \in Directories
    BY <1>2 DEF Replaying
  <2>2. Selected(c) \in Seq(Scenarios)
    BY <2>1, SelectedTyped
  <2>3. results[c] \in Seq([scenario : Scenarios, runs : Seq(Replays)])
    OBVIOUS
  <2> QED BY <1>2, <2>2, <2>3 DEF Replaying, Remains, Current
<1>3. ASSUME NEW c \in Commands, Replaying(c), NEW o \in Outcomes[Current(c)],
             RunReturns(c, o)
      PROVE  TypeInv'
  <2> DEFINE r == [scenario |-> Current(c), trajectory |-> o.trajectory,
                   diagnosis |-> o.diagnosis, tokens |-> o.tokens]
  <2>1. r \in Replays
    BY <1>2, <1>3 DEF Replays
  <2>2. runs[c] \in Seq(Replays)
    OBVIOUS
  <2>3. Append(runs[c], r) \in Seq(Replays)
    BY <2>1, <2>2
  <2>4. runs' = [runs EXCEPT ![c] = Append(runs[c], r)]
    BY <1>3 DEF RunReturns
  <2> HIDE DEF r
  <2> QED BY <1>3, <2>3, <2>4 DEF RunReturns
<1>4. ASSUME NEW c \in Commands, Score(c) PROVE TypeInv'
  <2> DEFINE R == [scenario : Scenarios, runs : Seq(Replays)]
             r == [scenario |-> Current(c), runs |-> runs[c]]
  <2>1. r \in R
    BY <1>2, <1>4 DEF Score
  <2>2. results[c] \in Seq(R)
    OBVIOUS
  <2>3. results' = [results EXCEPT ![c] = Append(results[c], r)]
    BY <1>4 DEF Score
  <2> HIDE DEF r, R
  <2>6. Append(results[c], r) \in Seq(R)
    BY <2>1, <2>2
  <2>4. results' \in [Commands -> Seq(R)]
    <3>1. results \in [Commands -> Seq(R)]
      BY DEF R
    <3> QED BY <2>3, <2>6, <3>1
  <2>5. runs' \in [Commands -> Seq(Replays)]
    BY <1>4 DEF Score
  <2> QED BY <1>4, <2>4, <2>5 DEF Score, R
<1>5. ASSUME NEW c \in Commands, Stamp(c) PROVE TypeInv'
  <2>1. clock \in -1..LastSecond
    BY <1>0
  <2>2. stamp' \in [Commands -> -1..LastSecond]
    BY <1>5, <2>1 DEF Stamp
  <2>3. stage' \in [Commands -> CommandStages] /\ directory # <<>>
    BY <1>5 DEF Stamp
  <2> QED BY <1>5, <2>2, <2>3 DEF Stamp
<1>6. ASSUME NEW c \in Commands, NEW kind \in Kinds, NEW before, NEW after \in CommandStages,
             before \notin {"start", "failed"}, Open(c, kind, before, after)
      PROVE  TypeInv'
  BY <1>6 DEF Open
<1>7. ASSUME NEW c \in Commands, NEW kind \in Kinds, NEW before, NEW after \in CommandStages,
             NEW rest \in SUBSET Commands,
             before \notin {"start", "failed"}, Write(c, kind, before, after, rest)
      PROVE  TypeInv'
  BY <1>7 DEF Write
<1>8. CASE SecondPasses
  <2>1. clock' \in 0..LastSecond
    BY <1>0, <1>8 DEF SecondPasses
  <2> QED BY <1>8, <2>1 DEF SecondPasses
<1>9. CASE UNCHANGED harnessVars
  BY <1>9 DEF harnessVars
<1> HIDE DEF TypeInv, HarnessTypeOK
<1>10. ASSUME NEW c \in Commands, Bookkeeping(c) PROVE TypeInv'
  <2>1. "md" \in Kinds /\ "json" \in Kinds
    BY DEF Kinds
  <2>2. CASE Open(c, "md", "stamped", "md_open") \/ Open(c, "json", "md_written", "json_open")
    BY <1>6, <2>1, <2>2
  <2>3. ASSUME NEW rest \in SUBSET Commands,
               \/ Write(c, "md", "md_open", "md_written", rest)
               \/ Write(c, "json", "json_open", "done", rest)
        PROVE  TypeInv'
    BY <1>7, <2>1, <2>3
  <2> QED BY <1>1, <1>4, <1>5, <1>10, <2>2, <2>3 DEF Bookkeeping
<1>11. ASSUME NEW c \in Commands, Replay(c) PROVE TypeInv'
  BY <1>1, <1>3, <1>11 DEF Replay
<1> QED BY <1>8, <1>9, <1>10, <1>11 DEF HarnessNext

\* The commands, what they have replayed and scored, and the reports stay well formed.
THEOREM TypeCorrect == HarnessSafety => []HarnessTypeOK
<1>1. TypeInv => HarnessTypeOK
  BY DEF TypeInv
<1> QED BY <1>1, TypeInitially, TypePreserved, PTL DEF HarnessSafety

-----------------------------------------------------------------------------
\* What is in a report.

Writing == {"stamped", "md_open", "md_written", "json_open", "done"}

\* A scenario is scored on the replays asked for, one at least, all of them its own.
ScoredOn(c, result, name) ==
  /\ result.scenario = name
  /\ Runs[c] > 0
  /\ Len(result.runs) = Runs[c]
  /\ \A j \in 1..Runs[c] : result.runs[j].scenario = name

\* What a command has is its own: replays of the scenario it is at, no more than
\* asked for, and scores of the selected scenarios in order, all once it writes.
Own(c) ==
  /\ stage[c] = "start" => results[c] = <<>> /\ runs[c] = <<>>
  /\ runs[c] # <<>> => Len(runs[c]) <= Runs[c]
  /\ stage[c] = "running" =>
       /\ Len(results[c]) <= Len(Selected(c))
       /\ \A j \in 1..Len(runs[c]) : runs[c][j].scenario = Current(c)
  /\ \A i \in 1..Len(results[c]) : ScoredOn(c, results[c][i], Selected(c)[i])
  /\ stage[c] \in Writing =>
       Len(results[c]) = Len(Selected(c)) /\ results[c] # <<>>

\* What ReportsAreComplete rests on.
ReportInv == (\A c \in Commands : Own(c)) /\ ReportsAreComplete

\* A command that does not move keeps what it has.
LEMMA OwnSame ==
  ASSUME NEW d \in Commands, Own(d), Selected(d)' = Selected(d),
         stage'[d] = stage[d], runs'[d] = runs[d], results'[d] = results[d]
  PROVE  Own(d)'
BY DEF Own, Current, ScoredOn, Writing

\* A command keeps what it has when it goes on to another stage, as long as it
\* has everything when it begins to write.
LEMMA OwnMoves ==
  ASSUME NEW c \in Commands, Own(c), Selected(c)' = Selected(c),
         runs'[c] = runs[c], results'[c] = results[c],
         stage'[c] \notin {"start", "running"},
         stage'[c] \in Writing =>
           Len(results[c]) = Len(Selected(c)) /\ results[c] # <<>>
  PROVE  Own(c)'
BY DEF Own, ScoredOn, Writing

\* Once a command writes, it has evaluated everything it was asked to.
LEMMA WritingIsComplete ==
  ASSUME TypeInv, NEW c \in Commands, Own(c),
         Len(results[c]) = Len(Selected(c)), results[c] # <<>>
  PROVE  Complete(c) /\ Runs[c] > 0
<1>1. /\ results[c] \in Seq([scenario : Scenarios, runs : Seq(Replays)])
      /\ DOMAIN results[c] = 1..Len(results[c])
      /\ Len(results[c]) >= 1
  <2> DEFINE R == [scenario : Scenarios, runs : Seq(Replays)]
  <2>1. results[c] \in Seq(R)
    BY DEF TypeInv, HarnessTypeOK
  <2> HIDE DEF R
  <2>2. DOMAIN results[c] = 1..Len(results[c]) /\ Len(results[c]) >= 1
    BY <2>1, EmptySeq, LenProperties
  <2> QED BY <2>1, <2>2 DEF R
<1>2. \A i \in 1..Len(results[c]) : ScoredOn(c, results[c][i], Selected(c)[i])
  BY DEF Own
<1> QED BY <1>1, <1>2 DEF Complete, ScoredOn

\* Nothing is written at the start.
LEMMA ReportInitially == HarnessInit => ReportInv
<1> SUFFICES ASSUME HarnessInit PROVE ReportInv
  OBVIOUS
<1>1. ASSUME NEW c \in Commands PROVE Own(c)
  BY DEF HarnessInit, Own, Writing
<1>2. \A kind \in Kinds, t \in 0..LastSecond : reports[kind][t] = {}
  BY DEF HarnessInit
<1>3. ReportsAreComplete
  BY <1>2 DEF ReportsAreComplete
<1> QED BY <1>1, <1>3 DEF ReportInv

\* The stages of a command that has text in a report.
Claiming == {"md_written", "json_open", "done", "failed"}

\* A step that adds no text but the complete one of its own command, and leaves
\* alone what a command with text has, keeps the reports complete.
LEMMA ReportsStep ==
  ASSUME TypeInv, TypeInv', ReportsAreComplete, NEW c \in Commands,
         \A d \in Commands : Selected(d)' = Selected(d),
         \A d \in Commands \ {c} : stage'[d] = stage[d] /\ results'[d] = results[d],
         stage[c] \in Claiming => stage'[c] \in Claiming /\ results'[c] = results[c],
         \A kind \in Kinds, t \in 0..LastSecond :
           reports'[kind][t] \subseteq reports[kind][t] \cup {c},
         \/ \A kind \in Kinds, t \in 0..LastSecond : reports'[kind][t] \subseteq reports[kind][t]
         \/ /\ Complete(c) /\ results[c] # <<>> /\ Runs[c] > 0
            /\ stage'[c] \in Claiming /\ results'[c] = results[c]
  PROVE  ReportsAreComplete'
<1> SUFFICES ASSUME NEW kind \in Kinds, NEW t \in 0..LastSecond, NEW d \in reports'[kind][t]
             PROVE  /\ Complete(d)' /\ results'[d] # <<>> /\ Runs[d] > 0
                    /\ stage'[d] \in Claiming
  BY DEF ReportsAreComplete, Claiming
<1>1. d \in Commands
  <2>1. reports' \in [Kinds -> [0..LastSecond -> SUBSET Commands]]
    BY DEF TypeInv, HarnessTypeOK
  <2> QED BY <2>1
<1>2. Complete(d) /\ results[d] # <<>> /\ Runs[d] > 0
  BY DEF ReportsAreComplete
<1>3. stage'[d] \in Claiming /\ results'[d] = results[d]
  BY <1>1 DEF ReportsAreComplete, Claiming
<1>4. Complete(d)'
  BY <1>1, <1>2, <1>3 DEF Complete
<1> QED BY <1>2, <1>3, <1>4

\* No step of a command puts anything into a report but a whole evaluation.
LEMMA ReportPreserved ==
  TypeInv /\ TypeInv' /\ ReportInv /\ [HarnessNext]_harnessVars => ReportInv'
<1> SUFFICES ASSUME TypeInv, TypeInv', ReportInv, [HarnessNext]_harnessVars
             PROVE  ReportInv'
  OBVIOUS
<1>1. \A d \in Commands : Selected(d)' = Selected(d)
  BY SelectedSame
<1>2. \A d \in Commands : Own(d)
  BY DEF ReportInv
<1>3. ReportsAreComplete
  BY DEF ReportInv
<1>4. /\ stage \in [Commands -> CommandStages]
      /\ runs \in [Commands -> Seq(Replays)]
      /\ results \in [Commands -> Seq([scenario : Scenarios, runs : Seq(Replays)])]
      /\ reports \in [Kinds -> [0..LastSecond -> SUBSET Commands]]
      /\ Runs \in [Commands -> Int]
  BY EvalAssumption DEF TypeInv, HarnessTypeOK
<1>5. ASSUME NEW c \in Commands, Begin(c) PROVE ReportInv'
  <2>1. Own(c)'
    <3>1. results'[c] = <<>> /\ runs'[c] = <<>> /\ stage'[c] = "running"
      BY <1>2, <1>4, <1>5 DEF Begin, Own
    <3>2. Len(results'[c]) <= Len(Selected(c)')
      <4>1. Selected(c) \in Seq(Scenarios)
        BY <1>5, SelectedTyped DEF Begin, TypeInv, HarnessTypeOK
      <4> QED BY <1>1, <3>1, <4>1
    <3> QED BY <3>1, <3>2 DEF Own, Writing
  <2>2. \A d \in Commands : Own(d)'
    BY <1>1, <1>2, <1>4, <1>5, <2>1, OwnSame DEF Begin
  <2>3. ReportsAreComplete'
    BY <1>1, <1>3, <1>4, <1>5, ReportsStep DEF Begin, Claiming
  <2> QED BY <2>2, <2>3 DEF ReportInv
<1>6. ASSUME NEW c \in Commands,
             BeginFails(c) \/ RunRaises(c) \/ ScoreFails(c) \/ WriteFails(c)
      PROVE  ReportInv'
  <2>1. /\ UNCHANGED <<directory, runs, results, stamp, clock, reports>>
        /\ stage' = [stage EXCEPT ![c] = "failed"]
    BY <1>6 DEF BeginFails, RunRaises, ScoreFails, WriteFails
  <2>2. Own(c)'
    BY <1>1, <1>2, <1>4, <2>1, OwnMoves DEF Writing
  <2>3. \A d \in Commands : Own(d)'
    BY <1>1, <1>2, <1>4, <2>1, <2>2, OwnSame
  <2>4. ReportsAreComplete'
    BY <1>1, <1>3, <1>4, <2>1, ReportsStep DEF Claiming
  <2> QED BY <2>3, <2>4 DEF ReportInv
<1>7. ASSUME NEW c \in Commands, NEW o, RunReturns(c, o) PROVE ReportInv'
  <2> DEFINE r == [scenario |-> Current(c), trajectory |-> o.trajectory,
                   diagnosis |-> o.diagnosis, tokens |-> o.tokens]
  <2>1. /\ runs'[c] = Append(runs[c], r)
        /\ runs'[c] \in Seq(Replays)
        /\ runs[c] \in Seq(Replays)
        /\ stage' = stage /\ results' = results /\ reports' = reports
        /\ stage[c] = "running" /\ Len(runs[c]) < Runs[c]
        /\ \A d \in Commands \ {c} : runs'[d] = runs[d]
    BY <1>4, <1>7 DEF RunReturns, Replaying, TypeInv, HarnessTypeOK
  <2>2. r.scenario = Current(c)
    OBVIOUS
  <2>3. Current(c)' = Current(c)
    BY <1>1, <2>1 DEF Current
  <2> HIDE DEF r
  <2>4. Len(runs'[c]) = Len(runs[c]) + 1
    BY <2>1
  <2>5. \A j \in 1..Len(runs'[c]) : runs'[c][j].scenario = Current(c)
    <3>1. \A j \in 1..Len(runs[c]) : runs[c][j].scenario = Current(c)
      BY <1>2, <2>1 DEF Own
    <3>2. \A j \in 1..Len(runs'[c]) :
            runs'[c][j] = IF j = Len(runs[c]) + 1 THEN r ELSE runs[c][j]
      BY <2>1, <2>4
    <3> QED BY <2>1, <2>2, <2>4, <3>1, <3>2
  <2>6. Own(c)'
    <3>1. Len(runs'[c]) <= Runs[c]
      BY <1>4, <2>1, <2>4
    <3> QED BY <1>1, <1>2, <2>1, <2>3, <2>5, <3>1, SMTT(30) DEF Own, ScoredOn, Writing
  <2>7. \A d \in Commands : Own(d)'
    BY <1>1, <1>2, <2>1, <2>6, OwnSame
  <2>8. ReportsAreComplete'
    BY <1>1, <1>3, <2>1, ReportsStep DEF Claiming
  <2> QED BY <2>7, <2>8 DEF ReportInv
<1>8. ASSUME NEW c \in Commands, Score(c) PROVE ReportInv'
  <2> DEFINE r == [scenario |-> Current(c), runs |-> runs[c]]
             R == [scenario : Scenarios, runs : Seq(Replays)]
  <2>1. /\ results'[c] = Append(results[c], r)
        /\ runs'[c] = <<>>
        /\ results[c] \in Seq(R) /\ results'[c] \in Seq(R)
        /\ stage' = stage /\ reports' = reports
        /\ stage[c] = "running" /\ Len(results[c]) < Len(Selected(c))
        /\ runs[c] # <<>> /\ Len(runs[c]) >= Runs[c] /\ runs[c] \in Seq(Replays)
        /\ \A d \in Commands \ {c} : runs'[d] = runs[d] /\ results'[d] = results[d]
    BY <1>4, <1>8 DEF Score, Replaying, Remains, TypeInv, HarnessTypeOK
  <2>2. ScoredOn(c, r, Current(c))
    BY <1>2, <1>4, <2>1 DEF Own, ScoredOn
  <2> HIDE DEF r, R
  <2>3. Len(results'[c]) = Len(results[c]) + 1
    BY <2>1
  <2>4. \A i \in 1..Len(results'[c]) : ScoredOn(c, results'[c][i], Selected(c)[i])
    <3>1. \A i \in 1..Len(results[c]) : ScoredOn(c, results[c][i], Selected(c)[i])
      BY <1>2 DEF Own
    <3>2. \A i \in 1..Len(results'[c]) :
            results'[c][i] = IF i = Len(results[c]) + 1 THEN r ELSE results[c][i]
      BY <2>1, <2>3
    <3>3. Len(results[c]) \in Nat
      BY <2>1
    <3> QED BY <2>2, <2>3, <3>1, <3>2, <3>3 DEF Current
  <2>5. Len(Selected(c)) \in Nat /\ Len(results[c]) \in Nat
    <3>1. directory \in Directories /\ directory # <<>>
      BY <2>1 DEF TypeInv, HarnessTypeOK
    <3> QED BY <2>1, <3>1, SelectedTyped
  <2>6. Own(c)'
    <3>1. Len(results'[c]) <= Len(Selected(c)')
      BY <1>1, <2>1, <2>3, <2>5
    <3> QED BY <1>1, <2>1, <2>4, <3>1 DEF Own, ScoredOn, Writing
  <2>7. \A d \in Commands : Own(d)'
    BY <1>1, <1>2, <2>1, <2>6, OwnSame
  <2>8. ReportsAreComplete'
    BY <1>1, <1>3, <2>1, ReportsStep DEF Claiming
  <2> QED BY <2>7, <2>8 DEF ReportInv
<1>9. ASSUME NEW c \in Commands, Stamp(c) PROVE ReportInv'
  <2>1. /\ runs' = runs /\ results' = results /\ reports' = reports
        /\ stage' = [stage EXCEPT ![c] = "stamped"]
        /\ stage[c] = "running" /\ ~(Len(results[c]) < Len(Selected(c)))
    BY <1>9 DEF Stamp, Remains
  <2>2. Len(results[c]) = Len(Selected(c)) /\ results[c] # <<>>
    <3>1. directory \in Directories /\ directory # <<>>
      BY <2>1 DEF TypeInv, HarnessTypeOK
    <3>2. /\ Selected(c) \in Seq(Scenarios) /\ Len(Selected(c)) >= 1
          /\ Len(results[c]) <= Len(Selected(c))
      BY <1>2, <2>1, <3>1, SelectedTyped DEF Own
    <3>3. Len(results[c]) \in Nat /\ Len(Selected(c)) \in Nat
      BY <1>4, <3>2
    <3> QED BY <2>1, <3>2, <3>3
  <2>3. Own(c)'
    BY <1>1, <1>2, <1>4, <2>1, <2>2, OwnMoves
  <2>4. \A d \in Commands : Own(d)'
    BY <1>1, <1>2, <1>4, <2>1, <2>3, OwnSame
  <2>5. ReportsAreComplete'
    BY <1>1, <1>3, <1>4, <2>1, ReportsStep DEF Claiming
  <2> QED BY <2>4, <2>5 DEF ReportInv
<1>10. ASSUME NEW c \in Commands, NEW kind \in Kinds, NEW before \in {"stamped", "md_written"},
              NEW after \in {"md_open", "json_open"},
              before = "md_written" => after = "json_open",
              Open(c, kind, before, after)
       PROVE  ReportInv'
  <2>1. /\ runs' = runs /\ results' = results
        /\ stage' = [stage EXCEPT ![c] = after] /\ stage[c] = before
        /\ reports' = [reports EXCEPT ![kind][stamp[c]] = {}]
    BY <1>10 DEF Open
  <2>2. Len(results[c]) = Len(Selected(c)) /\ results[c] # <<>>
    BY <1>2, <2>1 DEF Own, Writing
  <2>3. Own(c)'
    BY <1>1, <1>2, <1>4, <2>1, <2>2, OwnMoves
  <2>4. \A d \in Commands : Own(d)'
    BY <1>1, <1>2, <1>4, <2>1, <2>3, OwnSame
  <2>5. \A k \in Kinds, t \in 0..LastSecond : reports'[k][t] \subseteq reports[k][t]
    BY <1>4, <2>1
  <2>6. stage[c] \in Claiming => stage'[c] \in Claiming
    BY <1>4, <1>10, <2>1 DEF Claiming
  <2>7. ReportsAreComplete'
    BY <1>1, <1>3, <1>4, <2>1, <2>5, <2>6, ReportsStep
  <2> QED BY <2>4, <2>7 DEF ReportInv
<1>11. ASSUME NEW c \in Commands, NEW kind \in Kinds, NEW before \in {"md_open", "json_open"},
              NEW after \in {"md_written", "done"}, NEW rest \in SUBSET Commands,
              Write(c, kind, before, after, rest)
       PROVE  ReportInv'
  <2>1. /\ runs' = runs /\ results' = results
        /\ stage' = [stage EXCEPT ![c] = after] /\ stage[c] = before
        /\ rest \in {{}, reports[kind][stamp[c]]}
        /\ reports' = [reports EXCEPT ![kind][stamp[c]] = rest \cup {c}]
    BY <1>11 DEF Write
  <2>2. Len(results[c]) = Len(Selected(c)) /\ results[c] # <<>>
    BY <1>2, <2>1 DEF Own, Writing
  <2>3. Own(c)'
    BY <1>1, <1>2, <1>4, <2>1, <2>2, OwnMoves
  <2>4. \A d \in Commands : Own(d)'
    BY <1>1, <1>2, <1>4, <2>1, <2>3, OwnSame
  <2>5. \A k \in Kinds, t \in 0..LastSecond : reports'[k][t] \subseteq reports[k][t] \cup {c}
    BY <1>4, <2>1
  <2>6. stage'[c] \in Claiming
    BY <1>4, <2>1 DEF Claiming
  <2>7. Complete(c) /\ Runs[c] > 0
    BY <1>2, <2>2, WritingIsComplete
  <2>8. ReportsAreComplete'
    <3>1. /\ results'[c] = results[c]
          /\ \A d \in Commands \ {c} : stage'[d] = stage[d] /\ results'[d] = results[d]
      BY <1>4, <2>1
    <3> QED BY <1>1, <1>3, <2>2, <2>5, <2>6, <2>7, <3>1, ReportsStep
  <2> QED BY <2>4, <2>8 DEF ReportInv
<1>12. CASE UNCHANGED <<directory, stage, runs, results, reports>>
  <2>1. \A d \in Commands : Own(d)'
    BY <1>1, <1>2, <1>12, OwnSame
  <2>2. \A d \in Commands : Complete(d) => Complete(d)'
    BY <1>1, <1>12 DEF Complete
  <2>3. \A kind \in Kinds, t \in 0..LastSecond : reports[kind][t] \subseteq Commands
    BY <1>4
  <2>4. ReportsAreComplete'
    BY <1>3, <1>12, <2>2, <2>3 DEF ReportsAreComplete
  <2> QED BY <2>1, <2>4 DEF ReportInv
<1>13. ASSUME NEW c \in Commands, Bookkeeping(c) PROVE ReportInv'
  <2>1. "md" \in Kinds /\ "json" \in Kinds
    BY DEF Kinds
  <2>2. CASE Open(c, "md", "stamped", "md_open") \/ Open(c, "json", "md_written", "json_open")
    BY <1>10, <2>1, <2>2
  <2>3. ASSUME NEW rest \in SUBSET Commands,
               \/ Write(c, "md", "md_open", "md_written", rest)
               \/ Write(c, "json", "json_open", "done", rest)
        PROVE  ReportInv'
    BY <1>11, <2>1, <2>3
  <2> QED BY <1>5, <1>6, <1>8, <1>9, <1>13, <2>2, <2>3 DEF Bookkeeping
<1>14. ASSUME NEW c \in Commands, Replay(c) PROVE ReportInv'
  BY <1>6, <1>7, <1>14 DEF Replay
<1>15. CASE SecondPasses \/ UNCHANGED harnessVars
  BY <1>12, <1>15 DEF SecondPasses, harnessVars
<1> QED BY <1>13, <1>14, <1>15 DEF HarnessNext

\* A report is all or nothing, whatever fails and whoever else writes it.
THEOREM ReportsComplete == HarnessSafety => []ReportsAreComplete
<1>1. ReportInv => ReportsAreComplete
  BY DEF ReportInv
<1> QED BY <1>1, TypeInitially, TypePreserved, ReportInitially, ReportPreserved, PTL
        DEF HarnessSafety

-----------------------------------------------------------------------------
\* What becomes of a report.

\* No other command names its reports after the same second.
Sole(c) == \A d \in Commands \ {c} : stamp[d] # stamp[c]

\* How far a command is with a report that is its own.
Kept(c) ==
  /\ stage[c] \in Writing => stamp[c] \in 0..LastSecond
  /\ stage[c] \in {"start", "running"} => stamp[c] = -1
  /\ Sole(c) =>
       /\ stage[c] = "md_open" => reports["md"][stamp[c]] = {}
       /\ stage[c] \in {"md_written", "json_open", "done"} => reports["md"][stamp[c]] = {c}
       /\ stage[c] = "json_open" => reports["json"][stamp[c]] = {}
       /\ stage[c] = "done" => reports["json"][stamp[c]] = {c}

KeptInv == \A c \in Commands : Kept(c)

\* There are no reports before a command runs.
LEMMA KeptInitially == HarnessInit => KeptInv
BY DEF HarnessInit, KeptInv, Kept, Writing

\* A step of one command leaves the reports of another alone if they are not
\* named after the same second, and never makes two seconds differ again.
LEMMA KeptByOthers ==
  ASSUME TypeInv, KeptInv, NEW c \in Commands, NEW d \in Commands, d # c,
         Bookkeeping(d) \/ Replay(d)
  PROVE  Kept(c)'
<1>1. /\ stage \in [Commands -> CommandStages]
      /\ stamp \in [Commands -> -1..LastSecond]
      /\ reports \in [Kinds -> [0..LastSecond -> SUBSET Commands]]
      /\ LastSecond \in Nat /\ clock \in 0..LastSecond
  BY EvalAssumption DEF TypeInv, HarnessTypeOK
<1>2. Kept(c) /\ Kept(d)
  BY DEF KeptInv
<1>3. CASE UNCHANGED <<stamp, reports>> /\ \E s : stage' = [stage EXCEPT ![d] = s]
  <2>1. stage'[c] = stage[c] /\ stamp' = stamp /\ reports' = reports
    BY <1>1, <1>3
  <2> QED BY <1>2, <2>1 DEF Kept, Sole
<1>4. CASE UNCHANGED <<stamp, reports, stage>>
  BY <1>2, <1>4 DEF Kept, Sole
<1>5. CASE Stamp(d)
  <2>1. /\ stage'[c] = stage[c] /\ stamp'[c] = stamp[c] /\ reports' = reports
        /\ \A e \in Commands \ {d} : stamp'[e] = stamp[e]
        /\ stage[d] = "running"
    BY <1>1, <1>5 DEF Stamp
  <2>2. stage[c] \in Writing /\ Sole(c)' => Sole(c)
    <3>1. stamp[d] = -1
      BY <1>2, <2>1 DEF Kept
    <3>2. stage[c] \in Writing => stamp[c] # -1
      BY <1>1, <1>2 DEF Kept
    <3> QED BY <2>1, <3>1, <3>2 DEF Sole
  <2> QED BY <1>2, <2>1, <2>2 DEF Kept, Writing
<1>6. ASSUME NEW kind \in Kinds, NEW after, NEW text,
             stage' = [stage EXCEPT ![d] = after], stamp' = stamp,
             reports' = [reports EXCEPT ![kind][stamp[d]] = text]
      PROVE  Kept(c)'
  <2>1. stage'[c] = stage[c]
    BY <1>1, <1>6
  <2>2. Sole(c) /\ stage[c] \in Writing =>
          \A k \in Kinds : reports'[k][stamp[c]] = reports[k][stamp[c]]
    <3>1. ASSUME Sole(c), stage[c] \in Writing, NEW k \in Kinds
          PROVE  reports'[k][stamp[c]] = reports[k][stamp[c]]
      <4>1. stamp[d] # stamp[c] /\ stamp[c] \in 0..LastSecond
        BY <1>2, <3>1 DEF Sole, Kept
      <4> QED BY <1>1, <1>6, <4>1
    <3> QED BY <3>1
  <2>3. "md" \in Kinds /\ "json" \in Kinds
    BY DEF Kinds
  <2>4. Sole(c)' <=> Sole(c)
    BY <1>6 DEF Sole
  <2> QED BY <1>2, <1>6, <2>1, <2>2, <2>3, <2>4 DEF Kept, Writing
<1>7. "md" \in Kinds /\ "json" \in Kinds
  BY DEF Kinds
<1>8. CASE Open(d, "md", "stamped", "md_open") \/ Open(d, "json", "md_written", "json_open")
  BY <1>6, <1>7, <1>8 DEF Open
<1>9. ASSUME NEW rest \in SUBSET Commands,
             \/ Write(d, "md", "md_open", "md_written", rest)
             \/ Write(d, "json", "json_open", "done", rest)
      PROVE  Kept(c)'
  BY <1>6, <1>7, <1>9 DEF Write
<1>10. CASE Begin(d) \/ BeginFails(d) \/ ScoreFails(d) \/ WriteFails(d) \/ RunRaises(d)
  BY <1>3, <1>10 DEF Begin, BeginFails, ScoreFails, WriteFails, RunRaises
<1>11. ASSUME NEW o, RunReturns(d, o) \/ Score(d) PROVE Kept(c)'
  BY <1>4, <1>11 DEF RunReturns, Score
<1> QED BY <1>5, <1>8, <1>9, <1>10, <1>11 DEF Bookkeeping, Replay

\* A command keeps to its own order: open, write, and the same for the other.
LEMMA KeptByItself ==
  ASSUME TypeInv, KeptInv, NEW c \in Commands, Bookkeeping(c) \/ Replay(c)
  PROVE  Kept(c)'
<1>1. /\ stage \in [Commands -> CommandStages]
      /\ stamp \in [Commands -> -1..LastSecond]
      /\ reports \in [Kinds -> [0..LastSecond -> SUBSET Commands]]
      /\ LastSecond \in Nat /\ clock \in 0..LastSecond
  BY EvalAssumption DEF TypeInv, HarnessTypeOK
<1>2. Kept(c)
  BY DEF KeptInv
<1>3. CASE BeginFails(c) \/ ScoreFails(c) \/ WriteFails(c) \/ RunRaises(c)
  <2>1. stage'[c] = "failed"
    BY <1>1, <1>3 DEF BeginFails, ScoreFails, WriteFails, RunRaises
  <2> QED BY <2>1 DEF Kept, Writing
<1>4. CASE Begin(c)
  <2>1. stage[c] = "start" /\ stage'[c] = "running" /\ stamp' = stamp
    BY <1>1, <1>4 DEF Begin
  <2> QED BY <1>2, <2>1 DEF Kept, Writing
<1>5. ASSUME NEW o, RunReturns(c, o) \/ Score(c) PROVE Kept(c)'
  BY <1>2, <1>5 DEF RunReturns, Score, Kept, Sole
<1>6. CASE Stamp(c)
  <2>1. stage'[c] = "stamped" /\ stamp'[c] = clock
    BY <1>1, <1>6 DEF Stamp
  <2> QED BY <1>1, <2>1 DEF Kept, Writing
<1>7. /\ stage[c] \in Writing => stamp[c] \in 0..LastSecond
      /\ stamp' = stamp => (Sole(c)' <=> Sole(c))
  BY <1>2 DEF Kept, Sole
<1>8. /\ "md" \in Kinds \ {"json"} /\ "json" \in Kinds \ {"md"}
      /\ {"stamped", "md_open", "md_written", "json_open"} \subseteq Writing
  BY DEF Kinds, Writing
<1>9. CASE Open(c, "md", "stamped", "md_open")
  <2>0. /\ stage[c] = "stamped" /\ stage' = [stage EXCEPT ![c] = "md_open"]
        /\ stamp' = stamp /\ reports' = [reports EXCEPT !["md"][stamp[c]] = {}]
    BY <1>9 DEF Open
  <2>1. /\ stage'[c] = "md_open" /\ stamp'[c] = stamp[c] /\ stamp[c] \in 0..LastSecond
        /\ reports'["md"][stamp[c]] = {}
    BY <1>1, <1>7, <1>8, <2>0
  <2> QED BY <2>1 DEF Kept
<1>10. CASE Open(c, "json", "md_written", "json_open")
  <2>0. /\ stage[c] = "md_written" /\ stage' = [stage EXCEPT ![c] = "json_open"]
        /\ stamp' = stamp /\ reports' = [reports EXCEPT !["json"][stamp[c]] = {}]
    BY <1>10 DEF Open
  <2>1. /\ stage'[c] = "json_open" /\ stamp'[c] = stamp[c] /\ stamp[c] \in 0..LastSecond
        /\ reports'["json"][stamp[c]] = {} /\ reports'["md"] = reports["md"]
        /\ Sole(c)' <=> Sole(c)
        /\ stage[c] = "md_written"
    BY <1>1, <1>7, <1>8, <2>0
  <2> QED BY <1>2, <2>1 DEF Kept
<1>11. ASSUME NEW rest \in SUBSET Commands, Write(c, "md", "md_open", "md_written", rest)
       PROVE  Kept(c)'
  <2>0. /\ stage[c] = "md_open" /\ stage' = [stage EXCEPT ![c] = "md_written"]
        /\ stamp' = stamp /\ reports' = [reports EXCEPT !["md"][stamp[c]] = rest \cup {c}]
        /\ rest \in {{}, reports["md"][stamp[c]]}
    BY <1>11 DEF Write
  <2>1. /\ stage'[c] = "md_written" /\ stamp'[c] = stamp[c] /\ stamp[c] \in 0..LastSecond
        /\ reports'["md"][stamp[c]] = rest \cup {c}
        /\ Sole(c)' <=> Sole(c)
        /\ stage[c] = "md_open" /\ rest \in {{}, reports["md"][stamp[c]]}
    BY <1>1, <1>7, <1>8, <2>0
  <2>2. Sole(c) => reports["md"][stamp[c]] = {}
    BY <1>2, <2>1 DEF Kept
  <2>3. Sole(c) => reports'["md"][stamp[c]] = {c}
    BY <2>1, <2>2
  <2> QED BY <2>1, <2>3 DEF Kept
<1>12. ASSUME NEW rest \in SUBSET Commands, Write(c, "json", "json_open", "done", rest)
       PROVE  Kept(c)'
  <2>0. /\ stage[c] = "json_open" /\ stage' = [stage EXCEPT ![c] = "done"]
        /\ stamp' = stamp /\ reports' = [reports EXCEPT !["json"][stamp[c]] = rest \cup {c}]
        /\ rest \in {{}, reports["json"][stamp[c]]}
    BY <1>12 DEF Write
  <2>1. /\ stage'[c] = "done" /\ stamp'[c] = stamp[c] /\ stamp[c] \in 0..LastSecond
        /\ reports'["json"][stamp[c]] = rest \cup {c} /\ reports'["md"] = reports["md"]
        /\ Sole(c)' <=> Sole(c)
        /\ stage[c] = "json_open" /\ rest \in {{}, reports["json"][stamp[c]]}
    BY <1>1, <1>7, <1>8, <2>0
  <2>2. Sole(c) => reports["json"][stamp[c]] = {} /\ reports["md"][stamp[c]] = {c}
    BY <1>2, <2>1 DEF Kept
  <2>3. Sole(c) => reports'["json"][stamp[c]] = {c}
    BY <2>1, <2>2
  <2> QED BY <2>1, <2>2, <2>3 DEF Kept
<1> QED BY <1>3, <1>4, <1>5, <1>6, <1>9, <1>10, <1>11, <1>12 DEF Bookkeeping, Replay

\* No step touches a report of a command that has its second to itself.
LEMMA KeptPreserved ==
  TypeInv /\ KeptInv /\ [HarnessNext]_harnessVars => KeptInv'
<1> SUFFICES ASSUME TypeInv, KeptInv, [HarnessNext]_harnessVars, NEW c \in Commands
             PROVE  Kept(c)'
  BY DEF KeptInv
<1>1. ASSUME NEW d \in Commands, Bookkeeping(d) \/ Replay(d) PROVE Kept(c)'
  BY <1>1, KeptByItself, KeptByOthers
<1>2. CASE SecondPasses \/ UNCHANGED harnessVars
  BY <1>2 DEF SecondPasses, harnessVars, KeptInv, Kept, Sole
<1> QED BY <1>1, <1>2 DEF HarnessNext

\* A command that says its reports are written has written both, and they stay
\* as it wrote them unless another command ended in the same second.
THEOREM ReportsKept == HarnessSafety => []ReportsAreKept
<1>1. KeptInv => ReportsAreKept
  <2> SUFFICES ASSUME KeptInv, NEW c \in Commands, stage[c] = "done", Sole(c), NEW kind \in Kinds
               PROVE  reports[kind][stamp[c]] = {c}
    BY DEF ReportsAreKept, Sole
  <2>1. kind = "md" \/ kind = "json"
    BY DEF Kinds
  <2> QED BY <2>1 DEF KeptInv, Kept
<1> QED BY <1>1, TypeInitially, TypePreserved, KeptInitially, KeptPreserved, PTL
        DEF HarnessSafety

-----------------------------------------------------------------------------
\* Divisions.

\* What a division that rounds down is at least.
LEMMA AtLeast ==
  ASSUME NEW x \in Int, NEW d \in Nat, d > 0, NEW a \in Int
  PROVE  x \div d \in Int /\ (a <= x \div d <=> a * d <= x)
<1> DEFINE q == x \div d
<1>1. q \in Int /\ d * q <= x /\ x < d * q + d
  OBVIOUS
<1> HIDE DEF q
<1>2. ASSUME a <= q PROVE a * d <= x
  <2>1. a * d <= q * d
    BY <1>1, <1>2
  <2> QED BY <1>1, <2>1
<1>3. ASSUME a > q PROVE a * d > x
  <2>1. a >= q + 1
    BY <1>1, <1>3
  <2>2. a * d >= (q + 1) * d
    BY <1>1, <2>1
  <2>3. (q + 1) * d = d * q + d
    BY <1>1
  <2> QED BY <1>1, <2>2, <2>3
<1>4. a * d \in Int
  OBVIOUS
<1>5. a <= q <=> a * d <= x
  BY <1>1, <1>2, <1>3, <1>4
<1> QED BY <1>1, <1>5 DEF q

\* What divides One: as many as there are tools, once or twice.
LEMMA OneDivided ==
  ASSUME NEW d \in Nat, d > 0, d <= 2 * Cardinality(Tools)
  PROVE  \E m \in Nat : m > 0 /\ One = m * d
<1>1. One \in Nat /\ One > 0
  BY EvalMetricsAssumption
<1>2. Cardinality(Tools) \in Nat
  BY EvalMetricsAssumption, FS_CardinalityType
<1>3. d \in 1..(2 * Cardinality(Tools))
  BY <1>2
<1> QED BY <1>1, <1>3, EvalMetricsAssumption

\* A part of a whole is an exact share between 0 and One, and One when it is all of it.
LEMMA ShareIs ==
  ASSUME NEW k \in Nat, NEW d \in Nat, d > 0, d <= 2 * Cardinality(Tools), k <= d
  PROVE  /\ Share(k, d) \in Nat /\ Share(k, d) \in 0..One
         /\ Share(k, d) * d = One * k
         /\ Share(k, d) = One <=> k = d
<1>1. PICK m \in Nat : m > 0 /\ One = m * d
  BY OneDivided
<1> DEFINE x == One * k
           q == x \div d
           l == m * k
<1>2. x \in Int /\ l \in Int /\ x = l * d
  BY <1>1
<1> HIDE DEF x, l
<1>3. q \in Int /\ \A a \in Int : a <= q <=> a * d <= x
  BY <1>2, AtLeast
<1> HIDE DEF q
<1>4. q = l
  <2>1. l <= q
    <3>1. l * d <= x
      <4>1. l * d \in Int
        BY <1>2
      <4> QED BY <1>2, <4>1
    <3> QED BY <1>2, <1>3, <3>1
  <2>2. q <= l
    <3>1. q * d <= l * d
      BY <1>2, <1>3
    <3> QED BY <1>2, <1>3, <3>1
  <2> QED BY <1>2, <1>3, <2>1, <2>2
<1>5. l \in Nat /\ l <= One /\ (l = One <=> k = d)
  <2>1. l \in Nat
    BY <1>1 DEF l
  <2>2. m * k <= m * d
    BY <1>1
  <2>3. m * k = m * d => k = d
    BY <1>1
  <2> QED BY <1>1, <2>1, <2>2, <2>3 DEF l
<1>6. One \in Int
  BY <1>1
<1>7. Share(k, d) = q
  BY DEF Share, q, x
<1> QED BY <1>2, <1>4, <1>5, <1>6, <1>7 DEF x

\* A part that is not all falls short by the share of one tool at least.
LEMMA ShareShort ==
  ASSUME NEW k \in Nat, NEW d \in Nat, d > 0, d <= Cardinality(Tools), k < d,
         NEW gap \in Nat, One = gap * Cardinality(Tools)
  PROVE  Share(k, d) + gap <= One
<1> DEFINE s == Share(k, d)
           T == Cardinality(Tools)
<1>0. T \in Nat
  BY EvalMetricsAssumption, FS_CardinalityType
<1>1. s \in Nat /\ s * d = One * k
  BY <1>0, ShareIs
<1>2. One \in Nat
  BY EvalMetricsAssumption
<1> HIDE DEF s, T
<1>3. gap * d <= gap * T
  BY <1>0 DEF T
<1>4. (s + gap) * d <= One * d
  <2>1. (s + gap) * d = s * d + gap * d
    BY <1>1
  <2>2. One * (k + 1) <= One * d
    BY <1>2
  <2>3. One * (k + 1) = One * k + One
    BY <1>2
  <2>4. One * k \in Int /\ One * d \in Int /\ s * d \in Int /\ gap * d \in Int /\ (s + gap) * d \in Int
    BY <1>1, <1>2
  <2>5. gap * T = One
    BY DEF T
  <2> QED BY <1>1, <1>2, <1>3, <2>1, <2>2, <2>3, <2>4, <2>5
<1>5. s + gap <= One
  <2> DEFINE z == s + gap
  <2>1. z \in Int /\ z * d <= One * d
    BY <1>1, <1>4
  <2> HIDE DEF z
  <2>2. z <= One
    BY <1>2, <2>1
  <2> QED BY <2>2 DEF z
<1> QED BY <1>5 DEF s

\* A part of a whole in thousandths: 1000 if it is all of it, and only if it falls short
\* by half of a thousandth at most.
LEMMA RoundedBounds ==
  ASSUME NEW x \in Int, NEW d \in Nat, d > 0, 0 <= x, x <= d
  PROVE  /\ Rounded(x, d) \in 0..1000
         /\ x = d => Rounded(x, d) = 1000
         /\ Rounded(x, d) = 1000 => 2000 * (d - x) <= d
<1> DEFINE y == 2000 * x + d
           b == 2 * d
           q == y \div b
<1>1. y \in Int /\ b \in Nat /\ b > 0
  OBVIOUS
<1> HIDE DEF y, b
<1>2. /\ q \in Int
      /\ 0 <= q <=> 0 * b <= y
      /\ 1000 <= q <=> 1000 * b <= y
      /\ 1001 <= q <=> 1001 * b <= y
  BY <1>1, AtLeast
<1> HIDE DEF q
<1>3. q \in 0..1000 /\ (q = 1000 <=> 2000 * d <= 2000 * x + d)
  BY <1>1, <1>2 DEF y, b
<1>4. Rounded(x, d) = q
  BY DEF Rounded, q, y, b
<1> QED BY <1>3, <1>4

\* The mean of what is between 0 and One is reported in thousandths.
LEMMA ReportedBounds ==
  ASSUME NEW n \in Nat, n > 0, NEW s \in [1..n -> 0..One]
  PROVE  Reported(s) \in 0..1000
<1>1. One \in Nat /\ One > 0
  BY EvalMetricsAssumption
<1>2. s \in [1..n -> Int] /\ \A i \in 1..n : 0 <= s[i] /\ s[i] <= One
  <2>1. \A i \in 1..n : s[i] \in 0..One
    OBVIOUS
  <2>2. \A x \in 0..One : x \in Int /\ 0 <= x /\ x <= One
    BY <1>1
  <2> QED BY <2>1, <2>2
<1>3. s \in Seq(Int) /\ Len(s) = n
  BY <1>2, ListOf
<1> DEFINE low == [i \in 1..n |-> 0]
           high == [i \in 1..n |-> One]
           zero == 0
<1>4. /\ low \in [1..n -> Int] /\ high \in [1..n -> Int] /\ zero \in Int
      /\ \A i \in 1..n : low[i] = zero /\ high[i] = One
  BY <1>1
<1> HIDE DEF low, high
<1>5. low \in Seq(Int) /\ Len(low) = n /\ high \in Seq(Int) /\ Len(high) = n
  BY <1>4, ListOf
<1>6. Total(low) = zero * n /\ Total(high) = One * n
  <2> HIDE DEF zero
  <2> QED BY <1>1, <1>4, TotalConstant
<1>7. Total(low) <= Total(s) /\ Total(s) <= Total(high)
  <2>1. /\ \A i \in 1..Len(low) : low[i] <= s[i]
        /\ \A i \in 1..Len(s) : s[i] <= high[i]
    BY <1>2, <1>3, <1>4, <1>5
  <2> QED BY <1>3, <1>5, <2>1, TotalGrows
<1>8. Total(s) \in Int
  BY <1>3, TotalType
<1> DEFINE d == One * n
<1>9. d \in Nat /\ d > 0
  BY <1>1
<1>10. 0 <= Total(s) /\ Total(s) <= d
  BY <1>1, <1>6, <1>7, <1>8
<1>12. Len(s) = n
  BY <1>3
<1> HIDE DEF d
<1>11. Rounded(Total(s), d) \in 0..1000
  <2>1. PICK x \in Int : x = Total(s)
    BY <1>8
  <2>2. PICK e \in Nat : e = d
    BY <1>9
  <2>3. e > 0 /\ 0 <= x /\ x <= e
    BY ONLY <1>9, <1>10, <2>1, <2>2
  <2>4. /\ Rounded(x, e) \in 0..1000
        /\ x = e => Rounded(x, e) = 1000
        /\ Rounded(x, e) = 1000 => 2000 * (e - x) <= e
    <3>1. x \in Int /\ e \in Nat
      OBVIOUS
    <3> QED BY ONLY <2>3, <3>1, RoundedBounds
  <2>5. Rounded(x, e) \in 0..1000
    BY ONLY <2>4
  <2> QED BY ONLY <2>1, <2>2, <2>5, Zenon
<1> QED BY <1>11, <1>12 DEF Reported, d

-----------------------------------------------------------------------------
\* The scores of one replay.

\* A replay's tools are a list of tools, one for each of some entries.
LEMMA ToolsTyped ==
  ASSUME NEW t \in Seq(TrajectoryEntry)
  PROVE  /\ Len(ToolsOf(t)) \in Nat
         /\ DOMAIN ToolsOf(t) = 1..Len(ToolsOf(t))
         /\ ToSet(ToolsOf(t)) \in SUBSET Tools
<1> DEFINE calls == {e \in ToSet(t) : e.action = "tool_call"}
           m == Matching(t, calls)
           u == [i \in 1..Len(m) |-> m[i].detail]
<1>1. /\ m \in Seq(TrajectoryEntry)
      /\ \A k \in DOMAIN m : m[k] \in calls
  <2> HIDE DEF calls
  <2>1. /\ m \in Seq(TrajectoryEntry)
        /\ \A k \in DOMAIN m : \E i \in DOMAIN t : t[i] \in calls /\ m[k] = t[i]
    BY MatchingOf
  <2> QED BY <2>1
<1>2. ToolsOf(t) = [i \in DOMAIN m |-> m[i].detail]
  BY DEF ToolsOf, Map
<1>3. Len(m) \in Nat /\ DOMAIN m = 1..Len(m)
  BY <1>1
<1>4. \A k \in 1..Len(m) : m[k].detail \in Tools
  <2> SUFFICES ASSUME NEW k \in 1..Len(m) PROVE m[k].detail \in Tools
    OBVIOUS
  <2>1. m[k] \in TrajectoryEntry /\ m[k].action = "tool_call"
    <3> HIDE DEF m
    <3> QED BY <1>1, <1>3
  <2>2. \A e \in TrajectoryEntry : e.action = "tool_call" => e.detail \in Tools
    BY DEF TrajectoryEntry, TurnActionNames
  <2> QED BY <2>1, <2>2
<1> HIDE DEF m
<1>5. ToolsOf(t) = u
  BY <1>2, <1>3
<1>6. u \in Seq(Tools) /\ Len(u) \in Nat /\ DOMAIN u = 1..Len(u)
  <2>1. u \in [1..Len(m) -> Tools]
    BY <1>4
  <2> HIDE DEF u
  <2> QED BY <1>3, <2>1, ListOf
<1> HIDE DEF u
<1> QED BY <1>5, <1>6 DEF ToSet

\* How many tools two sets have, and share.
LEMMA ToolSets ==
  ASSUME NEW a \in SUBSET Tools, NEW g \in SUBSET Tools
  PROVE  /\ Cardinality(a) \in Nat /\ Cardinality(g) \in Nat
         /\ Cardinality(a \cap g) \in Nat /\ Cardinality(a \cup g) \in Nat
         /\ Cardinality(Tools) \in Nat
         /\ Cardinality(a \cap g) <= Cardinality(a)
         /\ Cardinality(a \cap g) <= Cardinality(g)
         /\ Cardinality(a \cap g) <= Cardinality(a \cup g)
         /\ Cardinality(a) <= Cardinality(Tools)
         /\ Cardinality(g) <= Cardinality(Tools)
         /\ Cardinality(a \cup g) <= Cardinality(Tools)
         /\ Cardinality(a) = 0 <=> a = {}
         /\ Cardinality(g) = 0 <=> g = {}
<1> DEFINE both == a \cap g
           either == a \cup g
<1>1. IsFiniteSet(Tools)
  BY EvalMetricsAssumption
<1>2. /\ either \in SUBSET Tools /\ both \in SUBSET a /\ both \in SUBSET g
      /\ both \in SUBSET either
  OBVIOUS
<1> HIDE DEF both, either
<1>3. /\ IsFiniteSet(a) /\ Cardinality(a) <= Cardinality(Tools)
      /\ IsFiniteSet(g) /\ Cardinality(g) <= Cardinality(Tools)
      /\ IsFiniteSet(either) /\ Cardinality(either) <= Cardinality(Tools)
  BY <1>1, <1>2, FS_Subset
<1>4. /\ IsFiniteSet(both) /\ Cardinality(both) <= Cardinality(a)
      /\ Cardinality(both) <= Cardinality(g)
      /\ Cardinality(both) <= Cardinality(either)
  BY <1>2, <1>3, FS_Subset
<1>5. /\ Cardinality(a) \in Nat /\ Cardinality(g) \in Nat /\ Cardinality(both) \in Nat
      /\ Cardinality(either) \in Nat /\ Cardinality(Tools) \in Nat
  BY <1>1, <1>3, <1>4, FS_CardinalityType
<1>6. /\ Cardinality(a) = 0 <=> a = {}
      /\ Cardinality(g) = 0 <=> g = {}
  BY <1>3, FS_EmptySet
<1> QED BY <1>3, <1>4, <1>5, <1>6 DEF both, either

\* The harmonic mean of w / A and w / G is 2 * w / (A + G).
LEMMA HarmonicIs ==
  ASSUME NEW p \in Nat, NEW r \in Nat, NEW A \in Nat, NEW G \in Nat, NEW w \in Nat,
         NEW d \in Nat, A > 0, G > 0, w > 0,
         p * A = w, r * G = w, d * (A + G) = 2 * w
  PROVE  p + r > 0 /\ (2 * p * r) \div (p + r) = d
<1> DEFINE s == p + r
           x == 2 * p * r
           v == A * G
           e == d * s
<1>1. p > 0
  <2>1. p = 0 => p * A = 0
    OBVIOUS
  <2> QED BY <2>1
<1>2. s \in Nat /\ s > 0 /\ x \in Nat /\ v \in Nat /\ v > 0 /\ e \in Nat
  BY <1>1
<1>3. e * v = x * v
  <2>1. s * v = w * (A + G)
    <3>1. s * v = (p * A) * G + (r * G) * A
      OBVIOUS
    <3> QED BY <3>1
  <2>2. e * v = d * (s * v)
    BY <1>2
  <2>3. d * (w * (A + G)) = w * (d * (A + G))
    OBVIOUS
  <2>4. x * v = 2 * ((p * A) * (r * G))
    OBVIOUS
  <2>5. w * (2 * w) = 2 * (w * w)
    OBVIOUS
  <2> HIDE DEF e, s, v, x
  <2> QED BY <2>1, <2>2, <2>3, <2>4, <2>5
<1>4. e = x
  <2> HIDE DEF e, v, x, s
  <2> QED BY <1>2, <1>3
<1> DEFINE q == x \div s
<1> HIDE DEF x, s
<1>5. q \in Int /\ \A a \in Int : a <= q <=> a * s <= x
  BY <1>2, AtLeast
<1> HIDE DEF q
<1>6. d <= q
  <2>1. d * s <= x
    BY <1>2, <1>4
  <2> QED BY <1>5, <2>1
<1>7. q <= d
  <2>1. q * s <= x
    BY <1>5
  <2>2. q * s <= d * s
    BY <1>4, <2>1
  <2> QED BY <1>2, <1>5, <2>2
<1> QED BY <1>2, <1>5, <1>6, <1>7 DEF q, x, s

\* Precision, recall and F1 are shares, F1 twice the tools that a replay shares with the
\* gold trajectory among the tools of both.
LEMMA AccuracyIs ==
  ASSUME NEW actual, NEW gold, ToSet(actual) \in SUBSET Tools, ToSet(gold) \in SUBSET Tools
  PROVE  LET s == ToolCallAccuracy(actual, gold)
         IN  /\ s.precision \in 0..One /\ s.recall \in 0..One /\ s.f1 \in 0..One
             /\ s.f1 = Dice(ToSet(actual), ToSet(gold))
<1> DEFINE a == ToSet(actual)
           g == ToSet(gold)
           h == Cardinality(a \cap g)
           A == Cardinality(a)
           G == Cardinality(g)
           T == Cardinality(Tools)
           p == IF a = {} THEN 0 ELSE Share(h, A)
           r == IF g = {} THEN 0 ELSE Share(h, G)
           f == IF p + r = 0 THEN 0 ELSE (2 * p * r) \div (p + r)
           d == Share(2 * h, A + G)
<1>1. ToolCallAccuracy(actual, gold) =
        IF a = {} /\ g = {}
        THEN [precision |-> One, recall |-> One, f1 |-> One]
        ELSE [precision |-> p, recall |-> r, f1 |-> f]
  BY DEF ToolCallAccuracy
<1>2. Dice(a, g) = IF a \cup g = {} THEN One ELSE d
  BY DEF Dice
<1>3. One \in Nat
  BY EvalMetricsAssumption
<1>4. /\ h \in Nat /\ A \in Nat /\ G \in Nat /\ T \in Nat /\ h <= A /\ h <= G
      /\ A <= T /\ G <= T /\ (A = 0 <=> a = {}) /\ (G = 0 <=> g = {})
  <2> HIDE DEF a, g
  <2>1. a \in SUBSET Tools /\ g \in SUBSET Tools
    BY DEF a, g
  <2> QED BY <2>1, ToolSets
<1> HIDE DEF a, g
<1>5. CASE a = {} /\ g = {}
  <2>1. One \in 0..One /\ a \cup g = {}
    BY <1>3, <1>5
  <2> QED BY <1>1, <1>2, <1>5, <2>1 DEF a, g
<1>6. CASE ~(a = {} /\ g = {})
  <2>0. a \cup g # {}
    BY <1>6
  <2> HIDE DEF h, A, G, T
  <2>1. ASSUME a # {} PROVE p \in Nat /\ p \in 0..One /\ p * A = One * h
    BY <1>4, <2>1, ShareIs DEF T
  <2>2. ASSUME g # {} PROVE r \in Nat /\ r \in 0..One /\ r * G = One * h
    BY <1>4, <2>2, ShareIs DEF T
  <2>3. p \in Nat /\ p \in 0..One /\ r \in Nat /\ r \in 0..One
    <3>1. 0 \in Nat /\ 0 \in 0..One
      BY <1>3
    <3>2. (a = {} => p = 0) /\ (g = {} => r = 0)
      OBVIOUS
    <3> HIDE DEF p, r
    <3> QED BY <2>1, <2>2, <3>1, <3>2
  <2>4. d \in Nat /\ d \in 0..One /\ d * (A + G) = One * (2 * h)
    <3>1. /\ 2 * h \in Nat /\ A + G \in Nat /\ A + G > 0 /\ 2 * h <= A + G
          /\ A + G <= 2 * T
      BY <1>4, <1>6
    <3> QED BY <3>1, ShareIs DEF T
  <2>5. f = d
    <3>1. CASE h = 0
      <4>1. p = 0
        <5>1. CASE a = {}
          BY <5>1
        <5>2. CASE a # {}
          <6>1. p * A = 0 /\ A > 0
            BY <1>3, <1>4, <2>1, <3>1, <5>2
          <6> HIDE DEF p
          <6> QED BY <1>4, <2>3, <6>1
        <5> QED BY <5>1, <5>2
      <4>2. r = 0
        <5>1. CASE g = {}
          BY <5>1
        <5>2. CASE g # {}
          <6>1. r * G = 0 /\ G > 0
            BY <1>3, <1>4, <2>2, <3>1, <5>2
          <6> HIDE DEF r
          <6> QED BY <1>4, <2>3, <6>1
        <5> QED BY <5>1, <5>2
      <4>3. d = 0
        <5>1. d * (A + G) = 0 /\ A + G > 0
          BY <1>3, <1>4, <1>6, <2>4, <3>1
        <5> HIDE DEF d
        <5> QED BY <1>4, <2>4, <5>1
      <4> HIDE DEF p, r, d
      <4> QED BY <4>1, <4>2, <4>3
    <3>2. CASE h # 0
      <4> DEFINE w == One * h
      <4>1. A > 0 /\ G > 0 /\ a # {} /\ g # {}
        BY <1>4, <3>2
      <4>2. w \in Nat /\ w > 0
        BY <1>3, <1>4, <3>2, EvalMetricsAssumption
      <4>3. p * A = w /\ r * G = w
        <5> HIDE DEF p, r
        <5> QED BY <2>1, <2>2, <4>1
      <4>4. d * (A + G) = 2 * w
        <5>1. One * (2 * h) = 2 * w
          BY <1>3, <1>4
        <5> HIDE DEF d, w
        <5> QED BY <2>4, <5>1
      <4> HIDE DEF p, r, d, w
      <4>5. p + r > 0 /\ (2 * p * r) \div (p + r) = d
        BY <1>4, <2>3, <2>4, <4>1, <4>2, <4>3, <4>4, HarmonicIs
      <4>6. p + r # 0
        BY <2>3, <4>5
      <4> QED BY <4>5, <4>6
    <3> QED BY <3>1, <3>2
  <2> HIDE DEF p, r, f, d
  <2>6. Dice(a, g) = d
    BY <1>2, <2>0
  <2>7. ToolCallAccuracy(actual, gold) = [precision |-> p, recall |-> r, f1 |-> f]
    BY <1>1, <1>6
  <2> QED BY <2>3, <2>4, <2>5, <2>6, <2>7 DEF a, g
<1> QED BY <1>5, <1>6

\* Two replays overlap in a share, which is One when they use the same tools, and short
\* of it by the share of one tool at least when they do not.
LEMMA OverlapBounds ==
  ASSUME NEW s, NEW t, ToSet(s) \in SUBSET Tools, ToSet(t) \in SUBSET Tools
  PROVE  /\ Overlap(s, t) \in 0..One
         /\ Overlap(s, t) = One <=> ToSet(s) = ToSet(t)
         /\ Overlap(t, s) = Overlap(s, t)
         /\ \A gap \in Nat : One = gap * Cardinality(Tools) /\ ToSet(s) # ToSet(t) =>
              Overlap(s, t) + gap <= One
<1> DEFINE a == ToSet(s)
           b == ToSet(t)
           k == Cardinality(a \cap b)
           d == Cardinality(a \cup b)
<1>1. Overlap(s, t) = IF a \cup b = {} THEN One ELSE Share(k, d)
  BY DEF Overlap
<1>2. Overlap(t, s) = Overlap(s, t)
  <2>1. b \cap a = a \cap b /\ b \cup a = a \cup b
    OBVIOUS
  <2>2. Overlap(t, s) = IF b \cup a = {} THEN One
                        ELSE Share(Cardinality(b \cap a), Cardinality(b \cup a))
    BY DEF Overlap
  <2> HIDE DEF a, b
  <2> QED BY <1>1, <2>1, <2>2
<1>3. /\ k \in Nat /\ d \in Nat /\ k <= d /\ d <= Cardinality(Tools)
      /\ Cardinality(Tools) \in Nat
      /\ k = d <=> a = b
      /\ d = 0 <=> a \cup b = {}
  <2>1. a \in SUBSET Tools /\ b \in SUBSET Tools
    OBVIOUS
  <2> HIDE DEF a, b
  <2>2. /\ Cardinality(a \cap b) \in Nat /\ Cardinality(a \cup b) \in Nat
        /\ Cardinality(Tools) \in Nat
        /\ Cardinality(a \cap b) <= Cardinality(a \cup b)
        /\ Cardinality(a \cup b) <= Cardinality(Tools)
    BY <2>1, ToolSets
  <2> DEFINE both == a \cap b
             either == a \cup b
  <2>0. /\ either \in SUBSET Tools /\ both \in SUBSET either /\ (both = either <=> a = b)
    BY <2>1
  <2> HIDE DEF both, either
  <2>5. IsFiniteSet(either)
    BY <2>0, EvalMetricsAssumption, FS_Subset
  <2>3. Cardinality(both) = Cardinality(either) <=> a = b
    <3>1. Cardinality(either) = Cardinality(both) => either = both
      BY <2>0, <2>5, FS_Subset
    <3> QED BY <2>0, <3>1
  <2>4. Cardinality(either) = 0 <=> either = {}
    BY <2>5, FS_EmptySet
  <2> USE DEF both, either
  <2> QED BY <2>2, <2>3, <2>4
<1>4. One \in Nat
  BY EvalMetricsAssumption
<1>5. CASE a \cup b = {}
  <2>1. a = b
    BY <1>5
  <2>2. One \in 0..One
    BY <1>4
  <2> QED BY <1>1, <1>2, <1>5, <2>1, <2>2
<1>6. CASE a \cup b # {}
  <2> HIDE DEF k, d, a, b
  <2>1. d > 0 /\ d <= 2 * Cardinality(Tools)
    BY <1>3, <1>6
  <2>2. Share(k, d) \in 0..One /\ (Share(k, d) = One <=> k = d)
    BY <1>3, <2>1, ShareIs
  <2>3. ASSUME NEW gap \in Nat, One = gap * Cardinality(Tools), a # b
        PROVE  Share(k, d) + gap <= One
    <3>1. k < d
      BY <1>3, <2>3
    <3> QED BY <1>3, <2>1, <2>3, <3>1, ShareShort
  <2>4. Overlap(s, t) = Share(k, d)
    BY <1>1, <1>6
  <2> QED BY <1>2, <1>3, <2>2, <2>3, <2>4 DEF a, b
<1> QED BY <1>5, <1>6

-----------------------------------------------------------------------------
\* The scores of pairs of replays.

\* The cells above the diagonal, and the others zero.
Above(n, score) == [p \in Cells(n) |-> IF p[1] < p[2] THEN score[p] ELSE 0]

\* The two loops over pairs add up the cells above the diagonal.
LEMMA PairsAbove ==
  ASSUME NEW n \in Nat, NEW score \in [Cells(n) -> Int]
  PROVE  /\ Above(n, score) \in [Cells(n) -> Int]
         /\ \A i, j \in 1..n :
              Above(n, score)[<<i, j>>] = IF i < j THEN score[<<i, j>>] ELSE 0
         /\ OverPairs(n, score) = Grid(Above(n, score), n)
<1> DEFINE m == Above(n, score)
<1>1. m \in [Cells(n) -> Int]
  BY DEF Above
<1>2. \A i, j \in 1..n : m[<<i, j>>] = IF i < j THEN score[<<i, j>>] ELSE 0
  BY DEF Above, Cells
<1> HIDE DEF m
<1>3. \A i \in 1..n : [j \in 1..n |-> IF i < j THEN score[<<i, j>>] ELSE 0] = [j \in 1..n |-> m[<<i, j>>]]
  BY <1>2
<1>4. \A i \in 1..n : Total([j \in 1..n |-> IF i < j THEN score[<<i, j>>] ELSE 0]) = Row(m, n, i)
  BY <1>3 DEF Row
<1>5. OverPairs(n, score) = Total([i \in 1..n |-> Row(m, n, i)])
  BY <1>4 DEF OverPairs
<1> QED BY <1>1, <1>2, <1>5 DEF Grid, Rows, m

\* With shares for cells, the sum is between none and all of the pairs, all of them only
\* if every pair's share is One, and otherwise short of it by what one share is.
LEMMA PairsBounds ==
  ASSUME NEW n \in Nat, n > 1,
         NEW score \in [Cells(n) -> 0..One],
         NEW ones, ones = [p \in Cells(n) |-> 1],
         NEW gap \in Nat, \A p \in Cells(n) : score[p] = One \/ score[p] + gap <= One
  PROVE  LET all == OverPairs(n, score)
             pairs == OverPairs(n, ones)
         IN  /\ all \in Int /\ pairs \in Nat /\ pairs > 0
             /\ 0 <= all /\ all <= One * pairs
             /\ all = One * pairs <=> \A i, j \in 1..n : i < j => score[<<i, j>>] = One
             /\ all # One * pairs => all + gap <= One * pairs
             /\ pairs <= n * n
<1>1. One \in Nat
  BY EvalMetricsAssumption
<1>2. /\ score \in [Cells(n) -> Int]
      /\ \A p \in Cells(n) : 0 <= score[p] /\ score[p] <= One
  <2>1. \A p \in Cells(n) : score[p] \in 0..One
    OBVIOUS
  <2>2. \A x \in 0..One : x \in Int /\ 0 <= x /\ x <= One
    BY <1>1
  <2> QED BY <2>1, <2>2
<1>3. ones \in [Cells(n) -> Int] /\ \A p \in Cells(n) : ones[p] = 1
  OBVIOUS
<1> DEFINE a == Above(n, score)
           u == Above(n, ones)
           z == [p \in Cells(n) |-> 0]
           full == [p \in Cells(n) |-> IF p[1] < p[2] THEN One ELSE 0]
<1>4. /\ a \in [Cells(n) -> Int] /\ u \in [Cells(n) -> Int]
      /\ OverPairs(n, score) = Grid(a, n) /\ OverPairs(n, ones) = Grid(u, n)
  BY <1>2, <1>3, PairsAbove
<1>5. \A p \in Cells(n) :
        /\ a[p] = (IF p[1] < p[2] THEN score[p] ELSE 0)
        /\ u[p] = (IF p[1] < p[2] THEN 1 ELSE 0)
        /\ z[p] = 0
        /\ full[p] = (IF p[1] < p[2] THEN One ELSE 0)
  BY <1>3 DEF Above
<1>6. z \in [Cells(n) -> Int] /\ full \in [Cells(n) -> Int]
  BY <1>1
<1> HIDE DEF a, u, z, full
<1>7. Grid(a, n) \in Int /\ Grid(u, n) \in Int /\ Grid(z, n) \in Int /\ Grid(full, n) \in Int
  BY <1>4, <1>6, GridType
<1>8. Grid(z, n) = 0
  <2> DEFINE one == 1
  <2>1. one \in Int /\ \A p \in Cells(n) : z[p] = z[p] + one * z[p]
    BY <1>5
  <2>2. Grid(z, n) = Grid(z, n) + one * Grid(z, n)
    <3>1. z \in [Cells(n) -> Int]
      BY <1>6
    <3> HIDE DEF one
    <3> QED BY <2>1, <3>1, GridAdds, ZenonT(30)
  <2>3. \A x \in Int : x = x + one * x => x = 0
    OBVIOUS
  <2> HIDE DEF one
  <2> QED BY <1>7, <2>2, <2>3, Zenon
<1>9. Grid(full, n) = One * Grid(u, n)
  <2> DEFINE c == One - 1
  <2>1. c \in Int /\ \A p \in Cells(n) : full[p] = u[p] + c * u[p]
    BY <1>1, <1>5
  <2>2. Grid(full, n) = Grid(u, n) + c * Grid(u, n)
    <3>1. u \in [Cells(n) -> Int] /\ full \in [Cells(n) -> Int]
      BY <1>4, <1>6
    <3> HIDE DEF c
    <3> QED BY <2>1, <3>1, GridAdds, ZenonT(30)
  <2>3. One * Grid(u, n) = Grid(u, n) + c * Grid(u, n)
    BY <1>1, <1>7
  <2> QED BY <2>2, <2>3
<1>10. Grid(z, n) <= Grid(a, n)
  <2>1. \A p \in Cells(n) : z[p] <= a[p]
    BY <1>2, <1>5
  <2> QED BY <1>4, <1>6, <2>1, GridGrows
<1>11. /\ Grid(a, n) <= Grid(full, n)
       /\ Grid(a, n) = Grid(full, n) => \A p \in Cells(n) : a[p] = full[p]
  <2>1. \A p \in Cells(n) : a[p] <= full[p]
    BY <1>1, <1>2, <1>5
  <2> QED BY <1>4, <1>6, <2>1, GridGrows
<1>12. Grid(u, n) > 0
  <2>1. \A p \in Cells(n) : z[p] <= u[p]
    BY <1>5
  <2>2. /\ Grid(z, n) <= Grid(u, n)
        /\ Grid(z, n) = Grid(u, n) => \A p \in Cells(n) : z[p] = u[p]
    BY <1>4, <1>6, <2>1, GridGrows
  <2>3. <<1, 2>> \in Cells(n)
    BY DEF Cells
  <2>4. z[<<1, 2>>] # u[<<1, 2>>]
    BY <1>5, <2>3
  <2> QED BY <1>7, <1>8, <2>2, <2>3, <2>4
<1>13. \A i, j \in 1..n :
         a[<<i, j>>] = full[<<i, j>>] <=> (i < j => score[<<i, j>>] = One)
  <2> SUFFICES ASSUME NEW i \in 1..n, NEW j \in 1..n
               PROVE  a[<<i, j>>] = full[<<i, j>>] <=> (i < j => score[<<i, j>>] = One)
    OBVIOUS
  <2>1. <<i, j>> \in Cells(n)
    BY DEF Cells
  <2> QED BY <1>5, <2>1
<1>14. (\A p \in Cells(n) : a[p] = full[p]) <=> \A i, j \in 1..n : a[<<i, j>>] = full[<<i, j>>]
  BY DEF Cells
<1>15. (\A p \in Cells(n) : a[p] = full[p]) => Grid(a, n) = Grid(full, n)
  <2>1. ASSUME \A p \in Cells(n) : a[p] = full[p] PROVE a = full
    BY <1>4, <1>6, <2>1
  <2> QED BY <2>1
<1>16. Grid(a, n) = Grid(full, n) <=> \A i, j \in 1..n : i < j => score[<<i, j>>] = One
  BY <1>11, <1>13, <1>14, <1>15
<1>17. One * Grid(u, n) = Grid(full, n)
  BY <1>9
<1>18. ASSUME Grid(a, n) # Grid(full, n) PROVE Grid(a, n) + gap <= Grid(full, n)
  <2> DEFINE short == [p \in Cells(n) |-> IF a[p] = full[p] THEN 0 ELSE 1]
             more == [p \in Cells(n) |-> a[p] + gap * short[p]]
  <2>1. /\ short \in [Cells(n) -> Int]
        /\ \A p \in Cells(n) : short[p] = IF a[p] = full[p] THEN 0 ELSE 1
    OBVIOUS
  <2> HIDE DEF short
  <2>2. more \in [Cells(n) -> Int] /\ \A p \in Cells(n) : more[p] = a[p] + gap * short[p]
    <3>1. \A p \in Cells(n) : a[p] + gap * short[p] \in Int
      BY <1>4, <2>1
    <3> QED BY <3>1
  <2> HIDE DEF more
  <2>3. Grid(more, n) = Grid(a, n) + gap * Grid(short, n)
    <3>1. gap \in Int
      OBVIOUS
    <3> QED BY <1>4, <2>1, <2>2, <3>1, GridAdds, ZenonT(30)
  <2>4. Grid(more, n) <= Grid(full, n)
    <3>1. ASSUME NEW p \in Cells(n) PROVE more[p] <= full[p]
      <4>1. CASE a[p] = full[p]
        BY <1>4, <1>6, <2>1, <2>2, <4>1
      <4>2. CASE a[p] # full[p]
        <5>1. short[p] = 1 /\ p[1] < p[2] /\ a[p] = score[p] /\ full[p] = One /\ score[p] # One
          BY <1>5, <2>1, <4>2
        <5>2. more[p] = score[p] + gap
          BY <1>2, <2>2, <5>1
        <5>3. score[p] + gap <= One
          BY <5>1
        <5> QED BY <5>1, <5>2, <5>3
      <4> QED BY <4>1, <4>2
    <3> QED BY <1>6, <2>2, <3>1, GridGrows
  <2>5. Grid(short, n) \in Int /\ Grid(short, n) >= 1
    <3>1. \A p \in Cells(n) : z[p] <= short[p]
      BY <1>5, <2>1
    <3>2. /\ Grid(z, n) <= Grid(short, n)
          /\ Grid(z, n) = Grid(short, n) => \A p \in Cells(n) : z[p] = short[p]
      BY <1>6, <2>1, <3>1, GridGrows
    <3>3. Grid(short, n) \in Int
      BY <2>1, GridType
    <3>4. (\A p \in Cells(n) : z[p] = short[p]) => \A p \in Cells(n) : a[p] = full[p]
      BY <1>5, <2>1
    <3> QED BY <1>8, <1>15, <1>18, <3>2, <3>3, <3>4
  <2>6. gap * 1 <= gap * Grid(short, n)
    BY <2>5
  <2>7. gap * Grid(short, n) \in Int
    BY <2>5
  <2> QED BY <1>7, <2>3, <2>4, <2>6, <2>7
<1>19. Grid(u, n) <= n * n
  <2>1. \A p \in Cells(n) : u[p] <= ones[p]
    BY <1>5
  <2>2. Grid(u, n) <= Grid(ones, n)
    BY <1>3, <1>4, <2>1, GridGrows
  <2> DEFINE one == 1
             row == [j \in 1..n |-> 1]
  <2>3. \A i, j \in 1..n : ones[<<i, j>>] = 1
    BY DEF Cells
  <2>4. \A i \in 1..n : Row(ones, n, i) = Total(row)
    BY <2>3 DEF Row
  <2>5. /\ row \in [1..n -> Int] /\ one \in Int /\ \A i \in 1..n : row[i] = one
    OBVIOUS
  <2> HIDE DEF row
  <2>6. Total(row) = n
    <3>1. Total(row) = one * n
      <4> HIDE DEF one
      <4> QED BY <2>5, TotalConstant
    <3> QED BY <3>1
  <2>7. Rows(ones, n) \in [1..n -> Int] /\ \A i \in 1..n : Rows(ones, n)[i] = n
    BY <2>4, <2>6 DEF Rows
  <2>8. Total(Rows(ones, n)) = n * n
    BY <2>7, TotalConstant, SMTT(20)
  <2> QED BY <2>2, <2>8 DEF Grid
<1>20. Grid(a, n) # One * Grid(u, n) => Grid(a, n) + gap <= One * Grid(u, n)
  BY <1>17, <1>18
<1> QED BY <1>4, <1>7, <1>8, <1>10, <1>11, <1>12, <1>16, <1>17, <1>19, <1>20

\* The cells off the diagonal, and the others zero.
OffDiagonal(n, score) == [p \in Cells(n) |-> IF p[1] = p[2] THEN 0 ELSE score[p]]

\* Twice the pairs are the grid without its diagonal.
LEMMA PairsTwice ==
  ASSUME NEW n \in Nat, NEW score \in [Cells(n) -> Int],
         \A i, j \in 1..n : score[<<j, i>>] = score[<<i, j>>]
  PROVE  /\ OffDiagonal(n, score) \in [Cells(n) -> Int]
         /\ OverPairs(n, score) \in Int
         /\ 2 * OverPairs(n, score) = Grid(OffDiagonal(n, score), n)
<1> DEFINE m == OffDiagonal(n, score)
           a == Above(n, score)
           b == [p \in Cells(n) |-> IF p[2] < p[1] THEN score[p] ELSE 0]
           one == 1
<1>1. /\ a \in [Cells(n) -> Int] /\ OverPairs(n, score) = Grid(a, n)
      /\ \A i, j \in 1..n : a[<<i, j>>] = IF i < j THEN score[<<i, j>>] ELSE 0
  BY PairsAbove
<1>2. /\ b \in [Cells(n) -> Int]
      /\ \A i, j \in 1..n : b[<<i, j>>] = IF j < i THEN score[<<i, j>>] ELSE 0
  <2>1. b \in [Cells(n) -> Int]
    OBVIOUS
  <2>2. \A i, j \in 1..n : <<i, j>> \in Cells(n)
    BY DEF Cells
  <2> QED BY <2>1, <2>2
<1>3. m \in [Cells(n) -> Int]
  BY DEF OffDiagonal
<1> HIDE DEF a, b
<1>4. Grid(b, n) = Grid(a, n)
  <2>1. ASSUME NEW i \in 1..n, NEW j \in 1..n PROVE b[<<i, j>>] = a[<<j, i>>]
    <3>1. b[<<i, j>>] = IF j < i THEN score[<<i, j>>] ELSE 0
      BY <1>2
    <3>2. a[<<j, i>>] = IF j < i THEN score[<<j, i>>] ELSE 0
      BY <1>1
    <3>3. score[<<i, j>>] = score[<<j, i>>]
      OBVIOUS
    <3> QED BY <3>1, <3>2, <3>3
  <2> QED BY <1>1, <1>2, <2>1, GridTransposed
<1>5. \A p \in Cells(n) : m[p] = a[p] + one * b[p]
  <2> SUFFICES ASSUME NEW p \in Cells(n) PROVE m[p] = a[p] + one * b[p]
    OBVIOUS
  <2>0. PICK i \in 1..n, j \in 1..n : p = <<i, j>>
    BY DEF Cells
  <2>1. <<i, j>> \in Cells(n) /\ score[<<i, j>>] \in Int
    BY DEF Cells
  <2>2. m[<<i, j>>] = IF i = j THEN 0 ELSE score[<<i, j>>]
    BY <2>1 DEF OffDiagonal
  <2>3. a[<<i, j>>] = IF i < j THEN score[<<i, j>>] ELSE 0
    BY <1>1
  <2>4. b[<<i, j>>] = IF j < i THEN score[<<i, j>>] ELSE 0
    BY <1>2
  <2>5. i < j \/ j < i \/ i = j
    OBVIOUS
  <2> HIDE DEF m
  <2> QED BY <2>0, <2>1, <2>2, <2>3, <2>4, <2>5
<1>6. one \in Int
  OBVIOUS
<1>7. Grid(m, n) = Grid(a, n) + one * Grid(b, n)
  <2> HIDE DEF one, m
  <2> QED BY <1>1, <1>2, <1>3, <1>5, <1>6, GridAdds, ZenonT(30)
<1>8. Grid(a, n) \in Int
  BY <1>1, GridType
<1> QED BY <1>1, <1>3, <1>4, <1>7, <1>8

\* The overlaps of replays with some of the tools each.
Overlaps(tools, n) == [p \in Cells(n) |-> Overlap(tools[p[1]], tools[p[2]])]

LEMMA OverlapsTyped ==
  ASSUME NEW n \in Nat, NEW tools, \A i \in 1..n : ToSet(tools[i]) \in SUBSET Tools
  PROVE  /\ Overlaps(tools, n) \in [Cells(n) -> 0..One]
         /\ Overlaps(tools, n) \in [Cells(n) -> Int]
         /\ \A i, j \in 1..n :
              /\ Overlaps(tools, n)[<<i, j>>] = Overlap(tools[i], tools[j])
              /\ Overlaps(tools, n)[<<j, i>>] = Overlaps(tools, n)[<<i, j>>]
              /\ Overlaps(tools, n)[<<i, j>>] = One <=> ToSet(tools[i]) = ToSet(tools[j])
         /\ \A gap \in Nat : One = gap * Cardinality(Tools) =>
              \A p \in Cells(n) : \/ Overlaps(tools, n)[p] = One
                                  \/ Overlaps(tools, n)[p] + gap <= One
<1>1. \A i, j \in 1..n : Overlaps(tools, n)[<<i, j>>] = Overlap(tools[i], tools[j])
  BY DEF Overlaps, Cells
<1>2. \A i, j \in 1..n : /\ Overlap(tools[i], tools[j]) \in 0..One
                         /\ Overlap(tools[j], tools[i]) = Overlap(tools[i], tools[j])
                         /\ Overlap(tools[i], tools[j]) = One <=> ToSet(tools[i]) = ToSet(tools[j])
  BY OverlapBounds
<1>3. Overlaps(tools, n) \in [Cells(n) -> 0..One]
  BY <1>2 DEF Overlaps, Cells
<1>4. 0..One \subseteq Int
  OBVIOUS
<1>5. ASSUME NEW gap \in Nat, One = gap * Cardinality(Tools), NEW p \in Cells(n)
      PROVE  Overlaps(tools, n)[p] = One \/ Overlaps(tools, n)[p] + gap <= One
  <2>1. PICK i \in 1..n, j \in 1..n : p = <<i, j>>
    BY DEF Cells
  <2>2. Overlap(tools[i], tools[j]) = One \/ Overlap(tools[i], tools[j]) + gap <= One
    BY <1>5, OverlapBounds
  <2> QED BY <1>1, <2>1, <2>2
<1> QED BY <1>1, <1>2, <1>3, <1>4, <1>5

ToolLists(tools, n) == Len(tools) = n /\ \A i \in 1..n : ToSet(tools[i]) \in SUBSET Tools
Alike(tools, n) == \A j \in 1..n : ToSet(tools[j]) = ToSet(tools[1])
Few(n) == n * n * Cardinality(Tools) < 2000

\* Consistency is full when all replays use the same tools, and, unless there are too
\* many pairs and tools for a lone difference to be reported, only then.
LEMMA ConsistencyBounds ==
  ASSUME NEW n \in Nat, n > 0, NEW tools, ToolLists(tools, n)
  PROVE  /\ TrajectoryConsistency(tools) \in 0..1000
         /\ Alike(tools, n) => TrajectoryConsistency(tools) = 1000
         /\ TrajectoryConsistency(tools) = 1000 /\ Few(n) => Alike(tools, n)
<1> DEFINE same == \A j \in 1..n : ToSet(tools[j]) = ToSet(tools[1])
           o == Overlaps(tools, n)
           ones == [p \in Cells(n) |-> 1]
           all == OverPairs(n, o)
           pairs == OverPairs(n, ones)
           size == Cardinality(Tools)
<1> USE DEF ToolLists
<1>1. TrajectoryConsistency(tools) = IF n <= 1 THEN 1000 ELSE Rounded(all, One * pairs)
  BY DEF TrajectoryConsistency, Overlaps, Cells
<1>2. /\ o \in [Cells(n) -> 0..One]
      /\ \A i, j \in 1..n : o[<<i, j>>] = One <=> ToSet(tools[i]) = ToSet(tools[j])
      /\ \A gap \in Nat : One = gap * size =>
           \A p \in Cells(n) : o[p] = One \/ o[p] + gap <= One
  <2>1. o \in [Cells(n) -> 0..One]
    BY OverlapsTyped
  <2>2. ASSUME NEW i \in 1..n, NEW j \in 1..n
        PROVE  o[<<i, j>>] = One <=> ToSet(tools[i]) = ToSet(tools[j])
    BY OverlapsTyped
  <2>3. \A gap \in Nat : One = gap * size =>
          \A p \in Cells(n) : o[p] = One \/ o[p] + gap <= One
    BY OverlapsTyped
  <2> QED BY <2>1, <2>2, <2>3
<1>3. One \in Nat /\ One > 0 /\ size \in Nat
  BY EvalMetricsAssumption, FS_CardinalityType
<1>4. CASE n <= 1
  <2>1. same
    BY <1>4
  <2> HIDE DEF all, pairs, same
  <2> QED BY <1>1, <1>4, <2>1 DEF same, Alike
<1>5. CASE ~(n <= 1)
  <2>1. PICK gap \in Nat : /\ \A p \in Cells(n) : o[p] = One \/ o[p] + gap <= One
                           /\ One = gap * size \/ size = 0
                           /\ size = 0 => same
    <3>1. CASE size = 0
      <4>1. Tools = {}
        BY <3>1, EvalMetricsAssumption, FS_EmptySet
      <4>2. \A i \in 1..n : ToSet(tools[i]) = {}
        BY <4>1
      <4>3. same /\ \A p \in Cells(n) : o[p] = One
        <5>1. \A i, j \in 1..n : ToSet(tools[i]) = ToSet(tools[j])
          BY <4>2
        <5>2. 1 \in 1..n
          OBVIOUS
        <5>3. \A i, j \in 1..n : o[<<i, j>>] = One
          BY <1>2, <5>1
        <5> HIDE DEF o
        <5> QED BY <5>1, <5>2, <5>3 DEF Cells
      <4>4. 0 \in Nat
        OBVIOUS
      <4> HIDE DEF o, same
      <4> QED BY <3>1, <4>3, <4>4
    <3>2. CASE size # 0
      <4>1. size > 0 /\ size <= 2 * size
        BY <1>3, <3>2
      <4>2. PICK m \in Nat : m > 0 /\ One = m * size
        BY <1>3, <4>1, OneDivided
      <4> HIDE DEF o, same
      <4> QED BY <1>2, <3>2, <4>2
    <3> QED BY <3>1, <3>2
  <2> HIDE DEF o
  <2>2. /\ all \in Int /\ pairs \in Nat /\ pairs > 0
        /\ 0 <= all /\ all <= One * pairs
        /\ all = One * pairs <=> \A i, j \in 1..n : i < j => o[<<i, j>>] = One
        /\ all # One * pairs => all + gap <= One * pairs
        /\ pairs <= n * n
    <3>1. n > 1
      BY <1>5
    <3> QED BY <1>2, <2>1, <3>1, PairsBounds, SMTT(20)
  <2> HIDE DEF all, pairs
  <2>3. (\A i, j \in 1..n : i < j => o[<<i, j>>] = One) <=> same
    <3>1. ASSUME \A i, j \in 1..n : i < j => o[<<i, j>>] = One, NEW j \in 1..n
          PROVE  ToSet(tools[j]) = ToSet(tools[1])
      <4>1. 1 \in 1..n /\ (j = 1 \/ 1 < j)
        OBVIOUS
      <4> QED BY <1>2, <3>1, <4>1
    <3>2. ASSUME \A j \in 1..n : ToSet(tools[j]) = ToSet(tools[1])
          PROVE  \A i, j \in 1..n : i < j => o[<<i, j>>] = One
      BY <1>2, <3>2
    <3> QED BY <3>1, <3>2
  <2> DEFINE whole == One * pairs
             q == Rounded(all, whole)
  <2>4. whole \in Nat /\ whole > 0
    BY <1>3, <2>2
  <2>5. q \in 0..1000 /\ (all = whole => q = 1000) /\ (q = 1000 => 2000 * (whole - all) <= whole)
    <3>1. all <= whole
      BY <2>2
    <3> HIDE DEF whole
    <3> QED BY <2>2, <2>4, <3>1, RoundedBounds
  <2>6. ASSUME q = 1000, n * n * size < 2000, all # whole PROVE size = 0
    <3> SUFFICES ASSUME size # 0 PROVE FALSE
      OBVIOUS
    <3>1. One = gap * size /\ gap > 0
      <4>1. One = gap * size
        BY <2>1
      <4>2. gap = 0 => gap * size = 0
        BY <1>3
      <4> QED BY <1>3, <4>1, <4>2
    <3> HIDE DEF size, q
    <3>2. 2000 * gap <= whole
      BY <2>2, <2>4, <2>5, <2>6
    <3> DEFINE most == n * n * size
    <3>3. whole <= gap * most
      <4>1. whole = (gap * size) * pairs
        BY <3>1
      <4>2. (gap * size) * pairs <= (gap * size) * (n * n)
        <5> DEFINE g == gap * size
                   nn == n * n
        <5>1. g \in Nat /\ nn \in Nat /\ pairs <= nn
          BY <1>3, <2>2
        <5> HIDE DEF g, nn
        <5>2. g * pairs <= g * nn
          BY <2>2, <5>1
        <5> QED BY <5>2 DEF g, nn
      <4>3. (gap * size) * (n * n) = gap * most
        BY <1>3
      <4> HIDE DEF whole, most
      <4> QED BY <4>1, <4>2, <4>3
    <3>4. most \in Nat /\ most < 2000
      BY <1>3, <2>6
    <3> HIDE DEF most, whole
    <3>5. gap * most < gap * 2000
      BY <3>1, <3>4
    <3>6. gap * most \in Int
      BY <3>4
    <3> QED BY <2>4, <3>2, <3>3, <3>5, <3>6
  <2>7. all = whole <=> same
    BY <2>2, <2>3
  <2>8. TrajectoryConsistency(tools) = q
    BY <1>1, <1>5
  <2> HIDE DEF q, same, size, whole
  <2>9. /\ q \in 0..1000 /\ (same => q = 1000)
        /\ q = 1000 /\ n * n * size < 2000 => same
    BY <2>1, <2>5, <2>6, <2>7
  <2> QED BY <2>8, <2>9 DEF same, size, Alike, Few
<1> QED BY <1>4, <1>5

\* The first replay changes places with another.
Reordered(t, s, n, k) ==
  /\ n \in Nat /\ k \in 1..n /\ Len(s) = n /\ Len(t) = n
  /\ \A i \in 1..n : t[i] = s[Other(i, k)]

LEMMA ConsistencySwapped ==
  ASSUME NEW n, NEW k, NEW s, NEW t, Reordered(t, s, n, k),
         \A i \in 1..n : ToSet(s[i]) \in SUBSET Tools
  PROVE  TrajectoryConsistency(t) = TrajectoryConsistency(s)
<1> USE DEF Reordered
<1>0. /\ \A i \in 1..n : Other(i, k) \in 1..n
      /\ \A i, j \in 1..n : Other(i, k) = Other(j, k) <=> i = j
  BY DEF Other
<1>1. \A i \in 1..n : ToSet(t[i]) \in SUBSET Tools
  BY <1>0
<1> DEFINE os == Overlaps(s, n)
           ot == Overlaps(t, n)
           ms == OffDiagonal(n, os)
           mt == OffDiagonal(n, ot)
           pairs == OverPairs(n, [p \in Cells(n) |-> 1])
<1>2. /\ TrajectoryConsistency(s)
           = IF n <= 1 THEN 1000 ELSE Rounded(OverPairs(n, os), One * pairs)
      /\ TrajectoryConsistency(t)
           = IF n <= 1 THEN 1000 ELSE Rounded(OverPairs(n, ot), One * pairs)
  BY DEF TrajectoryConsistency, Overlaps, Cells
<1>3. /\ os \in [Cells(n) -> Int] /\ ot \in [Cells(n) -> Int]
      /\ \A i, j \in 1..n : /\ os[<<i, j>>] = Overlap(s[i], s[j])
                            /\ os[<<j, i>>] = os[<<i, j>>]
                            /\ ot[<<i, j>>] = Overlap(t[i], t[j])
                            /\ ot[<<j, i>>] = ot[<<i, j>>]
  BY <1>1, OverlapsTyped
<1> HIDE DEF os, ot, pairs
<1>4. /\ ms \in [Cells(n) -> Int] /\ mt \in [Cells(n) -> Int]
      /\ OverPairs(n, os) \in Int /\ 2 * OverPairs(n, os) = Grid(ms, n)
      /\ OverPairs(n, ot) \in Int /\ 2 * OverPairs(n, ot) = Grid(mt, n)
  <2>1. \A i, j \in 1..n : os[<<j, i>>] = os[<<i, j>>]
    BY <1>3
  <2>2. \A i, j \in 1..n : ot[<<j, i>>] = ot[<<i, j>>]
    BY <1>3
  <2>3. /\ ms \in [Cells(n) -> Int]
        /\ OverPairs(n, os) \in Int /\ 2 * OverPairs(n, os) = Grid(ms, n)
    BY <1>3, <2>1, PairsTwice
  <2>4. /\ mt \in [Cells(n) -> Int]
        /\ OverPairs(n, ot) \in Int /\ 2 * OverPairs(n, ot) = Grid(mt, n)
    BY <1>3, <2>2, PairsTwice
  <2> QED BY <2>3, <2>4
<1>5. \A i, j \in 1..n : mt[<<i, j>>] = ms[<<Other(i, k), Other(j, k)>>]
  <2> SUFFICES ASSUME NEW i \in 1..n, NEW j \in 1..n
               PROVE  mt[<<i, j>>] = ms[<<Other(i, k), Other(j, k)>>]
    OBVIOUS
  <2> DEFINE x == Other(i, k)
             y == Other(j, k)
  <2>1. x \in 1..n /\ y \in 1..n /\ (x = y <=> i = j) /\ t[i] = s[x] /\ t[j] = s[y]
    BY <1>0
  <2> HIDE DEF x, y
  <2>2. <<i, j>> \in Cells(n) /\ <<x, y>> \in Cells(n)
    BY <2>1 DEF Cells
  <2>3. /\ mt[<<i, j>>] = IF i = j THEN 0 ELSE ot[<<i, j>>]
        /\ ms[<<x, y>>] = IF x = y THEN 0 ELSE os[<<x, y>>]
    BY <2>2 DEF OffDiagonal
  <2>4. ot[<<i, j>>] = os[<<x, y>>]
    <3>1. ot[<<i, j>>] = Overlap(t[i], t[j])
      BY <1>3
    <3>2. os[<<x, y>>] = Overlap(s[x], s[y])
      BY <1>3, <2>1
    <3> QED BY <2>1, <3>1, <3>2
  <2> HIDE DEF ms, mt
  <2>5. mt[<<i, j>>] = ms[<<x, y>>]
    BY <2>1, <2>3, <2>4
  <2> QED BY <2>5 DEF x, y
<1> HIDE DEF ms, mt
<1>6. Grid(mt, n) = Grid(ms, n)
  BY <1>4, <1>5, GridSwapped
<1>7. OverPairs(n, ot) = OverPairs(n, os)
  BY <1>4, <1>6
<1> QED BY <1>2, <1>7

-----------------------------------------------------------------------------
\* The scores of a scenario.

\* What compute adds up or averages, replay by replay.
ToolsUsed(r) == [j \in DOMAIN r |-> ToolsOf(r[j].trajectory)]
Accuracies(r, gold) == [j \in DOMAIN r |-> ToolCallAccuracy(ToolsOf(r[j].trajectory), gold)]
Precisions(r, gold) == [j \in DOMAIN r |-> Accuracies(r, gold)[j].precision]
Recalls(r, gold) == [j \in DOMAIN r |-> Accuracies(r, gold)[j].recall]
F1s(r, gold) == [j \in DOMAIN r |-> Accuracies(r, gold)[j].f1]
Verdicts(r) == [j \in DOMAIN r |-> IF ReasoningCorrect(r[j].diagnosis) THEN 1 ELSE 0]
Redundant(r, gold) == [j \in DOMAIN r |-> RedundantCalls(r[j].trajectory, gold)]
TripCounts(r) == [j \in DOMAIN r |-> Trips(r[j].trajectory)]
Errors(r) == [j \in DOMAIN r |-> ValidationErrors(r[j].trajectory)]
Tokens(r) == [j \in DOMAIN r |-> r[j].tokens]

LEMMA ComputeIs ==
  ASSUME NEW r, NEW gold
  PROVE  Compute(r, gold) =
           [tool_precision    |-> Reported(Precisions(r, gold)),
            tool_recall       |-> Reported(Recalls(r, gold)),
            tool_f1           |-> Reported(F1s(r, gold)),
            consistency       |-> TrajectoryConsistency(ToolsUsed(r)),
            reasoning_correct |-> Majority(Total(Verdicts(r)), Len(r)),
            redundant_calls   |-> Total(Redundant(r, gold)),
            loop_count        |-> Total(TripCounts(r)),
            validation_errors |-> Total(Errors(r)),
            breaker_trips     |-> Total(TripCounts(r)),
            avg_tokens        |-> Total(Tokens(r)) \div Len(r)]
<1> DEFINE tools == ToolsUsed(r)
           scores == Accuracies(r, gold)
<1>1. DOMAIN tools = DOMAIN r /\ DOMAIN scores = DOMAIN r
  BY DEF ToolsUsed, Accuracies
<1>2. tools = Map(LAMBDA x : ToolsOf(x.trajectory), r)
  BY DEF ToolsUsed, Map
<1>3. scores = Map(LAMBDA x : ToolCallAccuracy(x, gold), tools)
  BY DEF ToolsUsed, Accuracies, Map
<1>4. /\ Precisions(r, gold) = Map(LAMBDA x : x.precision, scores)
      /\ Recalls(r, gold) = Map(LAMBDA x : x.recall, scores)
      /\ F1s(r, gold) = Map(LAMBDA x : x.f1, scores)
  <2> HIDE DEF scores
  <2> QED BY <1>1 DEF Precisions, Recalls, F1s, Map, scores
<1>5. Total(Verdicts(r)) = Count(r, LAMBDA x : ReasoningCorrect(x.diagnosis))
  BY DEF Verdicts, Count
<1>6. /\ Redundant(r, gold) = Map(LAMBDA x : RedundantCalls(x.trajectory, gold), r)
      /\ TripCounts(r) = Map(LAMBDA x : Trips(x.trajectory), r)
      /\ Errors(r) = Map(LAMBDA x : ValidationErrors(x.trajectory), r)
      /\ Tokens(r) = Map(LAMBDA x : x.tokens, r)
  BY DEF Redundant, TripCounts, Errors, Tokens, Map
<1> QED BY <1>2, <1>3, <1>4, <1>5, <1>6 DEF Compute

\* Replays that compute can score: one at least, with logs for trajectories.
Scorable(r, n, gold) ==
  /\ n \in Nat /\ n > 0 /\ Len(r) = n /\ DOMAIN r = 1..n
  /\ gold \in Seq(Tools)
  /\ \A j \in 1..n : /\ r[j].trajectory \in Seq(TrajectoryEntry)
                     /\ r[j].tokens \in Nat

\* To count entries gives a number.
LEMMA MarksTyped ==
  ASSUME NEW n \in Nat, NEW s \in [1..n -> {0, 1}]
  PROVE  Total(s) \in Int
<1>1. s \in [1..n -> Int]
  OBVIOUS
<1> QED BY <1>1, ListOf, TotalType

LEMMA CountsTyped ==
  ASSUME NEW t \in Seq(TrajectoryEntry), NEW gold
  PROVE  /\ RedundantCalls(t, gold) \in Int
         /\ Trips(t) \in Int
         /\ ValidationErrors(t) \in Int
<1>1. Len(t) \in Nat /\ DOMAIN t = 1..Len(t)
  OBVIOUS
<1>2. Trips(t) \in Int
  <2> DEFINE m == [i \in 1..Len(t) |-> IF IsTrip(t[i]) THEN 1 ELSE 0]
  <2>1. m \in [1..Len(t) -> {0, 1}]
    OBVIOUS
  <2>2. Trips(t) = Total(m)
    BY <1>1 DEF Trips, Count
  <2> HIDE DEF m
  <2> QED BY <1>1, <2>1, <2>2, MarksTyped
<1>3. ValidationErrors(t) \in Int
  <2> DEFINE m == [i \in 1..Len(t) |-> IF t[i].action = "validation_error" THEN 1 ELSE 0]
  <2>1. m \in [1..Len(t) -> {0, 1}]
    OBVIOUS
  <2>2. ValidationErrors(t) = Total(m)
    BY <1>1 DEF ValidationErrors, Count
  <2> HIDE DEF m
  <2> QED BY <1>1, <2>1, <2>2, MarksTyped
<1>4. RedundantCalls(t, gold) \in Int
  <2> DEFINE u == ToolsOf(t)
             m == [i \in 1..Len(u) |-> IF u[i] \notin ToSet(gold) THEN 1 ELSE 0]
  <2>0. Len(u) \in Nat /\ DOMAIN u = 1..Len(u)
    BY ToolsTyped
  <2>1. m \in [1..Len(u) -> {0, 1}]
    OBVIOUS
  <2>2. RedundantCalls(t, gold) = Total(m)
    BY <2>0 DEF RedundantCalls, Count
  <2> HIDE DEF m, u
  <2> QED BY <2>0, <2>1, <2>2, MarksTyped
<1> QED BY <1>2, <1>3, <1>4

\* What is added up are numbers, and shares where it is averaged.
LEMMA PartsTyped ==
  ASSUME NEW r, NEW n, NEW gold, Scorable(r, n, gold)
  PROVE  /\ Precisions(r, gold) \in [1..n -> 0..One]
         /\ Recalls(r, gold) \in [1..n -> 0..One]
         /\ F1s(r, gold) \in [1..n -> 0..One]
         /\ \A j \in 1..n : F1s(r, gold)[j] = Dice(ToSet(ToolsUsed(r)[j]), ToSet(gold))
         /\ Verdicts(r) \in [1..n -> {0, 1}]
         /\ Redundant(r, gold) \in [1..n -> Int]
         /\ TripCounts(r) \in [1..n -> Int]
         /\ Errors(r) \in [1..n -> Int]
         /\ Tokens(r) \in [1..n -> Int]
         /\ \A j \in 1..n : ToSet(ToolsUsed(r)[j]) \in SUBSET Tools
         /\ Len(ToolsUsed(r)) = n
<1>1. /\ n \in Nat /\ DOMAIN r = 1..n
      /\ \A j \in 1..n : /\ r[j].trajectory \in Seq(TrajectoryEntry)
                         /\ r[j].tokens \in Nat
  BY DEF Scorable
<1>2. ToSet(gold) \in SUBSET Tools
  BY DEF Scorable, ToSet
<1>3. \A j \in 1..n : ToSet(ToolsOf(r[j].trajectory)) \in SUBSET Tools
  BY <1>1, ToolsTyped
<1>4. \A j \in 1..n :
        /\ Accuracies(r, gold)[j].precision \in 0..One
        /\ Accuracies(r, gold)[j].recall \in 0..One
        /\ Accuracies(r, gold)[j].f1 \in 0..One
        /\ Accuracies(r, gold)[j].f1 = Dice(ToSet(ToolsOf(r[j].trajectory)), ToSet(gold))
  <2> SUFFICES ASSUME NEW j \in 1..n
               PROVE  LET x == Accuracies(r, gold)[j]
                      IN  /\ x.precision \in 0..One /\ x.recall \in 0..One /\ x.f1 \in 0..One
                          /\ x.f1 = Dice(ToSet(ToolsOf(r[j].trajectory)), ToSet(gold))
    OBVIOUS
  <2> DEFINE u == ToolsOf(r[j].trajectory)
  <2>1. Accuracies(r, gold)[j] = ToolCallAccuracy(u, gold)
    BY <1>1 DEF Accuracies
  <2>2. ToSet(u) \in SUBSET Tools
    BY <1>3
  <2> HIDE DEF u
  <2>3. LET x == ToolCallAccuracy(u, gold)
        IN  /\ x.precision \in 0..One /\ x.recall \in 0..One /\ x.f1 \in 0..One
            /\ x.f1 = Dice(ToSet(u), ToSet(gold))
    BY <1>2, <2>2, AccuracyIs
  <2> QED BY <2>1, <2>3 DEF u
<1>5. /\ Precisions(r, gold) \in [1..n -> 0..One]
      /\ Recalls(r, gold) \in [1..n -> 0..One]
      /\ F1s(r, gold) \in [1..n -> 0..One]
      /\ \A j \in 1..n : F1s(r, gold)[j] = Dice(ToSet(ToolsOf(r[j].trajectory)), ToSet(gold))
  BY <1>1, <1>4 DEF Precisions, Recalls, F1s
<1>6. Verdicts(r) \in [1..n -> {0, 1}]
  BY <1>1 DEF Verdicts
<1>7. /\ Redundant(r, gold) \in [1..n -> Int]
      /\ TripCounts(r) \in [1..n -> Int]
      /\ Errors(r) \in [1..n -> Int]
  BY <1>1, CountsTyped DEF Redundant, TripCounts, Errors
<1>8. Tokens(r) \in [1..n -> Int]
  BY <1>1 DEF Tokens
<1>9. \A j \in 1..n : ToolsUsed(r)[j] = ToolsOf(r[j].trajectory)
  BY <1>1 DEF ToolsUsed
<1>10. Len(ToolsUsed(r)) = n
  BY <1>1 DEF ToolsUsed
<1> QED BY <1>3, <1>5, <1>6, <1>7, <1>8, <1>9, <1>10

\* The verdict counts the replays that are right against the ones that are not.
LEMMA VerdictCounts ==
  ASSUME NEW n \in Nat, NEW r, DOMAIN r = 1..n,
         NEW right, right = {j \in DOMAIN r : r[j].diagnosis = "right"}
  PROVE  Majority(Total(Verdicts(r)), n)
           <=> Cardinality(right) >= Cardinality(DOMAIN r \ right)
<1> DEFINE v == Verdicts(r)
           wrong == DOMAIN r \ right
<1>1. v \in [1..n -> {0, 1}] /\ \A j \in 1..n : v[j] = 1 <=> j \in right
  BY DEF Verdicts, ReasoningCorrect
<1> HIDE DEF v
<1>2. Total(v) = Cardinality({j \in 1..n : v[j] = 1})
  BY <1>1, TotalMarks
<1>3. {j \in 1..n : v[j] = 1} = right
  BY <1>1
<1>4. IsFiniteSet(1..n) /\ Cardinality(1..n) = n
  <2>1. Cardinality(1..n) = IF 1 > n THEN 0 ELSE n - 1 + 1
    BY FS_Interval
  <2>2. IsFiniteSet(1..n)
    BY FS_Interval
  <2> QED BY <2>1, <2>2
<1>5. right \in SUBSET (1..n) /\ wrong = (1..n) \ right /\ wrong \in SUBSET (1..n)
  OBVIOUS
<1> HIDE DEF wrong
<1>6. /\ IsFiniteSet(right) /\ Cardinality(right) \in Nat
      /\ IsFiniteSet(wrong) /\ Cardinality(wrong) \in Nat
  BY <1>4, <1>5, FS_Subset, FS_CardinalityType
<1>7. Cardinality(wrong) = n - Cardinality(right)
  <2>1. Cardinality((1..n) \ right) = Cardinality(1..n) - Cardinality((1..n) \cap right)
    BY <1>4, FS_Difference
  <2>2. (1..n) \cap right = right
    BY <1>5
  <2> QED BY <1>4, <1>5, <2>1, <2>2
<1>8. Total(v) = Cardinality(right)
  BY <1>2, <1>3
<1>9. 2 * Cardinality(right) >= n <=> Cardinality(right) >= Cardinality(wrong)
  BY <1>6, <1>7
<1> QED BY <1>8, <1>9 DEF Majority, v, wrong

\* The sum is the same when the first replay changes places with another.
LEMMA TotalReordered ==
  ASSUME NEW n \in Nat, NEW k \in 1..n, NEW s \in [1..n -> Int], NEW t \in [1..n -> Int],
         \A i \in 1..n : t[i] = s[Other(i, k)]
  PROVE  Total(t) = Total(s)
<1>1. s \in Seq(Int) /\ Len(s) = n /\ t \in Seq(Int) /\ Len(t) = n
  BY ListOf
<1>2. /\ 1 \in 1..n /\ Other(1, k) = k /\ Other(k, k) = 1
      /\ \A i \in 2..n : i # k => Other(i, k) = i
  BY DEF Other
<1>3. t[1] = s[k] /\ t[k] = s[1]
  BY <1>2
<1>4. \A i \in 2..n : i # k => t[i] = s[i]
  <2>1. \A i \in 2..n : i \in 1..n
    OBVIOUS
  <2> QED BY <1>2, <2>1
<1>5. Swapped(t, s, k)
  BY <1>1, <1>3, <1>4 DEF Swapped
<1> QED BY <1>1, <1>5, TotalSwapped

\* No score changes when the first replay changes places with another.
Exchanged(s, k) == [s EXCEPT ![1] = s[k], ![k] = s[1]]

LEMMA ScoresReordered ==
  ASSUME NEW s, NEW n, NEW gold, Scorable(s, n, gold), NEW k \in 1..n
  PROVE  Compute(Exchanged(s, k), gold) = Compute(s, gold)
<1> DEFINE t == Exchanged(s, k)
<1>1. n \in Nat /\ n > 0 /\ Len(s) = n /\ DOMAIN s = 1..n /\ 1 \in 1..n
  BY DEF Scorable
<1>2. DOMAIN t = 1..n /\ \A i \in 1..n : t[i] = s[Other(i, k)]
  BY <1>1 DEF Other, Exchanged
<1>3. Len(t) = n
  BY <1>1 DEF Exchanged
<1>4. \A i \in 1..n : Other(i, k) \in 1..n
  BY <1>1 DEF Other
<1> HIDE DEF t
<1>5. Scorable(t, n, gold)
  <2>1. \A i \in 1..n : /\ t[i].trajectory \in Seq(TrajectoryEntry)
                        /\ t[i].tokens \in Nat
    BY <1>2, <1>4 DEF Scorable
  <2>2. gold \in Seq(Tools)
    BY DEF Scorable
  <2> QED BY <1>1, <1>2, <1>3, <2>1, <2>2 DEF Scorable
<1>6. ASSUME NEW a \in [1..n -> 0..One], NEW b \in [1..n -> 0..One],
             \A i \in 1..n : b[i] = a[Other(i, k)]
      PROVE  Reported(b) = Reported(a)
  <2>1. \A x \in 0..One : x \in Int
    BY EvalMetricsAssumption
  <2>2. a \in [1..n -> Int] /\ b \in [1..n -> Int]
    BY <1>6, <2>1
  <2>3. Total(b) = Total(a)
    BY <1>1, <1>6, <2>2, TotalReordered
  <2>4. Len(a) = n /\ Len(b) = n
    BY <1>1, <2>2, ListOf
  <2> QED BY <2>3, <2>4 DEF Reported
<1>7. \A i \in 1..n :
        /\ Accuracies(t, gold)[i] = Accuracies(s, gold)[Other(i, k)]
        /\ ToolsUsed(t)[i] = ToolsUsed(s)[Other(i, k)]
  BY <1>1, <1>2, <1>4 DEF Accuracies, ToolsUsed
<1>8. /\ Reported(Precisions(t, gold)) = Reported(Precisions(s, gold))
      /\ Reported(Recalls(t, gold)) = Reported(Recalls(s, gold))
      /\ Reported(F1s(t, gold)) = Reported(F1s(s, gold))
  <2>1. \A i \in 1..n : /\ Precisions(t, gold)[i] = Precisions(s, gold)[Other(i, k)]
                        /\ Recalls(t, gold)[i] = Recalls(s, gold)[Other(i, k)]
                        /\ F1s(t, gold)[i] = F1s(s, gold)[Other(i, k)]
    BY <1>1, <1>2, <1>4, <1>7 DEF Precisions, Recalls, F1s
  <2>2. /\ Precisions(t, gold) \in [1..n -> 0..One] /\ Precisions(s, gold) \in [1..n -> 0..One]
        /\ Recalls(t, gold) \in [1..n -> 0..One] /\ Recalls(s, gold) \in [1..n -> 0..One]
        /\ F1s(t, gold) \in [1..n -> 0..One] /\ F1s(s, gold) \in [1..n -> 0..One]
    BY <1>5, PartsTyped
  <2> QED BY <1>6, <2>1, <2>2
<1>9. /\ Total(Verdicts(t)) = Total(Verdicts(s))
      /\ Total(Redundant(t, gold)) = Total(Redundant(s, gold))
      /\ Total(TripCounts(t)) = Total(TripCounts(s))
      /\ Total(Errors(t)) = Total(Errors(s))
      /\ Total(Tokens(t)) = Total(Tokens(s))
  <2>1. \A i \in 1..n : /\ Verdicts(t)[i] = Verdicts(s)[Other(i, k)]
                        /\ Redundant(t, gold)[i] = Redundant(s, gold)[Other(i, k)]
                        /\ TripCounts(t)[i] = TripCounts(s)[Other(i, k)]
                        /\ Errors(t)[i] = Errors(s)[Other(i, k)]
                        /\ Tokens(t)[i] = Tokens(s)[Other(i, k)]
    BY <1>1, <1>2, <1>4 DEF Verdicts, Redundant, TripCounts, Errors, Tokens
  <2>2. /\ Verdicts(t) \in [1..n -> {0, 1}] /\ Verdicts(s) \in [1..n -> {0, 1}]
        /\ Redundant(t, gold) \in [1..n -> Int] /\ Redundant(s, gold) \in [1..n -> Int]
        /\ TripCounts(t) \in [1..n -> Int] /\ TripCounts(s) \in [1..n -> Int]
        /\ Errors(t) \in [1..n -> Int] /\ Errors(s) \in [1..n -> Int]
        /\ Tokens(t) \in [1..n -> Int] /\ Tokens(s) \in [1..n -> Int]
    BY <1>5, PartsTyped
  <2>3. Verdicts(t) \in [1..n -> Int] /\ Verdicts(s) \in [1..n -> Int]
    <3>1. \A v \in [1..n -> {0, 1}] : v \in [1..n -> Int]
      OBVIOUS
    <3> QED BY <2>2, <3>1
  <2>4. ASSUME NEW a \in [1..n -> Int], NEW b \in [1..n -> Int],
               \A i \in 1..n : b[i] = a[Other(i, k)]
        PROVE  Total(b) = Total(a)
    BY <1>1, <2>4, TotalReordered
  <2> QED BY <2>1, <2>2, <2>3, <2>4
<1>10. TrajectoryConsistency(ToolsUsed(t)) = TrajectoryConsistency(ToolsUsed(s))
  <2>1. /\ \A i \in 1..n : ToSet(ToolsUsed(s)[i]) \in SUBSET Tools
        /\ Len(ToolsUsed(s)) = n /\ Len(ToolsUsed(t)) = n
    BY <1>5, PartsTyped
  <2> DEFINE us == ToolsUsed(s)
             ut == ToolsUsed(t)
  <2>2. \A i \in 1..n : ut[i] = us[Other(i, k)]
    BY <1>7
  <2> HIDE DEF us, ut
  <2>3. \A i \in 1..n : ToSet(us[i]) \in SUBSET Tools
    BY <2>1 DEF us
  <2>4. Len(us) = n /\ Len(ut) = n
    BY <2>1 DEF us, ut
  <2>5. Reordered(ut, us, n, k)
    BY <1>1, <2>2, <2>4 DEF Reordered
  <2>6. TrajectoryConsistency(ut) = TrajectoryConsistency(us)
    BY <2>3, <2>5, ConsistencySwapped
  <2> QED BY <2>6 DEF us, ut
<1>11. Compute(s, gold) = 
           [tool_precision    |-> Reported(Precisions(s, gold)),
            tool_recall       |-> Reported(Recalls(s, gold)),
            tool_f1           |-> Reported(F1s(s, gold)),
            consistency       |-> TrajectoryConsistency(ToolsUsed(s)),
            reasoning_correct |-> Majority(Total(Verdicts(s)), n),
            redundant_calls   |-> Total(Redundant(s, gold)),
            loop_count        |-> Total(TripCounts(s)),
            validation_errors |-> Total(Errors(s)),
            breaker_trips     |-> Total(TripCounts(s)),
            avg_tokens        |-> Total(Tokens(s)) \div n]
  BY <1>1, ComputeIs
<1>12. Compute(t, gold) = 
           [tool_precision    |-> Reported(Precisions(t, gold)),
            tool_recall       |-> Reported(Recalls(t, gold)),
            tool_f1           |-> Reported(F1s(t, gold)),
            consistency       |-> TrajectoryConsistency(ToolsUsed(t)),
            reasoning_correct |-> Majority(Total(Verdicts(t)), n),
            redundant_calls   |-> Total(Redundant(t, gold)),
            loop_count        |-> Total(TripCounts(t)),
            validation_errors |-> Total(Errors(t)),
            breaker_trips     |-> Total(TripCounts(t)),
            avg_tokens        |-> Total(Tokens(t)) \div n]
  BY <1>3, ComputeIs
<1>13. Compute(t, gold) = Compute(s, gold)
  BY <1>8, <1>9, <1>10, <1>11, <1>12
<1> QED BY <1>13 DEF t

\* What a command has scored, compute could score.
LEMMA ScoredRuns ==
  ASSUME TypeInv, ReportInv, NEW c \in Commands, NEW i \in DOMAIN results[c]
  PROVE  LET result == results[c][i]
         IN  /\ result = [scenario |-> result.scenario, runs |-> result.runs]
             /\ Scorable(result.runs, Len(result.runs), Gold[result.scenario])
<1> DEFINE R == [scenario : Scenarios, runs : Seq(Replays)]
           result == results[c][i]
           r == result.runs
           n == Len(r)
<1>1. results[c] \in Seq(R) /\ Runs[c] \in Int
  BY EvalAssumption DEF TypeInv, HarnessTypeOK
<1>2. i \in 1..Len(results[c]) /\ result \in R
  <2> HIDE DEF R
  <2> QED BY <1>1
<1>3. ScoredOn(c, result, Selected(c)[i])
  BY <1>2 DEF ReportInv, Own
<1> HIDE DEF result
<1>4. /\ result = [scenario |-> result.scenario, runs |-> result.runs]
      /\ result.scenario \in Scenarios /\ r \in Seq(Replays)
  BY <1>2
<1>5. n \in Nat /\ n > 0 /\ DOMAIN r = 1..n
  BY <1>1, <1>3, <1>4 DEF ScoredOn
<1>6. Gold[result.scenario] \in Seq(Tools)
  BY <1>4, EvalAssumption DEF Scenarios
<1>7. ASSUME NEW x \in Replays
      PROVE  x.trajectory \in Seq(TrajectoryEntry) /\ x.tokens \in Nat
  <2>1. PICK s \in Scenarios, o \in UNION {Outcomes[q] : q \in Scenarios} :
          x = [scenario |-> s, trajectory |-> o.trajectory, diagnosis |-> o.diagnosis,
               tokens |-> o.tokens]
    BY <1>7 DEF Replays
  <2>2. PICK q \in Scenarios : o \in Outcomes[q]
    OBVIOUS
  <2>3. o.trajectory \in Seq(TrajectoryEntry) /\ o.tokens \in Nat
    BY <2>2, EvalAssumption DEF Scenarios
  <2>4. x.trajectory = o.trajectory /\ x.tokens = o.tokens
    BY <2>1
  <2> QED BY <2>3, <2>4
<1>8. \A j \in 1..n : r[j] \in Replays
  BY <1>4
<1>9. Scorable(r, n, Gold[result.scenario])
  BY <1>5, <1>6, <1>7, <1>8 DEF Scorable
<1> QED BY <1>4, <1>9 DEF result

\* The order of the replays does not matter to any score, whatever they did and
\* however many there are.
THEOREM OrderIsIrrelevant == HarnessSafety => []ReplayOrderIrrelevant
<1>1. TypeInv /\ ReportInv => ReplayOrderIrrelevant
  <2> SUFFICES ASSUME TypeInv, ReportInv, NEW c \in Commands, NEW i \in DOMAIN results[c],
                      NEW j \in DOMAIN results[c][i].runs
               PROVE  LET result == results[c][i]
                          r == result.runs
                      IN  Metrics([result EXCEPT !.runs = [r EXCEPT ![1] = r[j], ![j] = r[1]]])
                            = Metrics(result)
    BY DEF ReplayOrderIrrelevant
  <2> DEFINE result == results[c][i]
             r == result.runs
             t == [r EXCEPT ![1] = r[j], ![j] = r[1]]
             gold == Gold[result.scenario]
             other == [result EXCEPT !.runs = t]
  <2>1. /\ result = [scenario |-> result.scenario, runs |-> result.runs]
        /\ Scorable(r, Len(r), gold)
    BY ScoredRuns
  <2>2. j \in 1..Len(r)
    BY <2>1 DEF Scorable
  <2>3. Compute(t, gold) = Compute(r, gold)
    <3>1. t = Exchanged(r, j)
      BY DEF Exchanged
    <3> HIDE DEF t, r, gold
    <3> QED BY <2>1, <2>2, <3>1, ScoresReordered
  <2>4. other.scenario = result.scenario /\ other.runs = t
    <3> HIDE DEF t, result
    <3> QED BY <2>1
  <2>5. Metrics(result) = Compute(r, gold) /\ Metrics(other) = Compute(t, gold)
    <3> HIDE DEF t, other
    <3> QED BY <2>4 DEF Metrics
  <2> QED BY <2>3, <2>5
<1> QED BY <1>1, TypeInitially, TypePreserved, ReportInitially, ReportPreserved, PTL
        DEF HarnessSafety

\* The scores measure what the code says they do: thousandths of a whole; consistency full
\* when all replays use the same tools, and only then while a lone difference is not
\* rounded away; the verdict that of the majority, or "right" if there is none.
THEOREM ScoresSound == HarnessSafety => []ScoresAreSound
<1>1. TypeInv /\ ReportInv => ScoresAreSound
  <2> SUFFICES ASSUME TypeInv, ReportInv, NEW c \in Commands, NEW i \in DOMAIN results[c]
               PROVE  LET m == Metrics(results[c][i])
                          replays == results[c][i].runs
                          tools == [j \in DOMAIN replays |-> ToSet(ToolsOf(replays[j].trajectory))]
                          same == \A j \in DOMAIN tools : tools[j] = tools[1]
                          n == Len(replays)
                          right == {j \in DOMAIN replays : replays[j].diagnosis = "right"}
                      IN  /\ {m.tool_precision, m.tool_recall, m.tool_f1, m.consistency} \subseteq 0..1000
                          /\ same => m.consistency = 1000
                          /\ m.consistency = 1000 /\ n * n * Cardinality(Tools) < 2000 => same
                          /\ m.reasoning_correct <=>
                               Cardinality(right) >= Cardinality(DOMAIN replays \ right)
    BY DEF ScoresAreSound
  <2> DEFINE result == results[c][i]
             r == result.runs
             n == Len(r)
             gold == Gold[result.scenario]
             m == Metrics(result)
             tools == [j \in DOMAIN r |-> ToSet(ToolsOf(r[j].trajectory))]
             right == {j \in DOMAIN r : r[j].diagnosis = "right"}
             P == Precisions(r, gold)
             R == Recalls(r, gold)
             F == F1s(r, gold)
             u == ToolsUsed(r)
             same == \A j \in DOMAIN tools : tools[j] = tools[1]
             few == n * n * Cardinality(Tools) < 2000
  <2>1. Scorable(r, n, gold)
    BY ScoredRuns
  <2>2. n \in Nat /\ n > 0 /\ DOMAIN r = 1..n /\ 1 \in 1..n
    BY <2>1 DEF Scorable
  <2>3. /\ m.tool_precision = Reported(P) /\ m.tool_recall = Reported(R) /\ m.tool_f1 = Reported(F)
        /\ m.consistency = TrajectoryConsistency(u)
        /\ m.reasoning_correct = Majority(Total(Verdicts(r)), n)
    <3>1. m = Compute(r, gold)
      BY DEF Metrics
    <3> HIDE DEF m, r, gold
    <3> QED BY <3>1, ComputeIs
  <2>4. tools = [j \in 1..n |-> ToSet(u[j])]
    <3> HIDE DEF r
    <3> QED BY <2>2 DEF ToolsUsed
  <2>5. right = {j \in DOMAIN r : r[j].diagnosis = "right"}
    OBVIOUS
  <2> HIDE DEF m, gold, r, n, right, tools
  <2>6. /\ P \in [1..n -> 0..One] /\ R \in [1..n -> 0..One] /\ F \in [1..n -> 0..One]
        /\ \A j \in 1..n : ToSet(u[j]) \in SUBSET Tools
        /\ Len(u) = n
    BY <2>1, PartsTyped
  <2> HIDE DEF P, R, F, u
  <2>7. Reported(P) \in 0..1000 /\ Reported(R) \in 0..1000 /\ Reported(F) \in 0..1000
    <3>1. Reported(P) \in 0..1000
      BY ONLY <2>2, <2>6, ReportedBounds
    <3>2. Reported(R) \in 0..1000
      BY ONLY <2>2, <2>6, ReportedBounds
    <3>3. Reported(F) \in 0..1000
      BY ONLY <2>2, <2>6, ReportedBounds
    <3> QED BY ONLY <3>1, <3>2, <3>3
  <2>8. same <=> \A j \in 1..n : ToSet(u[j]) = ToSet(u[1])
    BY <2>2, <2>4
  <2> HIDE DEF same
  <2>9. /\ TrajectoryConsistency(u) \in 0..1000
        /\ same => TrajectoryConsistency(u) = 1000
        /\ TrajectoryConsistency(u) = 1000 /\ few => same
    <3>1. /\ TrajectoryConsistency(u) \in 0..1000
          /\ Alike(u, n) => TrajectoryConsistency(u) = 1000
          /\ TrajectoryConsistency(u) = 1000 /\ Few(n) => Alike(u, n)
      <4>1. n \in Nat /\ n > 0 /\ ToolLists(u, n)
        BY <2>2, <2>6 DEF ToolLists
      <4> QED BY <4>1, ConsistencyBounds
    <3>2. (Alike(u, n) <=> same) /\ (Few(n) <=> few)
      BY <2>8 DEF Alike, Few
    <3> HIDE DEF few
    <3> QED BY <3>1, <3>2
  <2>10. Majority(Total(Verdicts(r)), n)
           <=> Cardinality(right) >= Cardinality(DOMAIN r \ right)
    BY <2>2, <2>5, VerdictCounts
  <2>11. /\ {m.tool_precision, m.tool_recall, m.tool_f1, m.consistency} \subseteq 0..1000
         /\ same => m.consistency = 1000
         /\ m.consistency = 1000 /\ few => same
         /\ m.reasoning_correct <=> Cardinality(right) >= Cardinality(DOMAIN r \ right)
    BY <2>3, <2>7, <2>9, <2>10
  <2> QED BY <2>11 DEF m, gold, r, n, right, tools, same
<1> QED BY <1>1, TypeInitially, TypePreserved, ReportInitially, ReportPreserved, PTL
        DEF HarnessSafety

\* F1 is the mean of each replay's harmonic mean of precision and recall, rounded once.
THEOREM F1Harmonic == HarnessSafety => []F1IsHarmonic
<1>1. TypeInv /\ ReportInv => F1IsHarmonic
  <2> SUFFICES ASSUME TypeInv, ReportInv, NEW c \in Commands, NEW i \in DOMAIN results[c]
               PROVE  LET f1 == Metrics(results[c][i]).tool_f1
                          replays == results[c][i].runs
                          gold == ToSet(Gold[results[c][i].scenario])
                          used == [j \in DOMAIN replays |-> ToSet(ToolsOf(replays[j].trajectory))]
                      IN  f1 = Reported([j \in DOMAIN replays |-> Dice(used[j], gold)])
    BY DEF F1IsHarmonic
  <2> DEFINE result == results[c][i]
             r == result.runs
             n == Len(r)
             list == Gold[result.scenario]
             f1 == Metrics(result).tool_f1
             used == [j \in DOMAIN r |-> ToSet(ToolsOf(r[j].trajectory))]
             D == [j \in DOMAIN r |-> Dice(used[j], ToSet(list))]
             F == F1s(r, list)
  <2>1. Scorable(r, n, list)
    BY ScoredRuns
  <2>2. DOMAIN r = 1..n
    BY <2>1 DEF Scorable
  <2>3. f1 = Reported(F)
    <3> DEFINE m == Compute(r, list)
    <3>1. Metrics(result) = m
      BY DEF Metrics
    <3> HIDE DEF r, list
    <3>2. m.tool_f1 = Reported(F)
      BY ComputeIs
    <3> QED BY <3>1, <3>2
  <2> HIDE DEF r, n, list, f1
  <2>4. F \in [1..n -> 0..One] /\ \A j \in 1..n : F[j] = Dice(ToSet(ToolsUsed(r)[j]), ToSet(list))
    BY <2>1, PartsTyped
  <2>5. \A j \in 1..n : used[j] = ToSet(ToolsUsed(r)[j])
    BY <2>2 DEF ToolsUsed
  <2>6. DOMAIN D = 1..n /\ \A j \in 1..n : D[j] = Dice(used[j], ToSet(list))
    BY <2>2
  <2>7. F = D
    <3>1. \A j \in 1..n : F[j] = D[j]
      BY <2>4, <2>5, <2>6
    <3>2. F = [j \in 1..n |-> F[j]] /\ D = [j \in 1..n |-> D[j]]
      <4> HIDE DEF F
      <4> QED BY <2>2, <2>4
    <3> HIDE DEF F, D
    <3> QED BY <3>1, <3>2
  <2> QED BY <2>3, <2>7 DEF D, used, r, list, f1
<1> QED BY <1>1, TypeInitially, TypePreserved, ReportInitially, ReportPreserved, PTL
        DEF HarnessSafety
=============================================================================
