--------------------------- MODULE CopilotProofs ---------------------------
(***************************************************************************)
(* Theorems about Copilot, for every value of its constants: the turn in   *)
(* the middle of the graph sees a log that does not move, and the whole    *)
(* implements IncidentGraph.                                               *)
(***************************************************************************)
EXTENDS Copilot, IncidentGraphProofs

\* While the loop or its server moves.
TurnStep == Turn!ProcessStep \/ Turn!ServerStep \/ Turn!Wait

\* A turn keeps its base step, is not idle before it returns, and moves on only
\* while it is under way.
LEMMA TurnMoves ==
  ASSUME TurnStep
  PROVE  /\ base_step' = base_step
         /\ stage \notin {"idle", "returned", "raised"}
         /\ stage' # "idle"
BY DEF TurnStep, Turn!ProcessStep, Turn!ServerStep, Turn!Wait, Turn!ModelReturns,
       Turn!ModelAnswers, Turn!ModelCalls, Turn!ModelFails, Turn!RejectCall, Turn!CallTool,
       Turn!ToolTimesOut, Turn!EndRound, Turn!Summarized, Turn!SummarizerFails,
       Turn!Connected, Turn!ToolsListed, Turn!ToolReplies, Turn!ToolErrors,
       Turn!ServerFails, Turn!Raise

-----------------------------------------------------------------------------
\* The log under a turn.

\* A turn is under way only in a specialist's node, and is over once it raised.
FreshInv ==
  /\ stage \notin {"idle", "raised"} => pc \in Specialists
  /\ stage = "raised" => pc \in Specialists \cup {"raised"}
  /\ BaseStepStaysFresh

\* No step appends to the log of a turn under way.
LEMMA FreshPreserved == FreshInv /\ [CopilotNext]_allVars => FreshInv'
<1> SUFFICES ASSUME FreshInv, [CopilotNext]_allVars PROVE FreshInv'
  OBVIOUS
<1> USE DEF FreshInv, BaseStepStaysFresh
<1>1. CASE OtherNode
  <2>1. pc \notin Specialists
    BY <1>1 DEF OtherNode, BreakerTrips, AskForRoute, Route, Synthesize, Persist, Specialists
  <2>2. stage = "idle" \/ (stage = "raised" /\ pc = "raised")
    BY <2>1
  <2>3. pc # "raised"
    BY <1>1 DEF OtherNode, BreakerTrips, AskForRoute, Route, Synthesize, Persist, NodeRaises
  <2>4. stage' = "idle"
    BY <1>1, <2>2, <2>3 DEF OtherNode, turnVars
  <2> QED BY <2>4
<1>2. CASE TurnBegins
  <2>1. base_step' = Len(trajectory) /\ stage' # "raised"
    BY <1>2 DEF TurnBegins, Turn!Begin
  <2>2. pc \in Specialists /\ pc' = pc /\ trajectory' = trajectory
    BY <1>2 DEF TurnBegins, vars
  <2> QED BY <2>1, <2>2
<1>3. CASE TurnRuns
  <2>1. base_step' = base_step /\ stage \notin {"idle", "raised"}
    BY <1>3, TurnMoves DEF TurnRuns, TurnStep
  <2>2. pc' = pc /\ trajectory' = trajectory
    BY <1>3 DEF TurnRuns, vars
  <2> QED BY <2>1, <2>2
<1>4. CASE TurnReturns
  <2>1. stage' = "idle"
    BY <1>4 DEF TurnReturns, TurnForgotten
  <2> QED BY <2>1
<1>5. CASE TurnRaises
  <2>1. pc' = "raised" /\ stage' = "raised"
    BY <1>5 DEF TurnRaises, NodeRaises, turnVars
  <2>2. "raised" \notin Specialists
    BY DEF Specialists
  <2> QED BY <2>1, <2>2
<1>6. CASE TimePasses
  <2>1. pc' = pc /\ trajectory' = trajectory
    BY <1>6 DEF TimePasses, Tick, vars
  <2>2. base_step' = base_step /\ stage' = stage
    BY <1>6 DEF TimePasses, Turn!Wait, turnVars
  <2> QED BY <2>1, <2>2
<1>7. CASE UNCHANGED allVars
  BY <1>7 DEF allVars, vars, turnVars
<1> QED BY <1>1, <1>2, <1>3, <1>4, <1>5, <1>6, <1>7 DEF CopilotNext

\* The length of the log that a specialist reads before its first await is still
\* right when it returns: nobody appends in between.
THEOREM BaseStepIsFresh == CopilotSpec => []BaseStepStaysFresh
<1>1. CopilotInit => FreshInv
  BY DEF CopilotInit, Turn!Init, FreshInv, BaseStepStaysFresh
<1>2. FreshInv => BaseStepStaysFresh
  BY DEF FreshInv
<1> QED BY <1>1, <1>2, FreshPreserved, PTL DEF CopilotSpec

-----------------------------------------------------------------------------
\* The refinement.

\* The graph that the whole refines: a turn in it may log as many entries and report as
\* many tokens as MaxRounds responses of MaxCalls calls, and the last one, allow.
TurnsFit ==
  /\ \A acts \in Seq(LoggedCall) :
       Len(acts) <= MaxCalls * MaxRounds => acts \in TurnActions
  /\ \A n \in Nat :
       n = 0 \/ (\E usage \in UsageOf : n <= (MaxRounds + 1) * usage) => n \in TurnUsage

TurnEntry == [step : Nat, action : TurnActionNames, detail : Tools]
TurnCall == [id : Nat, kind : CallKinds, tool : Tools]

\* A turn logs consecutive steps from its base step, and counts tokens.
TurnInv ==
  /\ base_step \in Nat
  /\ reported \in Nat
  /\ entries \in Seq(TurnEntry)
  /\ \A k \in 1..Len(entries) : entries[k].step = base_step + k - 1
  /\ stage = "idle" => entries = <<>>

\* What "n" completions may have cost.
CostsAtMost(n) == reported = 0 \/ \E usage \in UsageOf : reported <= n * usage

\* A turn logs each call of a response once and pays each response once.  A call in
\* flight is in the log and still pending.
RoomInv ==
  /\ pending \in Seq(TurnCall)
  /\ rounds \in 0..MaxRounds
  /\ stage = "idle" => pending = <<>> /\ reported = 0
  /\ stage = "awaiting" => pending # <<>>
  /\ stage # "raised" =>
       /\ Len(entries) + Len(pending) <=
            (MaxCalls * rounds) + (IF stage = "awaiting" THEN 1 ELSE 0)
       /\ CostsAtMost(IF stage = "returned" THEN rounds + 1 ELSE rounds)

\* What the refinement rests on.
CopilotInv == TypeOK /\ FreshInv /\ TurnInv /\ RoomInv

\* The one way in which a turn logs.
LEMMA TurnLogs ==
  ASSUME TurnInv, RoomInv, pending # <<>>,
         NEW action \in TurnActionNames, base_step' = base_step, Turn!Log(action)
  PROVE  /\ entries' \in Seq(TurnEntry)
         /\ \A k \in 1..Len(entries') : entries'[k].step = base_step' + k - 1
<1> DEFINE e == [step |-> Turn!NextStep, action |-> action, detail |-> Head(pending).tool]
<1>0. Head(pending) \in TurnCall
  <2>1. pending \in Seq(TurnCall)
    BY DEF RoomInv
  <2> HIDE DEF TurnCall
  <2> QED BY <2>1
<1>1. e \in TurnEntry /\ e.step = base_step + Len(entries)
  BY <1>0 DEF TurnInv, TurnEntry, TurnCall, Turn!NextStep
<1>2. entries \in Seq(TurnEntry) /\ entries' = Append(entries, e)
  BY DEF TurnInv, Turn!Log
<1> HIDE DEF e, TurnEntry
<1>3. /\ entries' \in Seq(TurnEntry)
      /\ Len(entries') = Len(entries) + 1
      /\ \A k \in 1..Len(entries') :
            entries'[k] = IF k = Len(entries) + 1 THEN e ELSE entries[k]
  BY <1>1, <1>2
<1>4. Len(entries) \in Nat /\ base_step \in Nat
  BY <1>2 DEF TurnInv
<1>5. \A k \in 1..Len(entries') : entries'[k].step = base_step + k - 1
  <2> TAKE k \in 1..Len(entries')
  <2>1. CASE k = Len(entries) + 1
    <3>1. entries'[k].step = base_step + Len(entries)
      BY <1>1, <1>3, <2>1
    <3> QED BY ONLY <1>4, <2>1, <3>1
  <2>2. CASE k \in 1..Len(entries)
    <3>1. entries[k].step = base_step + k - 1
      BY <2>2 DEF TurnInv
    <3>2. entries'[k] = entries[k]
      <4>1. entries'[k] = IF k = Len(entries) + 1 THEN e ELSE entries[k]
        BY <1>3
      <4>2. k # Len(entries) + 1
        BY ONLY <1>4, <2>2
      <4> QED BY ONLY <4>1, <4>2
    <3> QED BY ONLY <3>1, <3>2
  <2>3. k = Len(entries) + 1 \/ k \in 1..Len(entries)
    BY <1>3, <1>4
  <2> QED BY <2>1, <2>2, <2>3
<1> QED BY <1>3, <1>5

\* Inside a turn.
LEMMA TurnStepTyped ==
  ASSUME TurnInv, RoomInv, TurnStep
  PROVE  TurnInv'
<1>1. /\ base_step' = base_step /\ stage' # "idle"
      /\ base_step \in Nat /\ reported \in Nat
  BY TurnMoves DEF TurnInv
<1>2. CASE Turn!RejectCall
  <2>1. Turn!Log("validation_error") /\ pending # <<>> /\ reported' = reported
    BY <1>2 DEF Turn!RejectCall
  <2>2. "validation_error" \in TurnActionNames
    BY DEF TurnActionNames
  <2> QED BY <1>1, <2>1, <2>2, TurnLogs DEF TurnInv
<1>3. CASE Turn!CallTool
  <2>1. Turn!Log("tool_call") /\ pending # <<>> /\ reported' = reported
    BY <1>3 DEF Turn!CallTool
  <2>2. "tool_call" \in TurnActionNames
    BY DEF TurnActionNames
  <2> QED BY <1>1, <2>1, <2>2, TurnLogs DEF TurnInv
<1>4. CASE Turn!ModelReturns
  <2>1. entries' = entries /\ reported' \in Nat
    <3>1. UsageOf \subseteq Nat
      BY TurnAssumption
    <3>2. ASSUME NEW usage \in UsageOf, NEW text, Turn!ModelAnswers(usage, text)
          PROVE  entries' = entries /\ reported' = reported + usage
      BY <3>2 DEF Turn!ModelAnswers
    <3>3. ASSUME NEW usage \in UsageOf, NEW text, NEW requests, Turn!ModelCalls(usage, text, requests)
          PROVE  entries' = entries /\ reported' = reported + usage
      BY <3>3 DEF Turn!ModelCalls
    <3>4. CASE Turn!ModelFails
      BY <1>1, <3>4 DEF Turn!ModelFails
    <3>5. (\E usage \in UsageOf : entries' = entries /\ reported' = reported + usage)
            \/ Turn!ModelFails
      BY <1>4, <3>2, <3>3 DEF Turn!ModelReturns
    <3> QED BY <1>1, <3>1, <3>4, <3>5
  <2> QED BY <1>1, <2>1 DEF TurnInv
<1>5. CASE entries' = entries /\ reported' = reported
  BY <1>1, <1>5 DEF TurnInv
<1>6. CASE \/ Turn!ToolTimesOut \/ Turn!EndRound \/ Turn!SummarizerFails
           \/ (\E usage \in SummaryUsage : Turn!Summarized(usage))
           \/ Turn!ServerStep \/ Turn!Wait
  BY <1>5, <1>6 DEF Turn!ToolTimesOut, Turn!EndRound, Turn!SummarizerFails, Turn!Summarized,
     Turn!ServerStep, Turn!Connected, Turn!ToolsListed, Turn!ToolReplies, Turn!ToolErrors,
     Turn!ServerFails, Turn!Wait
<1> QED BY <1>2, <1>3, <1>4, <1>6 DEF TurnStep, Turn!ProcessStep

\* Beginning and forgetting a turn included.
LEMMA TurnTyped == CopilotInv /\ [CopilotNext]_allVars => TurnInv'
<1> SUFFICES ASSUME CopilotInv, [CopilotNext]_allVars PROVE TurnInv'
  OBVIOUS
<1>1. TurnInv /\ RoomInv
  BY DEF CopilotInv
<1>2. CASE UNCHANGED turnVars
  BY <1>1, <1>2 DEF TurnInv, turnVars
<1>3. CASE TurnBegins
  <2>1. Len(trajectory) \in Nat
    <3>1. trajectory \in Seq(TrajectoryEntry)
      BY DEF CopilotInv, TypeOK
    <3> QED BY <3>1, LenProperties
  <2>2. /\ base_step' = Len(trajectory) /\ entries = <<>> /\ entries' = entries
        /\ reported' = reported /\ stage' # "idle"
    BY <1>1, <1>3 DEF TurnBegins, Turn!Begin, TurnInv
  <2> QED BY <1>1, <2>1, <2>2 DEF TurnInv
<1>4. CASE TurnReturns
  <2>1. base_step' = 0 /\ entries' = <<>> /\ reported' = 0
    BY <1>4 DEF TurnReturns, TurnForgotten
  <2> QED BY <2>1 DEF TurnInv
<1>5. CASE TurnStep
  BY <1>1, <1>5, TurnStepTyped
<1> QED BY <1>2, <1>3, <1>4, <1>5
        DEF CopilotNext, OtherNode, TurnRuns, TurnRaises, TimePasses, TurnStep, allVars

\* One more completion.
LEMMA OneMoreCost ==
  ASSUME reported \in Nat, NEW n \in Nat, CostsAtMost(n), NEW usage \in UsageOf
  PROVE  \E w \in UsageOf : reported + usage <= (n + 1) * w
<1>1. UsageOf \subseteq Nat
  BY TurnAssumption
<1>2. CASE reported = 0
  <2>1. usage <= (n + 1) * usage
    BY <1>1
  <2> QED BY <1>1, <1>2, <2>1
<1>3. ASSUME NEW v \in UsageOf, reported <= n * v
      PROVE  \E w \in UsageOf : reported + usage <= (n + 1) * w
  <2>1. PICK w \in UsageOf : usage <= w /\ v <= w
    BY <1>1
  <2>2. n * v <= n * w
    BY <1>1, <2>1
  <2>3. (n + 1) * w = n * w + w /\ n * w \in Nat /\ n * v \in Nat
    BY <1>1
  <2>4. reported + usage <= (n + 1) * w
    BY <1>1, <1>3, <2>1, <2>2, <2>3
  <2> QED BY <2>4
<1> QED BY <1>2, <1>3 DEF CostsAtMost

\* A response makes room for its own calls.
LEMMA RoomForCalls ==
  ASSUME TurnInv, RoomInv, NEW usage \in UsageOf, NEW text,
         NEW requests \in Turn!CallBatches, Turn!ModelCalls(usage, text, requests)
  PROVE  RoomInv'
<1> DEFINE calls == Turn!CallsFrom(Len(entries) + 1, requests)
<1>1. /\ stage = "model" /\ stage' = "calls" /\ entries' = entries /\ pending' = calls
      /\ rounds < MaxRounds /\ rounds' = rounds + 1 /\ reported' = reported + usage
  BY DEF Turn!ModelCalls
<1>2. PICK m \in 0..MaxCalls : requests \in [1..m -> Turn!Requests]
  BY TurnAssumption DEF Turn!CallBatches, Turn!SeqOf
<1>3. /\ Len(entries) \in Nat /\ Len(pending) \in Nat /\ reported \in Nat
      /\ rounds \in Nat /\ MaxCalls \in Nat /\ MaxRounds \in Nat
  BY TurnAssumption DEF TurnInv, RoomInv
<1>4. calls \in Seq(TurnCall) /\ Len(calls) = m
  <2>1. calls \in [1..m -> TurnCall]
    <3>1. \A i \in 1..m : Len(entries) + 1 + i - 1 \in Nat
      BY <1>3
    <3>2. \A i \in 1..m : requests[i].kind \in CallKinds /\ requests[i].tool \in Tools
      BY <1>2 DEF Turn!Requests
    <3> QED BY <1>2, <3>1, <3>2 DEF Turn!CallsFrom, TurnCall
  <2>2. m \in Nat
    BY <1>3
  <2> HIDE DEF calls, TurnCall
  <2> QED BY <2>1, <2>2
<1> HIDE DEF calls
<1>5. MaxCalls * (rounds + 1) = (MaxCalls * rounds) + MaxCalls
      /\ MaxCalls * rounds \in Nat
  BY <1>3
<1>6. Len(entries) + Len(pending) <= MaxCalls * rounds /\ CostsAtMost(rounds)
  BY <1>1, <1>5 DEF RoomInv
<1>7. Len(entries') + Len(pending') <= MaxCalls * rounds'
  BY <1>1, <1>2, <1>3, <1>4, <1>5, <1>6
<1>8. CostsAtMost(rounds)'
  BY <1>1, <1>3, <1>6, OneMoreCost DEF CostsAtMost
<1> QED BY <1>1, <1>3, <1>4, <1>7, <1>8 DEF RoomInv

\* Inside a turn.
LEMMA TurnStepHasRoom ==
  ASSUME TurnInv, RoomInv, TurnStep
  PROVE  RoomInv'
<1> DEFINE S == TurnCall
<1>1. /\ Len(entries) \in Nat /\ Len(pending) \in Nat /\ reported \in Nat
      /\ rounds \in Nat /\ MaxCalls * rounds \in Nat /\ pending \in Seq(S)
  BY TurnAssumption DEF TurnInv, RoomInv
<1>2. stage \notin {"idle", "returned", "raised"} /\ stage' # "idle"
  BY TurnMoves
<1>3. /\ Len(entries) + Len(pending) <=
           (MaxCalls * rounds) + (IF stage = "awaiting" THEN 1 ELSE 0)
      /\ CostsAtMost(rounds)
  BY <1>2 DEF RoomInv
<1>4. ASSUME UNCHANGED <<pending, entries, reported, rounds>>,
             stage' = "raised"
               \/ (stage' \notin {"returned"} /\ (stage' = "awaiting" <=> stage = "awaiting"))
      PROVE  RoomInv'
  <2>1. CostsAtMost(rounds)'
    BY <1>3, <1>4 DEF CostsAtMost
  <2> QED BY <1>2, <1>3, <1>4, <2>1 DEF RoomInv
<1>5. CASE Turn!RejectCall
  <2>1. /\ stage = "calls" /\ stage' = "calls" /\ pending # <<>> /\ pending' = Tail(pending)
        /\ \E e : entries' = Append(entries, e)
        /\ reported' = reported /\ rounds' = rounds
    BY <1>5 DEF Turn!RejectCall, Turn!Log
  <2>2. Len(entries') = Len(entries) + 1
    BY <2>1 DEF TurnInv
  <2>3. pending' \in Seq(S) /\ Len(pending') = Len(pending) - 1
    <3> HIDE DEF S
    <3> QED BY <1>1, <2>1
  <2>4. CostsAtMost(rounds)'
    BY <1>3, <2>1 DEF CostsAtMost
  <2> QED BY <1>1, <1>3, <2>1, <2>2, <2>3, <2>4 DEF RoomInv
<1>6. CASE Turn!CallTool
  <2>1. /\ stage = "calls" /\ stage' = "awaiting" /\ pending # <<>> /\ pending' = pending
        /\ \E e : entries' = Append(entries, e)
        /\ reported' = reported /\ rounds' = rounds
    BY <1>6 DEF Turn!CallTool, Turn!Log
  <2>2. Len(entries') = Len(entries) + 1
    BY <2>1 DEF TurnInv
  <2>3. CostsAtMost(rounds)'
    BY <1>3, <2>1 DEF CostsAtMost
  <2> QED BY <1>1, <1>3, <2>1, <2>2, <2>3 DEF RoomInv
<1>7. CASE Turn!ToolReplies
  <2>1. /\ stage = "awaiting" /\ stage' = "calls" /\ pending # <<>> /\ pending' = Tail(pending)
        /\ entries' = entries /\ reported' = reported /\ rounds' = rounds
    BY <1>7 DEF Turn!ToolReplies, RoomInv
  <2>2. pending' \in Seq(S) /\ Len(pending') = Len(pending) - 1
    <3> HIDE DEF S
    <3> QED BY <1>1, <2>1
  <2>3. CostsAtMost(rounds)'
    BY <1>3, <2>1 DEF CostsAtMost
  <2> QED BY <1>1, <1>3, <2>1, <2>2, <2>3 DEF RoomInv
<1>8. ASSUME NEW usage \in UsageOf, NEW text, Turn!ModelAnswers(usage, text)
      PROVE  RoomInv'
  <2>1. /\ stage = "model" /\ stage' = "returned" /\ reported' = reported + usage
        /\ entries' = entries /\ pending' = pending /\ rounds' = rounds
    BY <1>8 DEF Turn!ModelAnswers
  <2>2. CostsAtMost(rounds + 1)'
    BY <1>1, <1>3, <2>1, OneMoreCost DEF CostsAtMost
  <2> QED BY <1>1, <1>3, <2>1, <2>2 DEF RoomInv
<1>9. ASSUME NEW usage \in UsageOf, NEW text, NEW requests \in Turn!CallBatches,
             Turn!ModelCalls(usage, text, requests)
      PROVE  RoomInv'
  BY <1>9, RoomForCalls
<1>10. CASE \/ Turn!ModelFails \/ Turn!ToolTimesOut \/ Turn!SummarizerFails
            \/ Turn!ToolErrors \/ Turn!ServerFails
  <2>1. UNCHANGED <<pending, entries, reported, rounds>> /\ stage' = "raised"
    BY <1>10 DEF Turn!ModelFails, Turn!ToolTimesOut, Turn!SummarizerFails, Turn!ToolErrors,
                 Turn!ServerFails, Turn!Raise
  <2> QED BY <1>4, <2>1
<1>11. CASE \/ Turn!EndRound \/ (\E usage \in SummaryUsage : Turn!Summarized(usage))
            \/ Turn!Connected \/ Turn!ToolsListed \/ Turn!Wait
  <2>1. /\ UNCHANGED <<pending, entries, reported, rounds>> /\ stage' # "returned"
        /\ stage' = "awaiting" <=> stage = "awaiting"
    BY <1>2, <1>11 DEF Turn!EndRound, Turn!Summarized, Turn!Connected, Turn!ToolsListed, Turn!Wait
  <2> QED BY <1>4, <2>1
<1> QED BY <1>5, <1>6, <1>7, <1>8, <1>9, <1>10, <1>11
        DEF TurnStep, Turn!ProcessStep, Turn!ServerStep, Turn!ModelReturns

\* Between turns there is nothing to make room for.
LEMMA RoomPreserved == CopilotInv /\ [CopilotNext]_allVars => RoomInv'
<1> SUFFICES ASSUME CopilotInv, [CopilotNext]_allVars PROVE RoomInv'
  OBVIOUS
<1>1. TurnInv /\ RoomInv
  BY DEF CopilotInv
<1>2. CASE UNCHANGED turnVars
  <2>1. CostsAtMost(rounds) => CostsAtMost(rounds)'
    BY <1>2 DEF CostsAtMost, turnVars
  <2>2. CostsAtMost(rounds + 1) => CostsAtMost(rounds + 1)'
    BY <1>2 DEF CostsAtMost, turnVars
  <2> QED BY <1>1, <1>2, <2>1, <2>2 DEF RoomInv, turnVars
<1>3. CASE TurnBegins
  <2>1. /\ stage = "idle" /\ stage' \in {"listing", "connecting"}
        /\ UNCHANGED <<pending, entries, reported, rounds>>
    BY <1>3 DEF TurnBegins, Turn!Begin
  <2>2. CostsAtMost(rounds)'
    BY <1>1, <2>1 DEF CostsAtMost, RoomInv
  <2> QED BY <1>1, <2>1, <2>2 DEF RoomInv
<1>4. CASE TurnReturns
  <2>1. /\ stage' = "idle" /\ pending' = <<>> /\ entries' = <<>>
        /\ reported' = 0 /\ rounds' = 0
    BY <1>4 DEF TurnReturns, TurnForgotten
  <2>2. CostsAtMost(rounds)' /\ MaxCalls * 0 = 0 /\ 0 \in 0..MaxRounds
    BY <2>1, TurnAssumption DEF CostsAtMost
  <2> QED BY <2>1, <2>2 DEF RoomInv
<1>5. CASE TurnStep
  BY <1>1, <1>5, TurnStepHasRoom
<1> QED BY <1>2, <1>3, <1>4, <1>5
        DEF CopilotNext, OtherNode, TurnRuns, TurnRaises, TimePasses, TurnStep, allVars

\* The turn that returns is a specialist turn of the graph.
LEMMA TurnIsOneStep ==
  ASSUME TurnsFit, CopilotInv, TurnReturns
  PROVE  Next
<1> DEFINE act(i) == [action |-> entries[i].action, detail |-> entries[i].detail]
           acts == [i \in 1..Len(entries) |-> act(i)]
<1>1. /\ entries \in Seq(TurnEntry)
      /\ Len(entries) \in Nat /\ DOMAIN entries = 1..Len(entries)
      /\ \A i \in 1..Len(entries) : entries[i] \in TurnEntry
  <2>1. entries \in Seq(TurnEntry)
    BY DEF CopilotInv, TurnInv
  <2> QED BY <2>1, LenProperties, ElementOfSeq
<1>2. acts \in Seq(LoggedCall) /\ Len(acts) = Len(entries)
  <2>1. \A i \in 1..Len(entries) : act(i) \in LoggedCall
    BY <1>1 DEF TurnEntry, LoggedCall
  <2> HIDE DEF act
  <2>2. acts \in [1..Len(entries) -> LoggedCall]
    BY <2>1
  <2> HIDE DEF acts
  <2> QED BY <1>1, <2>2
<1>3. /\ pc \in Specialists /\ base_step = Len(trajectory)
      /\ \A k \in 1..Len(entries) : entries[k].step = base_step + k - 1
      /\ reported \in Nat
  BY DEF CopilotInv, FreshInv, BaseStepStaysFresh, TurnInv, TurnReturns
<1>4. [i \in DOMAIN entries |->
         Entry(entries[i].step, pc, entries[i].action, entries[i].detail)]
        = CallEntries(Len(trajectory), pc, acts)
  <2>1. \A i \in 1..Len(entries) :
          Entry(entries[i].step, pc, entries[i].action, entries[i].detail)
            = Entry(Len(trajectory) + i - 1, pc, acts[i].action, acts[i].detail)
    BY <1>3
  <2> HIDE DEF acts
  <2> QED BY <1>1, <1>2, <2>1 DEF CallEntries
<1> HIDE DEF acts
<1>5. SpecialistReturns(acts, reported, content = TRUE)
  BY <1>3, <1>4 DEF TurnReturns, SpecialistReturns
<1>6. /\ rounds \in 0..MaxRounds /\ MaxRounds \in Nat /\ MaxCalls \in Nat
      /\ Len(entries) + Len(pending) <= MaxCalls * rounds /\ Len(pending) \in Nat
      /\ CostsAtMost(rounds + 1)
  BY TurnAssumption DEF CopilotInv, RoomInv, TurnReturns
<1>7. acts \in TurnActions
  <2>1. MaxCalls * rounds <= MaxCalls * MaxRounds
    BY <1>6
  <2>2. MaxCalls * rounds \in Nat /\ MaxCalls * MaxRounds \in Nat
    BY <1>6
  <2>3. Len(acts) <= MaxCalls * MaxRounds
    BY <1>1, <1>2, <1>6, <2>1, <2>2
  <2> QED BY <1>2, <2>3 DEF TurnsFit
<1>8. reported \in TurnUsage
  <2>1. ASSUME NEW usage \in UsageOf, reported <= (rounds + 1) * usage
        PROVE  reported <= (MaxRounds + 1) * usage
    <3>1. usage \in Nat
      BY TurnAssumption
    <3>2. (rounds + 1) * usage <= (MaxRounds + 1) * usage
      BY <1>6, <3>1
    <3>3. (rounds + 1) * usage \in Nat /\ (MaxRounds + 1) * usage \in Nat
      BY <1>6, <3>1
    <3> QED BY <1>3, <2>1, <3>2, <3>3
  <2> QED BY <1>3, <1>6, <2>1 DEF CostsAtMost, TurnsFit
<1> QED BY <1>5, <1>7, <1>8 DEF Next, Progress

\* Every step of the whole is one of the graph, or leaves the graph alone.
LEMMA CopilotStep == ASSUME TurnsFit, CopilotInv, [CopilotNext]_allVars PROVE [Next]_vars
<1>1. CASE OtherNode
  BY <1>1 DEF OtherNode, Next, Progress
<1>2. CASE TurnBegins \/ TurnRuns \/ UNCHANGED allVars
  BY <1>2 DEF TurnBegins, TurnRuns, allVars
<1>3. CASE TurnReturns
  BY <1>3, TurnIsOneStep
<1>4. CASE TurnRaises
  BY <1>4 DEF TurnRaises, Next, Progress
<1>5. CASE TimePasses
  BY <1>5 DEF TimePasses, Next
<1> QED BY <1>1, <1>2, <1>3, <1>4, <1>5 DEF CopilotNext

\* Every behaviour of the whole is one of the graph whose turns are single steps.
THEOREM CopilotImplementsGraph ==
  ASSUME TurnsFit
  PROVE  CopilotSpec => ImplementsGraph
<1>1. CopilotInit => Init /\ CopilotInv
  <2>1. CopilotInit => FreshInv /\ TurnInv
    BY DEF CopilotInit, Turn!Init, FreshInv, BaseStepStaysFresh, TurnInv
  <2>2. CopilotInit => RoomInv
    <3>1. MaxCalls * 0 = 0 /\ 0 \in 0..MaxRounds
      BY TurnAssumption
    <3> QED BY <3>1 DEF CopilotInit, Turn!Init, RoomInv, CostsAtMost
  <2> QED BY <2>1, <2>2, TypeInitially DEF CopilotInit, CopilotInv
<1>2. CopilotInv /\ [CopilotNext]_allVars => [Next]_vars
  BY CopilotStep
<1>3. CopilotInv /\ [CopilotNext]_allVars => CopilotInv'
  BY <1>2, FreshPreserved, TurnTyped, RoomPreserved, TypePreserved DEF CopilotInv
<1> QED BY <1>1, <1>2, <1>3, PTL DEF CopilotSpec, ImplementsGraph, Spec

\* So what holds of the graph, whatever its turns do, holds of the whole: how many
\* turns there are, past which limits, and how often a decision is repeated ...
THEOREM CopilotIsBounded ==
  ASSUME TurnsFit
  PROVE  CopilotSpec => [](/\ IterationCap /\ SuperstepBound /\ TripEndsRouting
                           /\ OneTurnPastBudget /\ NoFourthRepeat)
BY CopilotImplementsGraph, TurnsAreCapped, SuperstepsAreBounded, TripIsFinal,
   OvershootIsOneTurn, NoRouteRepeatsLong, PTL
   DEF ImplementsGraph

\* ... that the shared log and the prompts made from it are right although a turn
\* writes to them only at its end, and that the answer rests on turns that ran.
THEOREM CopilotIsHonest ==
  ASSUME TurnsFit
  PROVE  CopilotSpec => [](/\ StepsAreContiguous /\ ConsultedWereRouted
                           /\ FindingsFollowTurns /\ EndsWithSavedAnswer)
BY CopilotImplementsGraph, LogContiguous, PromptIsHonest, FindingsAreEarned, AnswerIsSaved,
   PTL
   DEF ImplementsGraph

\* ... and that the budget is exceeded by two completions and one turn at most, when
\* completions do not cost arbitrarily much.
THEOREM CopilotOvershootIsBounded ==
  ASSUME TurnsFit, HasMax(Usage), HasMax(TurnUsage)
  PROVE  CopilotSpec => []OvershootBounded
BY CopilotImplementsGraph, OvershootIsBounded, PTL DEF ImplementsGraph

\* ... and that whatever it does between two turns, or when one returns, brings the end
\* of the diagnosis nearer.
THEOREM CopilotAdvances ==
  ASSUME TurnsFit
  PROVE  CopilotSpec => EveryStepAdvances
BY CopilotImplementsGraph, DiagnosisAdvances, PTL DEF ImplementsGraph

\* The whole keeps the abstract promise of one diagnosis.
THEOREM CopilotImplementsLifecycle ==
  ASSUME TurnsFit
  PROVE  CopilotSpec => ImplementsLifecycle
BY CopilotImplementsGraph, GraphImplementsLifecycle, PTL DEF ImplementsGraph
=============================================================================
