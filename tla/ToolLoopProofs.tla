--------------------------- MODULE ToolLoopProofs ---------------------------
(***************************************************************************)
(* Theorems about ToolLoop, for any window, any model and any server: what *)
(* a turn logs, answers, counts and asks for, however often its            *)
(* conversation is pruned.                                                 *)
(***************************************************************************)
EXTENDS ToolLoop, SequenceTheorems, FiniteSetTheorems, TLAPS

\* The elements of two sequences joined.
LEMMA Joined ==
  ASSUME NEW S, NEW s \in Seq(S), NEW t \in Seq(S)
  PROVE  /\ s \o t \in Seq(S)
         /\ Len(s \o t) = Len(s) + Len(t)
         /\ \A i \in 1..Len(s) : (s \o t)[i] = s[i]
         /\ \A i \in 1..Len(t) : (s \o t)[Len(s) + i] = t[i]
<1>1. Len(s) \in Nat /\ Len(t) \in Nat
  OBVIOUS
<1> QED BY <1>1, ConcatProperties

\* What a sequence with one more element holds.
LEMMA Appended ==
  ASSUME NEW S, NEW s \in Seq(S), NEW e \in S
  PROVE  /\ Append(s, e) \in Seq(S)
         /\ Len(Append(s, e)) = Len(s) + 1
         /\ Append(s, e)[Len(s) + 1] = e
         /\ \A i \in 1..Len(s) : Append(s, e)[i] = s[i]
<1>1. Len(s) \in Nat
  OBVIOUS
<1> QED BY <1>1

\* What follows the first element of a sequence.
LEMMA Beheaded ==
  ASSUME NEW S, NEW s \in Seq(S), s # <<>>
  PROVE  /\ Tail(s) \in Seq(S)
         /\ Len(s) \in Nat /\ Len(s) >= 1
         /\ Len(Tail(s)) = Len(s) - 1
         /\ Head(s) = s[1] /\ s[1] \in S
         /\ \A i \in 1..Len(Tail(s)) : Tail(s)[i] = s[i + 1]
BY HeadTailProperties, EmptySeq, LenProperties

\* The empty sequence has no length.
LEMMA LongIsNotEmpty == ASSUME NEW s, Len(s) \in Nat, Len(s) >= 1 PROVE s # <<>>
<1>1. Len(<<>>) = 0
  BY EmptySeq
<1> QED BY <1>1

-----------------------------------------------------------------------------
\* Pruning.

\* A conversation of at least an incident and a round that prune finds long enough
\* keeps its first message and its tail around a new summary, and fits the window
\* with one message more; otherwise it fits the window.
LEMMA Pruned ==
  ASSUME NEW m \in Seq(Message), NEW max \in Nat, Len(m) >= 3
  PROVE  LET split == Split(m, max)
             size == EffectiveMax(max)
             p == Prune(m, max)
         IN  /\ size \in Nat /\ size >= 2 /\ split \in Int
             /\ split = Len(m) - size + 1
             /\ ~NeedsPruning(m, max) => Len(m) <= size
             /\ NeedsPruning(m, max) =>
                  /\ split >= 2
                  /\ p \in Seq(Message)
                  /\ Len(p) = size + 1
                  /\ p[1] = m[1] /\ p[2] = Summary
                  /\ \A i \in 3..(size + 1) : p[i] = m[split + i - 2]
<1> DEFINE split == Split(m, max)
           size == EffectiveMax(max)
           kept == SubSeq(m, 1, 1) \o SubSeq(m, split + 1, Len(m))
           evicted == SubSeq(m, 2, split)
<1>1. /\ Len(m) \in Nat /\ size \in Nat /\ size >= 2 /\ split \in Int
      /\ size >= max /\ (size = max \/ size = 2)
      /\ split = Len(m) - size + 1
  BY DEF EffectiveMax, MinEffectiveMax, Split
<1>2. Evict(m, max) = IF Len(m) <= max THEN [kept |-> m, evicted |-> <<>>]
                      ELSE [kept |-> kept, evicted |-> evicted]
  BY DEF Evict
<1>3. \A i \in 1..Len(m) : m[i] \in Message
  BY ElementOfSeq
<1>4. CASE Len(m) <= max
  <2>1. ~NeedsPruning(m, max)
    BY <1>2, <1>4 DEF NeedsPruning
  <2> QED BY <1>1, <1>4, <2>1
<1>5. CASE Len(m) > max
  <2>1. split >= 2
    BY <1>1, <1>5
  <2>2. /\ SubSeq(m, 1, 1) \in Seq(Message) /\ Len(SubSeq(m, 1, 1)) = 1
        /\ SubSeq(m, 1, 1)[1] = m[1]
    BY <1>1, <1>3, SubSeqProperties
  <2>3. /\ SubSeq(m, split + 1, Len(m)) \in Seq(Message)
        /\ Len(SubSeq(m, split + 1, Len(m))) = size - 1
        /\ \A i \in 1..(size - 1) : SubSeq(m, split + 1, Len(m))[i] = m[split + i]
    <3>1. \A i \in (split + 1)..Len(m) : m[i] \in Message
      BY <1>1, <1>3, <2>1
    <3> HIDE DEF split, size
    <3> QED BY <1>1, <2>1, <3>1, SubSeqProperties
  <2>4. Len(evicted) = split - 1 /\ evicted # <<>>
    <3>1. \A i \in 2..split : m[i] \in Message
      BY <1>1, <1>3, <2>1
    <3> HIDE DEF split
    <3>2. Len(SubSeq(m, 2, split)) = split - 1
      BY <1>1, <2>1, <3>1, SubSeqProperties
    <3>3. split - 1 \in Nat /\ split - 1 >= 1
      BY <1>1, <2>1
    <3>4. SubSeq(m, 2, split) # <<>>
      BY <3>2, <3>3, LongIsNotEmpty
    <3> QED BY <3>2, <3>4
  <2>5. /\ kept \in Seq(Message) /\ Len(kept) = size /\ kept[1] = m[1] /\ kept # <<>>
        /\ \A i \in 2..size : kept[i] = m[split + i - 1]
    <3> DEFINE first == SubSeq(m, 1, 1)
               rest == SubSeq(m, split + 1, Len(m))
    <3> HIDE DEF first, rest, split, size
    <3>1. /\ first \in Seq(Message) /\ Len(first) = 1 /\ first[1] = m[1]
          /\ rest \in Seq(Message) /\ Len(rest) = size - 1
          /\ \A i \in 1..(size - 1) : rest[i] = m[split + i]
      BY <2>2, <2>3 DEF first, rest
    <3>2. /\ first \o rest \in Seq(Message) /\ Len(first \o rest) = size
          /\ (first \o rest)[1] = m[1]
          /\ \A i \in 1..(size - 1) : (first \o rest)[1 + i] = m[split + i]
      <4> DEFINE both == first \o rest
      <4>0. first \in Seq(Message) /\ rest \in Seq(Message)
        BY <3>1
      <4>1. /\ both \in Seq(Message) /\ Len(both) = Len(first) + Len(rest)
            /\ \A i \in 1..Len(first) : both[i] = first[i]
            /\ \A i \in 1..Len(rest) : both[Len(first) + i] = rest[i]
        BY ONLY <4>0, Joined
      <4> HIDE DEF both
      <4>2. Len(both) = size /\ both[1] = first[1]
        BY <1>1, <3>1, <4>1
      <4>3. \A i \in 1..(size - 1) : both[1 + i] = rest[i]
        <5> TAKE i \in 1..(size - 1)
        <5>1. i \in 1..Len(rest) /\ Len(first) + i = 1 + i
          BY <3>1
        <5> QED BY <4>1, <5>1
      <4> QED BY <3>1, <4>1, <4>2, <4>3 DEF both
    <3>3. \A i \in 2..size : (first \o rest)[i] = m[split + i - 1]
      <4> TAKE i \in 2..size
      <4>1. i - 1 \in 1..(size - 1) /\ 1 + (i - 1) = i /\ split + (i - 1) = split + i - 1
        BY <1>1
      <4> QED BY <3>2, <4>1
    <3>4. first \o rest # <<>>
      BY <1>1, <3>2, LongIsNotEmpty
    <3> QED BY <3>2, <3>3, <3>4 DEF first, rest
  <2>6. /\ NeedsPruning(m, max)
        /\ Prune(m, max) = <<kept[1], Summary>> \o Tail(kept)
    <3>1. Evict(m, max) = [kept |-> kept, evicted |-> evicted]
      BY <1>1, <1>2, <1>5
    <3>2. evicted # <<>>
      BY <2>4
    <3> HIDE DEF kept, evicted
    <3>3. Evict(m, max).kept = kept /\ Evict(m, max).evicted = evicted
      BY <3>1
    <3> QED BY <3>2, <3>3 DEF NeedsPruning, Prune
  <2> HIDE DEF kept, evicted, split, size
  <2>7. /\ Tail(kept) \in Seq(Message) /\ Len(Tail(kept)) = size - 1
        /\ \A i \in 1..(size - 1) : Tail(kept)[i] = m[split + i]
    <3>1. /\ Tail(kept) \in Seq(Message) /\ Len(Tail(kept)) = size - 1
          /\ \A i \in 1..(size - 1) : Tail(kept)[i] = kept[i + 1]
      BY <2>5, Beheaded
    <3>2. \A i \in 1..(size - 1) : kept[i + 1] = m[split + i]
      <4> TAKE i \in 1..(size - 1)
      <4>1. i + 1 \in 2..size /\ split + (i + 1) - 1 = split + i
        BY <1>1
      <4> QED BY <2>5, <4>1
    <3> QED BY <3>1, <3>2
  <2>8. /\ <<kept[1], Summary>> \in Seq(Message)
        /\ Len(<<kept[1], Summary>>) = 2
        /\ <<kept[1], Summary>>[1] = kept[1] /\ <<kept[1], Summary>>[2] = Summary
    <3>1. Summary \in Message /\ m[1] \in Message
      BY <1>1, <1>3 DEF Summary, Message, MessageKinds
    <3> QED BY <2>5, <3>1
  <2> DEFINE front == <<kept[1], Summary>>
             back == Tail(kept)
             p == front \o back
  <2> HIDE DEF front, back
  <2>9. /\ p \in Seq(Message) /\ Len(p) = size + 1
        /\ p[1] = m[1] /\ p[2] = Summary
        /\ \A i \in 1..(size - 1) : p[2 + i] = m[split + i]
    BY <1>1, <2>5, <2>7, <2>8, Joined DEF front, back
  <2> HIDE DEF p
  <2>10. \A i \in 3..(size + 1) : p[i] = m[split + i - 2]
    <3> TAKE i \in 3..(size + 1)
    <3>1. i - 2 \in 1..(size - 1) /\ 2 + (i - 2) = i /\ split + (i - 2) = split + i - 2
      BY <1>1
    <3> QED BY <2>9, <3>1
  <2>11. p = Prune(m, max)
    BY <2>6 DEF p, front, back
  <2> QED BY <1>1, <2>1, <2>6, <2>9, <2>10, <2>11 DEF split, size
<1> QED BY <1>1, <1>4, <1>5

-----------------------------------------------------------------------------
\* Types.

\* The calls of a response, numbered after what the turn has logged, are a sequence
\* of calls, with one call at least.
LEMMA BatchTyped ==
  ASSUME NEW requests \in CallBatches, requests # <<>>, Len(entries) \in Nat
  PROVE  LET calls == CallsFrom(Len(entries) + 1, requests)
         IN  /\ calls \in Seq(Call)
             /\ Len(calls) \in Nat /\ Len(calls) >= 1
             /\ DOMAIN calls = 1..Len(calls)
             /\ \A i \in 1..Len(calls) : calls[i].id = Len(entries) + i
<1> DEFINE calls == CallsFrom(Len(entries) + 1, requests)
           call(i) == [id   |-> Len(entries) + 1 + i - 1, kind |-> requests[i].kind,
                       tool |-> requests[i].tool]
<1>0. MaxCalls \in Nat /\ CallKinds \subseteq AllCallKinds
  BY ToolLoopAssumption
<1>1. PICK n \in 0..MaxCalls : requests \in [1..n -> Requests]
  BY DEF CallBatches, SeqOf
<1>2. n \in Nat /\ n >= 1
  <2>1. n = 0 => requests = <<>>
    BY <1>1
  <2> QED BY <1>0, <1>1, <2>1
<1>3. calls = [i \in 1..n |-> call(i)]
  BY <1>1 DEF CallsFrom
<1>4. \A i \in 1..n : call(i) \in Call /\ call(i).id = Len(entries) + i
  <2> TAKE i \in 1..n
  <2>1. requests[i].kind \in AllCallKinds /\ requests[i].tool \in Tools
    BY <1>0, <1>1 DEF Requests
  <2>2. Len(entries) + 1 + i - 1 \in Nat /\ Len(entries) + 1 + i - 1 = Len(entries) + i
    BY <1>2
  <2> QED BY <2>1, <2>2 DEF Call
<1> HIDE DEF calls, call
<1>5. calls \in [1..n -> Call]
  BY <1>3, <1>4
<1>6. calls \in Seq(Call) /\ Len(calls) = n
  BY <1>2, <1>5
<1>7. \A i \in 1..n : calls[i].id = Len(entries) + i
  BY <1>3, <1>4
<1> QED BY <1>2, <1>5, <1>6, <1>7 DEF calls

\* How long the conversation is where the turn depends on it.
ShapeInv ==
  /\ stage = "model" => Len(messages) >= 1
  /\ stage \in {"calls", "awaiting"} =>
       Len(messages) >= 2 /\ Len(results) + Len(pending) >= 1
  /\ stage = "awaiting" => pending # <<>>
  /\ stage = "summarizing" => Len(messages) >= 3 /\ NeedsPruning(messages, MaxMessages)

TypeInv == TypeOK /\ ShapeInv

\* The parts of the type invariant that a step on the calls relies on.
LEMMA Typed ==
  ASSUME TypeOK
  PROVE  /\ messages \in Seq(Message) /\ Len(messages) \in Nat
         /\ pending \in Seq(Call) /\ Len(pending) \in Nat
         /\ results \in Seq(Message) /\ Len(results) \in Nat
         /\ entries \in Seq([step : Nat, action : TurnActionNames, detail : Tools])
         /\ Len(entries) \in Nat
         /\ DOMAIN entries = 1..Len(entries) /\ DOMAIN results = 1..Len(results)
         /\ DOMAIN pending = 1..Len(pending) /\ DOMAIN messages = 1..Len(messages)
         /\ reported \in Nat /\ billed \in Nat /\ base_step \in Nat /\ rounds \in Nat
<1>1. /\ messages \in Seq(Message) /\ pending \in Seq(Call) /\ results \in Seq(Message)
      /\ entries \in Seq([step : Nat, action : TurnActionNames, detail : Tools])
      /\ reported \in Nat /\ billed \in Nat /\ base_step \in Nat /\ rounds \in 0..MaxRounds
  BY DEF TypeOK
<1>2. MaxRounds \in Nat
  BY ToolLoopAssumption
<1>3. rounds \in Nat
  BY <1>1, <1>2
<1> HIDE DEF Message
<1> QED BY <1>1, <1>3, LenProperties

\* To log is to append one entry with the next step.
LEMMA LogTyped ==
  ASSUME TypeOK, pending # <<>>, NEW action \in TurnActionNames, Log(action)
  PROVE  /\ entries' \in Seq([step : Nat, action : TurnActionNames, detail : Tools])
         /\ Len(entries') = Len(entries) + 1
         /\ entries'[Len(entries) + 1].step = NextStep
         /\ entries'[Len(entries) + 1].action = action
         /\ \A k \in 1..Len(entries) : entries'[k] = entries[k]
<1> DEFINE E == [step : Nat, action : TurnActionNames, detail : Tools]
           e == [step |-> NextStep, action |-> action, detail |-> Head(pending).tool]
<1>0. Head(pending) \in Call
  <2>1. pending \in Seq(Call)
    BY Typed
  <2>2. Head(pending) = pending[1] /\ pending[1] \in Call
    BY ONLY <2>1, pending # <<>>, Beheaded
  <2> QED BY <2>2
<1>1. e \in E /\ e.step = NextStep /\ e.action = action
  BY <1>0, Typed DEF NextStep, Call
<1>2. entries \in Seq(E) /\ entries' = Append(entries, e)
  BY Typed DEF Log
<1> HIDE DEF E, e
<1>3. /\ entries' \in Seq(E) /\ Len(entries') = Len(entries) + 1
      /\ entries'[Len(entries) + 1] = e
      /\ \A k \in 1..Len(entries) : entries'[k] = entries[k]
  BY ONLY <1>1, <1>2, Appended
<1> QED BY <1>3 DEF E, e

\* An answer joins the results, and its call leaves the queue.
LEMMA AnswerTyped ==
  ASSUME TypeOK, pending # <<>>, NEW kind \in AnswerKinds,
         results' = Append(results, Answer(kind, Head(pending).id)),
         pending' = Tail(pending)
  PROVE  /\ results' \in Seq(Message) /\ pending' \in Seq(Call)
         /\ Len(results') = Len(results) + 1 /\ Len(pending') = Len(pending) - 1
         /\ Head(pending) = pending[1] /\ pending[1] \in Call
         /\ Len(pending) >= 1
         /\ results'[Len(results) + 1] = Answer(kind, pending[1].id)
         /\ \A i \in 1..Len(results) : results'[i] = results[i]
         /\ \A i \in 1..Len(pending') : pending'[i] = pending[i + 1]
<1>0. pending \in Seq(Call) /\ results \in Seq(Message)
  BY Typed
<1>1. /\ pending' \in Seq(Call) /\ Len(pending') = Len(pending) - 1
      /\ Head(pending) = pending[1] /\ pending[1] \in Call /\ Len(pending) >= 1
      /\ \A i \in 1..Len(pending') : pending'[i] = pending[i + 1]
  <2>1. /\ Tail(pending) \in Seq(Call) /\ Len(Tail(pending)) = Len(pending) - 1
        /\ Head(pending) = pending[1] /\ pending[1] \in Call /\ Len(pending) >= 1
        /\ \A i \in 1..Len(Tail(pending)) : Tail(pending)[i] = pending[i + 1]
    BY ONLY <1>0, pending # <<>>, Beheaded
  <2> QED BY <2>1
<1>2. Answer(kind, pending[1].id) \in Message
  BY <1>1 DEF Answer, Message, MessageKinds, AnswerKinds, Call
<1> DEFINE a == Answer(kind, pending[1].id)
<1>3. a \in Message /\ results' = Append(results, a)
  BY <1>1, <1>2
<1> HIDE DEF a
<1>4. /\ results' \in Seq(Message) /\ Len(results') = Len(results) + 1
      /\ results'[Len(results) + 1] = a
      /\ \A i \in 1..Len(results) : results'[i] = results[i]
  BY ONLY <1>0, <1>3, Appended
<1> QED BY <1>1, <1>4 DEF a

\* Steps that end the turn, and leave what it holds alone.
Aborts == ServerFails \/ ModelFails \/ ToolErrors \/ ToolTimesOut \/ SummarizerFails

\* Steps on none of the turn's lists.
Quiet == Aborts \/ Connected \/ Wait \/ UNCHANGED vars
           \/ (\E base \in BaseSteps : Begin(base))
           \/ (\E usage \in UsageOf, text \in BOOLEAN : ModelAnswers(usage, text))

\* All of them raise.
LEMMA AbortsRaise ==
  ASSUME Aborts
  PROVE  /\ stage' = "raised" /\ fault' \in Faults
         /\ UNCHANGED <<base_step, messages, pending, results, entries, reported,
                        content, waited, rounds, billed>>
BY DEF Aborts, ServerFails, ModelFails, ToolErrors, ToolTimesOut, SummarizerFails, Raise, Faults

\* The step is one of these.
LEMMA Steps ==
  ASSUME [Next]_vars
  PROVE  \/ Quiet
         \/ ToolsListed
         \/ \E usage \in UsageOf, text \in BOOLEAN, requests \in CallBatches :
               ModelCalls(usage, text, requests)
         \/ RejectCall
         \/ CallTool
         \/ ToolReplies
         \/ EndRound
         \/ \E usage \in SummaryUsage : Summarized(usage)
BY DEF Next, LocalStep, ProcessStep, ServerStep, ModelReturns, Terminated, Quiet, Aborts

\* A response that asks for tools.
LEMMA AsksForTools ==
  ASSUME TypeOK, NEW usage \in UsageOf, NEW text \in BOOLEAN, NEW requests \in CallBatches,
         ModelCalls(usage, text, requests)
  PROVE  /\ stage = "model" /\ stage' = "calls" /\ results' = <<>>
         /\ pending' \in Seq(Call)
         /\ Len(pending') \in Nat /\ Len(pending') >= 1
         /\ \A i \in 1..Len(pending') : pending'[i].id = Len(entries) + i
         /\ messages' \in Seq(Message) /\ Len(messages') = Len(messages) + 1
         /\ \A i \in 1..Len(messages) : messages'[i] = messages[i]
         /\ messages'[Len(messages) + 1]
              = AssistantMessage({pending'[i].id : i \in 1..Len(pending')})
         /\ usage \in Nat /\ reported' = reported + usage /\ billed' = billed + usage
         /\ content' = text /\ rounds' = rounds + 1 /\ rounds < MaxRounds
         /\ UNCHANGED <<base_step, entries, waited, fault>>
<1>1. /\ stage = "model" /\ stage' = "calls" /\ results' = <<>>
      /\ pending' = CallsFrom(Len(entries) + 1, requests) /\ requests # <<>>
      /\ messages' = Append(messages,
           AssistantMessage({pending'[i].id : i \in DOMAIN pending'}))
      /\ reported' = reported + usage /\ billed' = billed + usage
      /\ content' = text /\ rounds' = rounds + 1 /\ rounds < MaxRounds
      /\ UNCHANGED <<base_step, entries, waited, fault>>
  BY DEF ModelCalls
<1>2. messages \in Seq(Message) /\ Len(entries) \in Nat
  BY Typed
<1>3. /\ pending' \in Seq(Call) /\ Len(pending') \in Nat /\ Len(pending') >= 1
      /\ DOMAIN pending' = 1..Len(pending')
      /\ \A i \in 1..Len(pending') : pending'[i].id = Len(entries) + i
  BY <1>1, <1>2, BatchTyped
<1> DEFINE a == AssistantMessage({pending'[i].id : i \in 1..Len(pending')})
<1>4. a \in Message
  <2>1. \A i \in 1..Len(pending') : pending'[i].id \in Nat
    BY <1>2, <1>3
  <2> QED BY <2>1 DEF AssistantMessage, Message, MessageKinds
<1>5. messages' = Append(messages, a)
  BY <1>1, <1>3
<1> HIDE DEF a
<1>6. /\ messages' \in Seq(Message) /\ Len(messages') = Len(messages) + 1
      /\ messages'[Len(messages) + 1] = a
      /\ \A i \in 1..Len(messages) : messages'[i] = messages[i]
  BY ONLY <1>2, <1>4, <1>5, Appended
<1>7. usage \in Nat
  BY ToolLoopAssumption
<1> QED BY <1>1, <1>3, <1>6, <1>7 DEF a

\* The answers of a round join the conversation.
LEMMA RoundJoins ==
  ASSUME TypeOK, EndRound
  PROVE  /\ messages' \in Seq(Message) /\ Len(messages') = Len(messages) + Len(results)
         /\ \A i \in 1..Len(messages) : messages'[i] = messages[i]
         /\ \A i \in 1..Len(results) : messages'[Len(messages) + i] = results[i]
<1>1. messages \in Seq(Message) /\ results \in Seq(Message)
  BY Typed
<1>2. messages' = messages \o results
  BY DEF EndRound
<1> QED BY ONLY <1>1, <1>2, Joined

\* Every step keeps the types.
LEMMA TypePreserved == TypeInv /\ [Next]_vars => TypeInv'
<1> SUFFICES ASSUME TypeInv, [Next]_vars PROVE TypeInv'
  OBVIOUS
<1>0. TypeOK /\ ShapeInv
  BY DEF TypeInv
<1>a. /\ MaxMessages \in Nat /\ CallTimeout \in Nat /\ MaxRounds \in Nat
      /\ UsageOf \subseteq Nat /\ SummaryUsage \subseteq Nat /\ BaseSteps \subseteq Nat
  BY ToolLoopAssumption
<1>1. CASE Quiet
  <2>1. CASE Aborts
    BY <1>0, <2>1, AbortsRaise DEF TypeInv, TypeOK, ShapeInv, LoopStages
  <2>2. CASE Connected
    BY <1>0, <2>2 DEF Connected, TypeInv, TypeOK, ShapeInv, LoopStages
  <2>3. CASE Wait
    BY <1>0, <1>a, <2>3 DEF Wait, TypeInv, TypeOK, ShapeInv, LoopStages
  <2>4. CASE UNCHANGED vars
    BY <1>0, <2>4 DEF vars, TypeInv, TypeOK, ShapeInv
  <2>5. ASSUME NEW base \in BaseSteps, Begin(base) PROVE TypeInv'
    BY <1>0, <1>a, <2>5 DEF Begin, TypeInv, TypeOK, ShapeInv, LoopStages
  <2>6. ASSUME NEW usage \in UsageOf, NEW text \in BOOLEAN, ModelAnswers(usage, text)
        PROVE  TypeInv'
    <3>1. reported' \in Nat /\ billed' \in Nat
      BY <1>0, <1>a, <2>6, Typed DEF ModelAnswers
    <3>2. stage' = "returned" /\ content' \in BOOLEAN
      BY <2>6 DEF ModelAnswers
    <3>3. UNCHANGED <<base_step, messages, pending, results, entries, waited, rounds, fault>>
      BY <2>6 DEF ModelAnswers
    <3> QED BY <1>0, <3>1, <3>2, <3>3 DEF TypeInv, TypeOK, ShapeInv, LoopStages
  <2> QED BY <1>1, <2>1, <2>2, <2>3, <2>4, <2>5, <2>6 DEF Quiet
<1>2. CASE ToolsListed
  <2>1. messages' = <<IncidentStatement>> /\ IncidentStatement \in Message
    BY <1>2 DEF ToolsListed, IncidentStatement, Message, MessageKinds
  <2>2. messages' \in Seq(Message) /\ Len(messages') = 1
    BY <2>1
  <2>3. stage' = "model" /\ UNCHANGED <<base_step, pending, results, entries, reported,
                                         content, waited, rounds, billed, fault>>
    BY <1>2 DEF ToolsListed
  <2> QED BY <1>0, <2>2, <2>3 DEF TypeInv, TypeOK, ShapeInv, LoopStages
<1>3. ASSUME NEW usage \in UsageOf, NEW text \in BOOLEAN, NEW requests \in CallBatches,
             ModelCalls(usage, text, requests)
      PROVE  TypeInv'
  <2>1. reported' \in Nat /\ billed' \in Nat /\ rounds' \in 0..MaxRounds
    <3>1. /\ usage \in Nat /\ reported' = reported + usage /\ billed' = billed + usage
          /\ rounds' = rounds + 1 /\ rounds < MaxRounds
      BY <1>0, <1>3, AsksForTools
    <3>2. reported \in Nat /\ billed \in Nat /\ rounds \in Nat
      BY <1>0, Typed
    <3> QED BY <1>a, <3>1, <3>2
  <2>2. Len(messages') >= 2 /\ Len(results') + Len(pending') >= 1
    <3>1. Len(messages) >= 1 /\ Len(messages) \in Nat
      BY <1>0, <1>3, AsksForTools, Typed DEF ShapeInv
    <3>2. results' = <<>> /\ Len(messages') = Len(messages) + 1
          /\ Len(pending') \in Nat /\ Len(pending') >= 1
      BY <1>0, <1>3, AsksForTools
    <3> QED BY <3>1, <3>2
  <2>3. /\ messages' \in Seq(Message) /\ pending' \in Seq(Call) /\ results' = <<>>
        /\ stage' = "calls" /\ content' \in BOOLEAN
        /\ UNCHANGED <<base_step, entries, waited, fault>>
    BY <1>0, <1>3, AsksForTools
  <2> QED BY <1>0, <2>1, <2>2, <2>3 DEF TypeInv, TypeOK, ShapeInv, LoopStages
<1>4. CASE RejectCall
  <2>1. /\ stage = "calls" /\ Log("validation_error") /\ pending # <<>>
        /\ results' = Append(results, Answer("rejection", Head(pending).id))
        /\ pending' = Tail(pending)
        /\ UNCHANGED <<stage, base_step, messages, reported, content, waited, rounds,
                       billed, fault>>
    BY <1>4 DEF RejectCall
  <2>2. entries' \in Seq([step : Nat, action : TurnActionNames, detail : Tools])
    BY <1>0, <2>1, LogTyped DEF TurnActionNames
  <2>3. /\ results' \in Seq(Message) /\ pending' \in Seq(Call)
        /\ Len(results') = Len(results) + 1 /\ Len(pending') = Len(pending) - 1
        /\ Len(pending) >= 1
    BY <1>0, <2>1, AnswerTyped DEF AnswerKinds
  <2>4. Len(results') + Len(pending') >= 1
    BY <1>0, <2>3, Typed
  <2> QED BY <1>0, <2>1, <2>2, <2>3, <2>4 DEF TypeInv, TypeOK, ShapeInv
<1>5. CASE CallTool
  <2>1. /\ stage = "calls" /\ Log("tool_call") /\ pending # <<>>
        /\ stage' = "awaiting" /\ waited' = 0
        /\ UNCHANGED <<base_step, messages, pending, results, reported, content, rounds,
                       billed, fault>>
    BY <1>5 DEF CallTool
  <2>2. entries' \in Seq([step : Nat, action : TurnActionNames, detail : Tools])
    BY <1>0, <2>1, LogTyped DEF TurnActionNames
  <2> QED BY <1>0, <1>a, <2>1, <2>2 DEF TypeInv, TypeOK, ShapeInv, LoopStages
<1>6. CASE ToolReplies
  <2>1. /\ stage = "awaiting" /\ stage' = "calls" /\ waited' = 0
        /\ results' = Append(results, Answer("result", Head(pending).id))
        /\ pending' = Tail(pending)
        /\ UNCHANGED <<base_step, messages, entries, reported, content, rounds, billed, fault>>
    BY <1>6 DEF ToolReplies
  <2>2. pending # <<>>
    BY <1>0, <2>1 DEF ShapeInv
  <2>3. /\ results' \in Seq(Message) /\ pending' \in Seq(Call)
        /\ Len(results') = Len(results) + 1 /\ Len(pending') = Len(pending) - 1
        /\ Len(pending) >= 1
    BY <1>0, <2>1, <2>2, AnswerTyped DEF AnswerKinds
  <2>4. Len(results') + Len(pending') >= 1
    BY <1>0, <2>3, Typed
  <2> QED BY <1>0, <1>a, <2>1, <2>3, <2>4 DEF TypeInv, TypeOK, ShapeInv, LoopStages
<1>7. CASE EndRound
  <2>1. /\ stage = "calls" /\ pending = <<>>
        /\ stage' = IF NeedsPruning(messages', MaxMessages) THEN "summarizing" ELSE "model"
        /\ UNCHANGED <<base_step, pending, results, entries, reported, content, waited,
                       rounds, billed, fault>>
    BY <1>7 DEF EndRound
  <2>2. messages' \in Seq(Message) /\ Len(messages') = Len(messages) + Len(results)
    BY <1>0, <1>7, RoundJoins
  <2>3. Len(messages') >= 3
    BY <1>0, <2>1, <2>2, Typed DEF ShapeInv
  <2> QED BY <1>0, <2>1, <2>2, <2>3 DEF TypeInv, TypeOK, ShapeInv, LoopStages
<1>8. ASSUME NEW usage \in SummaryUsage, Summarized(usage) PROVE TypeInv'
  <2>1. /\ stage = "summarizing" /\ stage' = "model"
        /\ messages' = Prune(messages, MaxMessages) /\ billed' = billed + usage
        /\ UNCHANGED <<base_step, pending, results, entries, reported, content, waited,
                       rounds, fault>>
    BY <1>8 DEF Summarized
  <2>2. messages' \in Seq(Message) /\ Len(messages') >= 1
    <3>1. messages \in Seq(Message) /\ Len(messages) >= 3 /\ NeedsPruning(messages, MaxMessages)
      BY <1>0, <2>1, Typed DEF ShapeInv
    <3>2. /\ EffectiveMax(MaxMessages) \in Nat
          /\ Prune(messages, MaxMessages) \in Seq(Message)
          /\ Len(Prune(messages, MaxMessages)) = EffectiveMax(MaxMessages) + 1
      BY ONLY <1>a, <3>1, Pruned
    <3> QED BY <2>1, <3>2
  <2>3. billed' \in Nat
    BY <1>0, <1>a, <2>1, Typed
  <2> QED BY <1>0, <2>1, <2>2, <2>3 DEF TypeInv, TypeOK, ShapeInv, LoopStages
<1> QED BY <1>1, <1>2, <1>3, <1>4, <1>5, <1>6, <1>7, <1>8, Steps

\* A turn begins without a conversation.
LEMMA TypeInitially == Init => TypeInv
<1> SUFFICES ASSUME Init PROVE TypeInv
  OBVIOUS
<1>1. 0 \in 0..CallTimeout /\ 0 \in 0..MaxRounds
  BY ToolLoopAssumption
<1>2. TypeOK
  <2>1. /\ messages \in Seq(Message) /\ results \in Seq(Message) /\ pending \in Seq(Call)
        /\ entries \in Seq([step : Nat, action : TurnActionNames, detail : Tools])
    BY EmptySeq DEF Init
  <2>2. stage \in LoopStages /\ fault \in Faults
    BY DEF Init, LoopStages, Faults
  <2>3. /\ base_step \in Nat /\ reported \in Nat /\ content \in BOOLEAN
        /\ waited \in 0..CallTimeout /\ rounds \in 0..MaxRounds /\ billed \in Nat
    BY <1>1 DEF Init
  <2> QED BY <2>1, <2>2, <2>3 DEF TypeOK
<1>3. ShapeInv
  BY DEF Init, ShapeInv
<1> QED BY <1>2, <1>3 DEF TypeInv

\* The locals of the turn stay well formed.
THEOREM TypeCorrect == Spec => []TypeOK
<1>1. TypeInv => TypeOK
  BY DEF TypeInv
<1> QED BY <1>1, TypeInitially, TypePreserved, PTL DEF Spec

-----------------------------------------------------------------------------
\* Calls, their entries and their answers.

\* How many calls of the turn have been answered, in a round: the one in flight, or
\* in flight when the turn raised, is logged.
Answered == IF stage \in {"awaiting", "raised"} THEN Len(entries) - 1 ELSE Len(entries)

\* Answer i agrees with the entry of the call it answers.
Agrees(i) ==
  \E k \in 1..Len(entries) :
    /\ results[i].kind \in AnswerKinds
    /\ results[i].ids = {k}
    /\ results[i].kind = "rejection" <=> entries[k].action = "validation_error"

\* The calls of the last response are the answered ones and then the pending ones,
\* without a gap.
Numbered ==
  /\ \A i \in 1..Len(results) : results[i].ids = {Answered - Len(results) + i}
  /\ \A i \in 1..Len(pending) : pending[i].id = Answered + i
  /\ messages[Len(messages)].ids
       = (Answered - Len(results) + 1)..(Answered + Len(pending))

\* The conversation ends on a response whose round is not over.
EndsOnResponse == Len(messages) >= 1 /\ messages[Len(messages)].kind = "assistant"

\* Calls are numbered as they are logged, those of the response under way also after
\* the turn has raised; in every other stage the conversation ends on something else.
CallInv ==
  /\ \A k \in 1..Len(entries) : entries[k].step = base_step + k - 1
  /\ \A i \in 1..Len(results) : Agrees(i)
  /\ stage = "idle" => entries = <<>> /\ results = <<>>
  /\ stage = "awaiting" =>
       Len(entries) >= 1 /\ entries[Len(entries)].action = "tool_call"
  /\ stage \in {"calls", "awaiting"} => Numbered
  /\ EndsOnResponse =>
       /\ stage \in {"calls", "awaiting", "raised"}
       /\ stage # "calls" => pending # <<>>
       /\ Numbered
  /\ stage \in {"idle", "connecting", "listing"} => messages = <<>>

\* The call at the head of the queue is answered, and agrees with its entry.
LEMMA OneAnswered ==
  ASSUME TypeOK, CallInv, stage \in {"calls", "awaiting"}, stage' = "calls", pending # <<>>,
         NEW kind \in AnswerKinds,
         results' = Append(results, Answer(kind, Head(pending).id)),
         pending' = Tail(pending), messages' = messages, base_step' = base_step,
         Len(entries') = Answered + 1,
         Len(entries') >= Len(entries),
         \A k \in 1..Len(entries) : entries'[k] = entries[k],
         \A k \in 1..Len(entries') : entries'[k].step = base_step + k - 1,
         kind = "rejection" <=> entries'[Len(entries')].action = "validation_error"
  PROVE  CallInv'
<1> DEFINE n == Len(entries)  r == Len(results)  p == Len(pending)  a == Answered
<1>1. /\ n \in Nat /\ r \in Nat /\ p \in Nat /\ a \in Int
  BY Typed DEF Answered
<1>2. /\ Len(results') = r + 1 /\ Len(pending') = p - 1 /\ p >= 1
      /\ results'[r + 1] = Answer(kind, pending[1].id)
      /\ \A i \in 1..r : results'[i] = results[i]
      /\ \A i \in 1..(p - 1) : pending'[i] = pending[i + 1]
  BY AnswerTyped
<1>3. /\ \A i \in 1..r : results[i].ids = {a - r + i}
      /\ \A i \in 1..p : pending[i].id = a + i
      /\ messages[Len(messages)].ids = (a - r + 1)..(a + p)
      /\ \A i \in 1..r : Agrees(i)
  BY DEF CallInv, Numbered
<1>4. Answered' = a + 1 /\ Len(entries') = a + 1 /\ a + 1 >= n
  BY DEF Answered
<1>5. pending[1].id = a + 1
  BY <1>1, <1>2, <1>3
<1>6. /\ results'[r + 1].ids = {a + 1} /\ results'[r + 1].kind = kind
      /\ kind \in AnswerKinds
  BY <1>2, <1>5 DEF Answer
<1>c. /\ r \in Int /\ p \in Int /\ a \in Int /\ p >= 1
      /\ Len(results') = r + 1 /\ Len(pending') = p - 1 /\ Answered' = a + 1
  BY <1>1, <1>2, <1>4
<1> HIDE DEF n, r, p, a
<1>7. \A i \in 1..Len(results') : Agrees(i)'
  <2> SUFFICES ASSUME NEW i \in 1..Len(results') PROVE Agrees(i)'
    OBVIOUS
  <2>1. CASE i = r + 1
    <3>1. a + 1 \in 1..Len(entries')
      BY <1>1, <1>2, <1>4, <2>1 DEF Answered, CallInv, a, n
    <3> QED BY <1>4, <1>6, <2>1, <3>1 DEF Agrees
  <2>2. CASE i \in 1..r
    <3>1. PICK k \in 1..n : /\ results[i].kind \in AnswerKinds
                            /\ results[i].ids = {k}
                            /\ results[i].kind = "rejection" <=> entries[k].action = "validation_error"
      BY <1>3, <2>2 DEF Agrees, n
    <3>2. k \in 1..Len(entries') /\ entries'[k] = entries[k] /\ results'[i] = results[i]
      BY <1>1, <1>2, <1>4, <2>2, <3>1 DEF n
    <3> QED BY <3>1, <3>2 DEF Agrees
  <2> QED BY <1>1, <1>2, <2>1, <2>2
<1>8. \A i \in 1..Len(results') : results'[i].ids = {Answered' - Len(results') + i}
  <2> TAKE i \in 1..Len(results')
  <2>1. Answered' - Len(results') + i = a - r + i
    <3>1. i \in Int
      BY ONLY <1>c, i \in 1..Len(results')
    <3> QED BY ONLY <1>c, <3>1
  <2>2. CASE i = r + 1
    <3>1. a - r + i = a + 1
      BY <1>1, <2>2
    <3> QED BY <1>6, <2>1, <2>2, <3>1
  <2>3. CASE i \in 1..r
    BY <1>2, <1>3, <2>1, <2>3
  <2> QED BY <1>1, <1>2, <2>2, <2>3
<1>9. \A i \in 1..Len(pending') : pending'[i].id = Answered' + i
  <2> TAKE i \in 1..Len(pending')
  <2>1. i + 1 \in 1..p /\ i \in 1..(p - 1) /\ a + (i + 1) = Answered' + i
    BY <1>1, <1>2, <1>4
  <2> QED BY <1>2, <1>3, <2>1
<1>10. messages'[Len(messages')].ids
         = (Answered' - Len(results') + 1)..(Answered' + Len(pending'))
  <2>1. /\ Answered' - Len(results') + 1 = a - r + 1
        /\ Answered' + Len(pending') = a + p
    BY ONLY <1>c
  <2> QED BY <1>3, <2>1
<1>11. Numbered'
  BY <1>8, <1>9, <1>10 DEF Numbered
<1> QED BY <1>7, <1>11 DEF CallInv

\* The turn's next entry bears the next step.
LEMMA StepsContinue ==
  ASSUME TypeOK, CallInv, pending # <<>>, NEW action \in TurnActionNames, Log(action)
  PROVE  /\ Len(entries') = Len(entries) + 1
         /\ entries'[Len(entries')].action = action
         /\ \A k \in 1..Len(entries) : entries'[k] = entries[k]
         /\ \A k \in 1..Len(entries') : entries'[k].step = base_step + k - 1
<1>1. /\ Len(entries') = Len(entries) + 1
      /\ entries'[Len(entries) + 1].step = NextStep
      /\ entries'[Len(entries) + 1].action = action
      /\ \A k \in 1..Len(entries) : entries'[k] = entries[k]
  BY LogTyped
<1>2. \A k \in 1..Len(entries) : entries[k].step = base_step + k - 1
  BY DEF CallInv
<1>3. Len(entries) \in Nat /\ base_step \in Nat /\ NextStep = base_step + Len(entries)
  BY Typed DEF NextStep
<1>4. \A k \in 1..Len(entries') : entries'[k].step = base_step + k - 1
  <2> TAKE k \in 1..Len(entries')
  <2>1. CASE k = Len(entries) + 1
    <3>1. entries'[k].step = NextStep
      BY <1>1, <2>1
    <3> QED BY <1>3, <2>1, <3>1
  <2>2. CASE k \in 1..Len(entries)
    BY <1>1, <1>2, <2>2
  <2> QED BY <1>1, <1>3, <2>1, <2>2
<1> QED BY <1>1, <1>4

\* No step breaks the numbering.
LEMMA CallPreserved == TypeInv /\ CallInv /\ [Next]_vars => CallInv'
<1> SUFFICES ASSUME TypeInv, CallInv, [Next]_vars PROVE CallInv'
  OBVIOUS
<1>0. TypeOK /\ ShapeInv
  BY DEF TypeInv
<1>1. CASE UNCHANGED <<stage, base_step, messages, pending, results, entries>>
  <2>1. /\ stage' = stage /\ base_step' = base_step /\ messages' = messages
        /\ pending' = pending /\ results' = results /\ entries' = entries
    BY <1>1
  <2>2. /\ Numbered' <=> Numbered
        /\ EndsOnResponse' <=> EndsOnResponse
        /\ \A i \in 1..Len(results) : Agrees(i)' <=> Agrees(i)
    <3>1. Answered' = Answered
      BY ONLY <2>1 DEF Answered
    <3> QED BY ONLY <2>1, <3>1 DEF Numbered, EndsOnResponse, Agrees
  <2> QED BY ONLY CallInv, <2>1, <2>2 DEF CallInv
<1>2. CASE /\ UNCHANGED <<base_step, results, entries>>
           /\ stage' \notin {"idle", "connecting", "listing", "calls", "awaiting"}
           /\ ~EndsOnResponse'
  BY <1>2 DEF CallInv, Agrees
<1>3. CASE Quiet
  <2>1. CASE Aborts
    <3>1. /\ stage' = "raised"
          /\ UNCHANGED <<base_step, messages, pending, results, entries>>
      BY <2>1, AbortsRaise
    <3>2. stage \in {"connecting", "listing", "model", "awaiting", "summarizing"}
      BY <2>1 DEF Aborts, ServerFails, ModelFails, ToolErrors, ToolTimesOut, SummarizerFails
    <3>3. CASE EndsOnResponse
      <4>1. stage = "awaiting" /\ pending # <<>> /\ Numbered
        BY <3>2, <3>3 DEF CallInv
      <4>2. Answered' = Answered
        BY <3>1, <4>1 DEF Answered
      <4>3. Numbered' /\ pending' # <<>>
        BY <3>1, <4>1, <4>2 DEF Numbered
      <4> QED BY <3>1, <4>3 DEF CallInv, Agrees
    <3>4. CASE ~EndsOnResponse
      BY <1>2, <3>1, <3>4 DEF EndsOnResponse
    <3> QED BY <3>3, <3>4
  <2>2. CASE \E usage \in UsageOf, text \in BOOLEAN : ModelAnswers(usage, text)
    <3>1. /\ stage = "model" /\ stage' = "returned"
          /\ UNCHANGED <<base_step, messages, results, entries>>
      BY <2>2 DEF ModelAnswers
    <3>2. ~EndsOnResponse
      BY <3>1 DEF CallInv
    <3> QED BY <1>2, <3>1, <3>2 DEF EndsOnResponse
  <2>3. CASE Wait \/ UNCHANGED vars
    BY <1>1, <2>3 DEF Wait, vars
  <2>4. CASE Connected \/ (\E base \in BaseSteps : Begin(base))
    <3>1. /\ stage \in {"idle", "connecting"} /\ stage' \in {"connecting", "listing"}
          /\ UNCHANGED <<messages, results, entries>>
          /\ stage = "idle" \/ UNCHANGED base_step
      BY <2>4 DEF Begin, Connected
    <3>2. messages' = <<>> /\ ~EndsOnResponse'
      BY <3>1, EmptySeq DEF CallInv, EndsOnResponse
    <3>3. \A k \in 1..Len(entries) : entries[k].step = base_step' + k - 1
      <4>1. CASE stage = "idle"
        <5>1. Len(entries) = 0
          BY <4>1, EmptySeq DEF CallInv
        <5> QED BY <5>1
      <4>2. CASE UNCHANGED base_step
        BY <4>2 DEF CallInv
      <4> QED BY <3>1, <4>1, <4>2
    <3> QED BY <3>1, <3>2, <3>3 DEF CallInv, Agrees
  <2> QED BY <1>3, <2>1, <2>2, <2>3, <2>4 DEF Quiet
<1>4. CASE ToolsListed
  <2>1. messages' = <<IncidentStatement>> /\ stage' = "model"
        /\ UNCHANGED <<base_step, results, entries>>
    BY <1>4 DEF ToolsListed
  <2>2. ~EndsOnResponse'
    <3>1. Len(messages') = 1 /\ messages'[1].kind = "user"
      BY <2>1 DEF IncidentStatement
    <3> QED BY <3>1 DEF EndsOnResponse
  <2> QED BY <1>2, <2>1, <2>2
<1>5. ASSUME NEW usage \in UsageOf, NEW text \in BOOLEAN, NEW requests \in CallBatches,
             ModelCalls(usage, text, requests)
      PROVE  CallInv'
  <2>1. /\ stage' = "calls" /\ results' = <<>>
        /\ Len(pending') \in Nat /\ Len(pending') >= 1
        /\ \A i \in 1..Len(pending') : pending'[i].id = Len(entries) + i
        /\ Len(messages') = Len(messages) + 1
        /\ UNCHANGED <<base_step, entries>>
    BY ONLY <1>0, <1>5, AsksForTools
  <2>2. Len(entries) \in Nat /\ Answered' = Len(entries)
    BY <1>0, <2>1, Typed DEF Answered
  <2>3. messages'[Len(messages')].ids = (Len(entries) + 1)..(Len(entries) + Len(pending'))
    <3>0. messages'[Len(messages')].ids = {pending'[i].id : i \in 1..Len(pending')}
      <4>1. messages'[Len(messages')]
              = AssistantMessage({pending'[i].id : i \in 1..Len(pending')})
        BY <1>0, <1>5, <2>1, AsksForTools
      <4> QED BY <4>1 DEF AssistantMessage
    <3> DEFINE n == Len(entries)  p == Len(pending')  id(i) == pending'[i].id
    <3>1. n \in Nat /\ p \in Nat /\ \A i \in 1..p : id(i) = n + i
      BY <2>1, <2>2
    <3> HIDE DEF n, p, id
    <3>2. {id(i) : i \in 1..p} = (n + 1)..(n + p)
      <4>1. \A j \in (n + 1)..(n + p) : j - n \in 1..p /\ n + (j - n) = j
        BY ONLY <3>1
      <4>2. \A i \in 1..p : n + i \in (n + 1)..(n + p)
        BY ONLY <3>1
      <4>3. {id(i) : i \in 1..p} \subseteq (n + 1)..(n + p)
        BY ONLY <3>1, <4>2
      <4>4. ASSUME NEW j \in (n + 1)..(n + p) PROVE j \in {id(i) : i \in 1..p}
        <5>1. j - n \in 1..p /\ id(j - n) = j
          BY ONLY <3>1, <4>1, j \in (n + 1)..(n + p)
        <5> QED BY <5>1
      <4> QED BY <4>3, <4>4
    <3> QED BY <3>0, <3>2 DEF n, p, id
  <2>4. Len(results') = 0
    BY <2>1
  <2>5. Numbered'
    BY <2>1, <2>2, <2>3, <2>4 DEF Numbered
  <2> QED BY <2>1, <2>4, <2>5 DEF CallInv
<1>6. CASE RejectCall
  <2>1. /\ stage = "calls" /\ stage' = "calls" /\ Log("validation_error") /\ pending # <<>>
        /\ results' = Append(results, Answer("rejection", Head(pending).id))
        /\ pending' = Tail(pending) /\ messages' = messages /\ base_step' = base_step
    BY <1>6 DEF RejectCall
  <2>2. /\ Len(entries') = Len(entries) + 1
        /\ entries'[Len(entries')].action = "validation_error"
        /\ \A k \in 1..Len(entries) : entries'[k] = entries[k]
        /\ \A k \in 1..Len(entries') : entries'[k].step = base_step + k - 1
    BY <1>0, <2>1, StepsContinue DEF TurnActionNames
  <2>3. Len(entries') = Answered + 1 /\ Len(entries') >= Len(entries)
    BY <1>0, <2>1, <2>2, Typed DEF Answered
  <2> QED BY <1>0, <2>1, <2>2, <2>3, OneAnswered DEF AnswerKinds
<1>7. CASE CallTool
  <2>1. /\ stage = "calls" /\ stage' = "awaiting" /\ Log("tool_call") /\ pending # <<>>
        /\ UNCHANGED <<base_step, messages, pending, results>>
    BY <1>7 DEF CallTool
  <2>2. /\ Len(entries') = Len(entries) + 1
        /\ entries'[Len(entries')].action = "tool_call"
        /\ \A k \in 1..Len(entries) : entries'[k] = entries[k]
        /\ \A k \in 1..Len(entries') : entries'[k].step = base_step + k - 1
    BY <1>0, <2>1, StepsContinue DEF TurnActionNames
  <2>3. Len(entries) \in Nat /\ Answered' = Answered
    BY <1>0, <2>1, <2>2, Typed DEF Answered
  <2>4. \A i \in 1..Len(results) : Agrees(i)'
    <3>1. \A i \in 1..Len(results) : Agrees(i)
      BY DEF CallInv
    <3>2. 1..Len(entries) \subseteq 1..Len(entries')
      BY <2>2, <2>3
    <3> QED BY <2>1, <2>2, <3>1, <3>2 DEF Agrees
  <2>5. Len(entries') >= 1
    BY <2>2, <2>3
  <2>6. Numbered'
    BY <2>1, <2>3 DEF CallInv, Numbered
  <2> QED BY <2>1, <2>2, <2>4, <2>5, <2>6 DEF CallInv
<1>8. CASE ToolReplies
  <2>1. /\ stage = "awaiting" /\ stage' = "calls"
        /\ results' = Append(results, Answer("result", Head(pending).id))
        /\ pending' = Tail(pending)
        /\ UNCHANGED <<base_step, messages, entries>>
    BY <1>8 DEF ToolReplies
  <2>2. pending # <<>>
    BY <1>0, <2>1 DEF ShapeInv
  <2>3. /\ Len(entries') = Answered + 1
        /\ entries'[Len(entries')].action = "tool_call"
        /\ \A k \in 1..Len(entries') : entries'[k].step = base_step + k - 1
        /\ Len(entries') >= Len(entries)
    BY <1>0, <2>1, Typed DEF Answered, CallInv
  <2> QED BY <1>0, <2>1, <2>2, <2>3, OneAnswered DEF AnswerKinds
<1>9. CASE EndRound
  <2>1. /\ stage = "calls" /\ pending = <<>> /\ stage' \in {"summarizing", "model"}
        /\ UNCHANGED <<base_step, results, entries>>
    BY <1>9 DEF EndRound
  <2>2. /\ Len(messages') = Len(messages) + Len(results)
        /\ \A i \in 1..Len(results) : messages'[Len(messages) + i] = results[i]
    BY <1>0, <1>9, RoundJoins
  <2>3. Len(results) \in Nat /\ Len(results) >= 1 /\ Len(messages) \in Nat
    BY <1>0, <2>1, Typed, EmptySeq DEF ShapeInv
  <2>4. messages'[Len(messages')] = results[Len(results)]
    BY <2>2, <2>3
  <2>5. results[Len(results)].kind \in AnswerKinds
    BY <2>3 DEF CallInv, Agrees
  <2>6. ~EndsOnResponse'
    BY <2>4, <2>5 DEF EndsOnResponse, AnswerKinds
  <2> QED BY <1>2, <2>1, <2>6
<1>10. ASSUME NEW usage \in SummaryUsage, Summarized(usage) PROVE CallInv'
  <2>1. /\ stage = "summarizing" /\ stage' = "model"
        /\ messages' = Prune(messages, MaxMessages)
        /\ UNCHANGED <<base_step, results, entries>>
    BY <1>10 DEF Summarized
  <2>2. /\ messages \in Seq(Message) /\ Len(messages) \in Nat /\ MaxMessages \in Nat
        /\ Len(messages) >= 3 /\ NeedsPruning(messages, MaxMessages)
    BY <1>0, <2>1, Typed, ToolLoopAssumption DEF ShapeInv
  <2>3. messages'[Len(messages')] = messages[Len(messages)]
    <3> DEFINE size == EffectiveMax(MaxMessages)
               split == Split(messages, MaxMessages)
    <3>1. /\ size \in Nat /\ size >= 2 /\ split \in Int
          /\ split = Len(messages) - size + 1
          /\ Len(messages') = size + 1
          /\ \A i \in 3..(size + 1) : messages'[i] = messages[split + i - 2]
      BY <2>1, <2>2, Pruned
    <3> HIDE DEF size, split
    <3>2. size + 1 \in 3..(size + 1) /\ split + (size + 1) - 2 = Len(messages)
      BY <2>2, <3>1
    <3> QED BY <3>1, <3>2
  <2>4. ~EndsOnResponse
    BY <2>1 DEF CallInv
  <2>5. ~EndsOnResponse'
    BY <2>2, <2>3, <2>4 DEF EndsOnResponse
  <2> QED BY <1>2, <2>1, <2>5
<1> QED BY <1>3, <1>4, <1>5, <1>6, <1>7, <1>8, <1>9, <1>10, Steps

\* ... and without calls.
LEMMA CallInitially == Init => CallInv
BY EmptySeq DEF Init, CallInv, EndsOnResponse

\* Call k of a turn leaves entry k with the k-th step, and its answer is a rejection
\* exactly when the log says so, however calls are refused, fail and are pruned.
THEOREM LogMatches == Spec => []LogMatchesAnswers
<1>1. TypeInv /\ CallInv => LogMatchesAnswers
  <2> SUFFICES ASSUME TypeInv, CallInv PROVE LogMatchesAnswers
    OBVIOUS
  <2>1. DOMAIN entries = 1..Len(entries) /\ DOMAIN results = 1..Len(results)
    BY Typed DEF TypeInv
  <2>2. ASSUME NEW i \in 1..Len(results)
        PROVE  \E k \in results[i].ids \cap DOMAIN entries :
                 (results[i].kind = "rejection") <=> (entries[k].action = "validation_error")
    BY <2>1 DEF CallInv, Agrees
  <2> QED BY <2>1, <2>2 DEF LogMatchesAnswers, CallInv
<1> QED BY <1>1, TypeInitially, TypePreserved, CallInitially, CallPreserved, PTL DEF Spec

\* The calls of a response are answered in its order, once each: as long as the
\* conversation ends on it, the answers and then the pending calls are its calls in
\* order, and of the pending ones the log has the one in flight and no other. So it
\* stays when the turn raises.
THEOREM CallsAreAnswered == Spec => []EveryCallAnswered
<1>1. TypeInv /\ CallInv => EveryCallAnswered
  <2> SUFFICES ASSUME TypeInv, CallInv, messages # <<>>, Last(messages).kind = "assistant"
               PROVE  LET n == Len(results) + Len(pending)
                          ids == [i \in 1..n |->
                                    IF i <= Len(results) THEN results[i].ids
                                    ELSE {pending[i - Len(results)].id}]
                          inFlight == stage \in {"awaiting", "raised"}
                      IN  /\ UNION {ids[i] : i \in 1..n} = Last(messages).ids
                          /\ Cardinality(Last(messages).ids) = n
                          /\ \A i, j \in 1..n : i < j =>
                                \A x \in ids[i], y \in ids[j] : x < y
                          /\ \A i \in DOMAIN pending :
                                pending[i].id <= Len(entries) <=> inFlight /\ i = 1
                          /\ inFlight => pending # <<>>
    BY DEF EveryCallAnswered
  <2> DEFINE r == Len(results)  p == Len(pending)  a == Answered  b == a - r  n == r + p
             ids == [i \in 1..n |-> IF i <= r THEN results[i].ids ELSE {pending[i - r].id}]
             inFlight == stage \in {"awaiting", "raised"}
  <2>1. /\ r \in Nat /\ p \in Nat /\ a \in Int /\ b \in Int /\ n \in Nat
        /\ DOMAIN pending = 1..p /\ Len(entries) \in Nat
        /\ a = IF inFlight THEN Len(entries) - 1 ELSE Len(entries)
    BY Typed DEF TypeInv, Answered
  <2>2. EndsOnResponse
    <3>1. messages \in Seq(Message) /\ Len(messages) \in Nat
      BY Typed DEF TypeInv
    <3>2. Len(messages) >= 1
      BY ONLY <3>1, messages # <<>>, Beheaded
    <3> QED BY <3>2 DEF EndsOnResponse, Last
  <2>3. /\ \A i \in 1..r : results[i].ids = {b + i}
        /\ \A i \in 1..p : pending[i].id = a + i
        /\ Last(messages).ids = (b + 1)..(a + p)
        /\ inFlight => pending # <<>>
    BY <2>2 DEF CallInv, Numbered, Last
  <2>4. ids = [i \in 1..n |-> IF i <= r THEN results[i].ids ELSE {pending[i - r].id}]
    OBVIOUS
  <2>5. b + n = a + p /\ b + r = a /\ n = r + p
    <3>1. b = a - r /\ n = r + p
      OBVIOUS
    <3>2. r \in Nat /\ p \in Nat /\ a \in Int
      BY <2>1
    <3> HIDE DEF r, p, a, b, n
    <3> QED BY ONLY <3>1, <3>2
  <2> HIDE DEF r, p, a, b, n, ids, inFlight
  <2>6. \A i \in 1..n : ids[i] = {b + i}
    <3> TAKE i \in 1..n
    <3>1. CASE i <= r
      <4>1. i \in 1..r
        BY <2>1, <3>1
      <4> QED BY <2>3, <2>4, <3>1, <4>1
    <3>2. CASE ~(i <= r)
      <4>1. i - r \in 1..p /\ a + (i - r) = b + i
        BY <2>1, <2>5, <3>2
      <4> QED BY <2>3, <2>4, <3>2, <4>1
    <3> QED BY <3>1, <3>2
  <2>7. Last(messages).ids = (b + 1)..(b + n)
    BY <2>3, <2>5
  <2>8. UNION {ids[i] : i \in 1..n} = Last(messages).ids
    <3>1. \A x \in (b + 1)..(b + n) : x - b \in 1..n /\ b + (x - b) = x
      BY ONLY <2>1
    <3>2. \A i \in 1..n : b + i \in (b + 1)..(b + n)
      BY ONLY <2>1
    <3>3. ASSUME NEW x \in (b + 1)..(b + n) PROVE x \in UNION {ids[i] : i \in 1..n}
      <4>1. x - b \in 1..n /\ ids[x - b] = {x}
        BY <2>6, <3>1
      <4> QED BY <4>1
    <3>4. ASSUME NEW x \in UNION {ids[i] : i \in 1..n} PROVE x \in (b + 1)..(b + n)
      BY <2>6, <3>2
    <3> QED BY <2>7, <3>3, <3>4
  <2>9. Cardinality(Last(messages).ids) = n
    <3>1. b + 1 \in Int /\ b + n \in Int
      BY ONLY <2>1
    <3>2. Cardinality((b + 1)..(b + n))
            = IF b + 1 > b + n THEN 0 ELSE (b + n) - (b + 1) + 1
      BY ONLY <3>1, FS_Interval
    <3>3. Cardinality((b + 1)..(b + n)) = n
      BY ONLY <2>1, <3>2
    <3> QED BY <2>7, <3>3
  <2>10. \A i, j \in 1..n : i < j => \A x \in ids[i], y \in ids[j] : x < y
    <3> SUFFICES ASSUME NEW i \in 1..n, NEW j \in 1..n, i < j,
                        NEW x \in ids[i], NEW y \in ids[j]
                 PROVE  x < y
      OBVIOUS
    <3>1. x = b + i /\ y = b + j
      BY <2>6
    <3> QED BY <2>1, <3>1
  <2>11. \A i \in DOMAIN pending : pending[i].id <= Len(entries) <=> inFlight /\ i = 1
    <3> TAKE i \in DOMAIN pending
    <3>1. i \in 1..p /\ pending[i].id = a + i
      BY <2>1, <2>3
    <3>2. a + i <= Len(entries) <=> inFlight /\ i = 1
      <4>1. CASE inFlight
        <5>1. a = Len(entries) - 1
          BY <2>1, <4>1
        <5> QED BY <2>1, <3>1, <4>1, <5>1
      <4>2. CASE ~inFlight
        <5>1. a = Len(entries)
          BY <2>1, <4>2
        <5> QED BY <2>1, <3>1, <4>2, <5>1
      <4> QED BY <4>1, <4>2
    <3> QED BY <3>1, <3>2
  <2> QED BY <2>3, <2>8, <2>9, <2>10, <2>11 DEF r, p, n, ids, inFlight
<1> QED BY <1>1, TypeInitially, TypePreserved, CallInitially, CallPreserved, PTL DEF Spec

-----------------------------------------------------------------------------
\* The conversation and its window.

\* s is the end of t.
Ends(s, t) ==
  /\ Len(s) <= Len(t)
  /\ \A i \in 1..Len(s) : t[Len(t) - Len(s) + i] = s[i]

\* A conversation opens on the incident; a summary can only be its second message.
Opens(m) ==
  /\ Len(m) >= 1 => m[1] = IncidentStatement
  /\ \A i \in 1..Len(m) : m[i] = Summary => i = 2

\* A summary that is there stays, and without one the totals agree.
Accounts(m) ==
  /\ reported <= billed
  /\ reported = billed \/ (Len(m) >= 2 /\ m[2] = Summary)

WindowInv ==
  /\ Opens(messages)
  /\ Accounts(messages)
  /\ \A i \in 1..Len(results) : results[i] # Summary
  /\ stage \in {"idle", "connecting", "listing"} =>
       messages = <<>> /\ results = <<>> /\ reported = billed
  /\ stage = "model" =>
       /\ Len(messages) <= EffectiveMax(MaxMessages) + 1
       /\ Len(results) < EffectiveMax(MaxMessages) => Ends(results, messages)
  /\ stage = "summarizing" => Ends(results, messages)

\* A conversation that only grows by messages that are not summaries.
LEMMA OpensLonger ==
  ASSUME NEW m \in Seq(Message), NEW q \in Seq(Message), Len(m) >= 1, Len(q) >= Len(m),
         \A i \in 1..Len(m) : q[i] = m[i],
         \A i \in (Len(m) + 1)..Len(q) : q[i] # Summary,
         Opens(m)
  PROVE  Opens(q) /\ (Len(m) >= 2 /\ m[2] = Summary => Len(q) >= 2 /\ q[2] = Summary)
<1>1. Len(m) \in Nat /\ Len(q) \in Nat
  OBVIOUS
<1>2. \A i \in 1..Len(q) : q[i] = Summary => i \in 1..Len(m) /\ m[i] = Summary
  BY <1>1
<1>3. q[1] = m[1]
  BY <1>1
<1> QED BY <1>1, <1>2, <1>3 DEF Opens

\* Messages other than the summary.
LEMMA NotSummaries ==
  /\ IncidentStatement # Summary
  /\ \A ids : AssistantMessage(ids) # Summary
  /\ \A kind \in AnswerKinds : \A id : Answer(kind, id) # Summary
<1>1. Summary.kind = "summary" /\ IncidentStatement.kind = "user"
  BY DEF Summary, IncidentStatement
<1>2. \A ids : AssistantMessage(ids).kind = "assistant"
  BY DEF AssistantMessage
<1>3. \A kind \in AnswerKinds : \A id : Answer(kind, id).kind = kind /\ kind # "summary"
  BY DEF Answer, AnswerKinds
<1> QED BY <1>1, <1>2, <1>3

\* What pruning keeps: the opening, and the answers of a round that fits.
LEMMA PruneKeeps ==
  ASSUME NEW m \in Seq(Message), NEW s \in Seq(Message), NEW max \in Nat, Len(m) >= 3,
         NeedsPruning(m, max), Opens(m), Ends(s, m)
  PROVE  LET p == Prune(m, max) IN
         /\ Opens(p)
         /\ Len(p) = EffectiveMax(max) + 1 /\ Len(p) >= 2 /\ p[2] = Summary
         /\ Len(s) < EffectiveMax(max) => Ends(s, p)
<1> DEFINE split == Split(m, max)
           size == EffectiveMax(max)
           p == Prune(m, max)
<1>1. /\ size \in Nat /\ size >= 2 /\ split \in Int /\ split >= 2
      /\ split = Len(m) - size + 1
      /\ Len(p) = size + 1 /\ p[1] = m[1] /\ p[2] = Summary
      /\ \A i \in 3..(size + 1) : p[i] = m[split + i - 2]
  BY Pruned
<1>2. Len(m) \in Nat /\ Len(s) \in Nat
  OBVIOUS
<1> HIDE DEF split, size, p
<1>3. Opens(p)
  <2>1. p[1] = IncidentStatement
    BY <1>1, <1>2 DEF Opens
  <2>2. ASSUME NEW i \in 1..Len(p), p[i] = Summary PROVE i = 2
    <3>1. i # 1
      BY <2>1, <2>2, NotSummaries
    <3>2. ASSUME i \in 3..(size + 1) PROVE FALSE
      <4>1. m[split + i - 2] = Summary
        BY <1>1, <2>2, <3>2
      <4>2. split + i - 2 \in 1..Len(m) /\ split + i - 2 # 2
        BY ONLY <1>1, <1>2, <3>2
      <4> QED BY <4>1, <4>2 DEF Opens
    <3>3. i \in 1..(size + 1)
      BY <1>1
    <3> QED BY ONLY <1>1, <3>1, <3>2, <3>3
  <2> QED BY <2>1, <2>2 DEF Opens
<1>4. ASSUME Len(s) < size PROVE Ends(s, p)
  <2>1. ASSUME NEW i \in 1..Len(s) PROVE p[Len(p) - Len(s) + i] = s[i]
    <3>1. /\ Len(p) - Len(s) + i \in 3..(size + 1)
          /\ split + (Len(p) - Len(s) + i) - 2 = Len(m) - Len(s) + i
      BY ONLY <1>1, <1>2, <1>4, i \in 1..Len(s)
    <3>2. m[Len(m) - Len(s) + i] = s[i]
      BY DEF Ends
    <3> QED BY <1>1, <3>1, <3>2
  <2>2. Len(s) <= Len(p)
    BY ONLY <1>1, <1>2, <1>4
  <2> QED BY <2>1, <2>2 DEF Ends
<1> QED BY <1>1, <1>3, <1>4 DEF p, size

\* No step breaks the window.
LEMMA WindowPreserved == TypeInv /\ TypeInv' /\ WindowInv /\ [Next]_vars => WindowInv'
<1> SUFFICES ASSUME TypeInv, TypeInv', WindowInv, [Next]_vars PROVE WindowInv'
  OBVIOUS
<1>0. TypeOK /\ ShapeInv /\ MaxMessages \in Nat
  BY ToolLoopAssumption DEF TypeInv
<1>a. /\ messages \in Seq(Message) /\ messages' \in Seq(Message)
      /\ results \in Seq(Message) /\ results' \in Seq(Message)
      /\ Len(messages) \in Nat /\ Len(results) \in Nat
      /\ reported \in Nat /\ billed \in Nat
  <2>1. messages' \in Seq(Message) /\ results' \in Seq(Message)
    BY DEF TypeInv, TypeOK
  <2> QED BY <1>0, <2>1, Typed
<1>b. UsageOf \subseteq Nat /\ SummaryUsage \subseteq Nat
  BY ToolLoopAssumption
<1>1. CASE UNCHANGED <<stage, messages, results, reported, billed>>
  BY <1>1 DEF WindowInv, Accounts
<1>2. CASE /\ UNCHANGED <<messages, results, reported, billed>>
           /\ stage' \in {"calls", "awaiting", "returned", "raised"}
  BY <1>2 DEF WindowInv, Accounts
<1>3. CASE Quiet
  <2>1. CASE Aborts
    BY <1>2, <2>1, AbortsRaise
  <2>2. CASE Connected \/ (\E base \in BaseSteps : Begin(base))
    <3>1. /\ stage \in {"idle", "connecting"} /\ stage' \in {"connecting", "listing"}
          /\ UNCHANGED <<messages, results, reported, billed>>
      BY <2>2 DEF Connected, Begin
    <3> QED BY <3>1 DEF WindowInv, Accounts
  <2>3. CASE Wait \/ UNCHANGED vars
    BY <1>1, <2>3 DEF Wait, vars
  <2>4. ASSUME NEW usage \in UsageOf, NEW text \in BOOLEAN, ModelAnswers(usage, text)
        PROVE  WindowInv'
    <3>1. /\ stage' = "returned" /\ UNCHANGED <<messages, results>>
          /\ reported' = reported + usage /\ billed' = billed + usage /\ usage \in Nat
      BY <1>b, <2>4 DEF ModelAnswers
    <3>2. Accounts(messages)'
      <4>1. Accounts(messages)
        BY DEF WindowInv
      <4> QED BY <1>a, <3>1, <4>1 DEF Accounts
    <3> QED BY <3>1, <3>2 DEF WindowInv, Accounts
  <2> QED BY <1>3, <2>1, <2>2, <2>3, <2>4 DEF Quiet
<1>4. CASE ToolsListed
  <2>1. /\ stage = "listing" /\ stage' = "model" /\ messages' = <<IncidentStatement>>
        /\ UNCHANGED <<results, reported, billed>>
    BY <1>4 DEF ToolsListed
  <2>2. results = <<>> /\ reported = billed
    BY <2>1 DEF WindowInv
  <2>3. Len(messages') = 1 /\ messages'[1] = IncidentStatement
    BY <2>1
  <2>4. /\ Len(results') = 0
        /\ 1 <= EffectiveMax(MaxMessages) + 1
    <3>1. EffectiveMax(MaxMessages) \in Nat
      BY <1>0 DEF EffectiveMax, MinEffectiveMax
    <3>2. Len(<<>>) = 0
      BY EmptySeq
    <3> QED BY <2>1, <2>2, <3>1, <3>2
  <2>5. Opens(messages)'
    BY <2>3, NotSummaries DEF Opens
  <2>6. Ends(results, messages)'
    BY <2>3, <2>4 DEF Ends
  <2>7. Accounts(messages)'
    BY <1>a, <2>1, <2>2 DEF Accounts
  <2> QED BY <2>1, <2>3, <2>4, <2>5, <2>6, <2>7 DEF WindowInv
<1>5. ASSUME NEW usage \in UsageOf, NEW text \in BOOLEAN, NEW requests \in CallBatches,
             ModelCalls(usage, text, requests)
      PROVE  WindowInv'
  <2>1. /\ stage = "model" /\ stage' = "calls" /\ results' = <<>>
        /\ Len(messages') = Len(messages) + 1
        /\ \A i \in 1..Len(messages) : messages'[i] = messages[i]
        /\ \E ids : messages'[Len(messages) + 1] = AssistantMessage(ids)
        /\ usage \in Nat /\ reported' = reported + usage /\ billed' = billed + usage
    BY ONLY <1>0, <1>5, AsksForTools
  <2>2. Len(messages) >= 1
    BY <1>0, <2>1 DEF ShapeInv
  <2>3. \A i \in (Len(messages) + 1)..Len(messages') : messages'[i] # Summary
    <3>1. \A i \in (Len(messages) + 1)..Len(messages') : i = Len(messages) + 1
      BY <1>a, <2>1
    <3>2. messages'[Len(messages) + 1] # Summary
      BY <2>1, NotSummaries
    <3> QED BY <3>1, <3>2
  <2>4. /\ Opens(messages')
        /\ Len(messages) >= 2 /\ messages[2] = Summary =>
             Len(messages') >= 2 /\ messages'[2] = Summary
    <3>1. Opens(messages) /\ Len(messages') >= Len(messages)
      BY <1>a, <2>1 DEF WindowInv
    <3> QED BY ONLY <1>a, <2>1, <2>2, <2>3, <3>1, OpensLonger
  <2>5. Accounts(messages)'
    <3>1. Accounts(messages)
      BY DEF WindowInv
    <3> QED BY <1>a, <2>1, <2>4, <3>1 DEF Accounts
  <2>6. Len(results') = 0
    BY <2>1
  <2> QED BY <2>1, <2>4, <2>5, <2>6 DEF WindowInv, Opens
<1>6. CASE RejectCall \/ ToolReplies
  <2>1. /\ stage \in {"calls", "awaiting"} /\ stage' = "calls" /\ pending # <<>>
        /\ pending' = Tail(pending)
        /\ \E kind \in AnswerKinds : results' = Append(results, Answer(kind, Head(pending).id))
        /\ UNCHANGED <<messages, reported, billed>>
    BY <1>0, <1>6 DEF RejectCall, ToolReplies, ShapeInv, AnswerKinds
  <2>2. \A i \in 1..Len(results') : results'[i] # Summary
    <3>1. PICK kind \in AnswerKinds : results' = Append(results, Answer(kind, Head(pending).id))
      BY <2>1
    <3>2. /\ Len(results') = Len(results) + 1
          /\ results'[Len(results) + 1] = Answer(kind, pending[1].id)
          /\ \A i \in 1..Len(results) : results'[i] = results[i]
      BY ONLY <1>0, <2>1, <3>1, AnswerTyped
    <3>3. results'[Len(results) + 1] # Summary
      BY <3>2, NotSummaries
    <3>4. \A i \in 1..Len(results) : results[i] # Summary
      BY DEF WindowInv
    <3>5. \A i \in 1..Len(results') : i = Len(results) + 1 \/ i \in 1..Len(results)
      BY <1>a, <3>2
    <3> QED BY <3>2, <3>3, <3>4, <3>5
  <2> QED BY <2>1, <2>2 DEF WindowInv, Accounts
<1>7. CASE CallTool
  BY <1>2, <1>7 DEF CallTool
<1>8. CASE EndRound
  <2>1. /\ stage = "calls" /\ pending = <<>>
        /\ stage' = IF NeedsPruning(messages', MaxMessages) THEN "summarizing" ELSE "model"
        /\ UNCHANGED <<results, reported, billed>>
    BY <1>8 DEF EndRound
  <2>2. /\ Len(messages') = Len(messages) + Len(results)
        /\ \A i \in 1..Len(messages) : messages'[i] = messages[i]
        /\ \A i \in 1..Len(results) : messages'[Len(messages) + i] = results[i]
    BY <1>0, <1>8, RoundJoins
  <2>3. Len(messages) >= 2 /\ Len(results) >= 1
    <3>1. Len(messages) >= 2 /\ Len(results) + Len(pending) >= 1 /\ Len(pending) = 0
      BY <1>0, <2>1, EmptySeq DEF ShapeInv
    <3> QED BY <1>a, <3>1
  <2>4. \A i \in (Len(messages) + 1)..Len(messages') : messages'[i] # Summary
    <3>1. \A i \in 1..Len(results) : results[i] # Summary
      BY DEF WindowInv
    <3> TAKE i \in (Len(messages) + 1)..Len(messages')
    <3>2. i - Len(messages) \in 1..Len(results) /\ Len(messages) + (i - Len(messages)) = i
      BY <1>a, <2>2
    <3> QED BY <2>2, <3>1, <3>2
  <2>5. /\ Opens(messages')
        /\ Len(messages) >= 2 /\ messages[2] = Summary =>
             Len(messages') >= 2 /\ messages'[2] = Summary
    <3>1. Opens(messages) /\ Len(messages') >= Len(messages) /\ Len(messages) >= 1
      BY <1>a, <2>2, <2>3 DEF WindowInv
    <3> QED BY ONLY <1>a, <2>2, <2>4, <3>1, OpensLonger
  <2>6. Ends(results, messages)'
    <3>1. /\ Len(results) <= Len(messages')
          /\ Len(messages') - Len(results) = Len(messages)
      BY ONLY <1>a, <2>2
    <3> QED BY <2>1, <2>2, <3>1 DEF Ends
  <2>7. Accounts(messages)'
    <3>1. Accounts(messages)
      BY DEF WindowInv
    <3> QED BY <1>a, <2>1, <2>5, <3>1 DEF Accounts
  <2>8. stage' = "model" => Len(messages') <= EffectiveMax(MaxMessages) + 1
    <3>1. Len(messages') >= 3
      BY <1>a, <2>2, <2>3
    <3>2. /\ EffectiveMax(MaxMessages) \in Nat
          /\ ~NeedsPruning(messages', MaxMessages) => Len(messages') <= EffectiveMax(MaxMessages)
      BY ONLY <1>0, <1>a, <3>1, Pruned
    <3>3. Len(messages') \in Nat
      BY <1>a
    <3> QED BY <2>1, <3>2, <3>3
  <2> QED BY <2>1, <2>5, <2>6, <2>7, <2>8 DEF WindowInv, Opens
<1>9. ASSUME NEW usage \in SummaryUsage, Summarized(usage) PROVE WindowInv'
  <2>1. /\ stage = "summarizing" /\ stage' = "model"
        /\ messages' = Prune(messages, MaxMessages)
        /\ billed' = billed + usage /\ usage \in Nat
        /\ UNCHANGED <<results, reported>>
    BY <1>b, <1>9 DEF Summarized
  <2>2. /\ Len(messages) >= 3 /\ NeedsPruning(messages, MaxMessages)
        /\ Opens(messages) /\ Ends(results, messages)
    BY <1>0, <2>1 DEF ShapeInv, WindowInv
  <2>3. LET q == Prune(messages, MaxMessages) IN
        /\ Opens(q)
        /\ Len(q) = EffectiveMax(MaxMessages) + 1 /\ Len(q) >= 2 /\ q[2] = Summary
        /\ Len(results) < EffectiveMax(MaxMessages) => Ends(results, q)
    BY ONLY <1>0, <1>a, <2>2, PruneKeeps
  <2>4. EffectiveMax(MaxMessages) \in Nat
    BY <1>0 DEF EffectiveMax, MinEffectiveMax
  <2>5. Accounts(messages)'
    <3>1. reported <= billed
      BY DEF WindowInv, Accounts
    <3> QED BY <1>a, <2>1, <2>3, <3>1 DEF Accounts
  <2>6. \A i \in 1..Len(results') : results'[i] # Summary
    BY <2>1 DEF WindowInv
  <2>7. /\ Opens(messages)'
        /\ Len(messages') <= EffectiveMax(MaxMessages) + 1
        /\ Len(results') < EffectiveMax(MaxMessages) => Ends(results, messages)'
    BY <2>1, <2>3, <2>4 DEF Opens, Ends
  <2> QED BY <2>1, <2>5, <2>6, <2>7 DEF WindowInv
<1> QED BY <1>3, <1>4, <1>5, <1>6, <1>7, <1>8, <1>9, Steps

\* Before the first request there is nothing to bound.
LEMMA WindowInitially == Init => WindowInv
BY EmptySeq DEF Init, WindowInv, Opens, Accounts

\* Both invariants, of every state.
LEMMA WindowHolds == Spec => [](TypeInv /\ WindowInv)
BY TypeInitially, TypePreserved, WindowInitially, WindowPreserved, PTL DEF Spec

\* A request holds at most one message more than the window, opens on the incident,
\* and has one summary at most, right after it, however often it was pruned.
THEOREM WindowIsBounded == Spec => []WindowBound
<1>1. TypeInv /\ WindowInv => WindowBound
  <2> SUFFICES ASSUME TypeInv, WindowInv PROVE WindowBound
    OBVIOUS
  <2>1. DOMAIN messages = 1..Len(messages)
    BY Typed DEF TypeInv
  <2> QED BY <2>1 DEF TypeInv, ShapeInv, WindowInv, Opens, WindowBound
<1> QED BY <1>1, WindowHolds, PTL

\* The tokens a turn reports are those it was billed, as long as nothing was summarised.
THEOREM SummariesAlone == Spec => []OnlySummariesUncounted
<1>1. TypeInv /\ WindowInv => OnlySummariesUncounted
  <2> SUFFICES ASSUME TypeInv, WindowInv PROVE OnlySummariesUncounted
    OBVIOUS
  <2>1. DOMAIN messages = 1..Len(messages) /\ Len(messages) \in Nat
    BY Typed DEF TypeInv
  <2>2. Len(messages) >= 2 /\ messages[2] = Summary =>
          \E i \in DOMAIN messages : messages[i] = Summary
    BY <2>1
  <2> QED BY <2>2 DEF WindowInv, Accounts, OnlySummariesUncounted
<1> QED BY <1>1, WindowHolds, PTL

\* A sequence whose last elements are those of another ends on it.
LEMMA EndsIsSuffix ==
  ASSUME NEW S, NEW s \in Seq(S), NEW t \in Seq(S), Ends(s, t)
  PROVE  IsSuffix(s, t)
<1> DEFINE n == Len(s)  l == Len(t)  u == Reverse(s)  v == Reverse(t)
<1>1. n \in Nat /\ l \in Nat /\ n <= l
  BY DEF Ends
<1>2. \A i \in 1..n : s[i] \in S
  BY ElementOfSeq
<1>3. \A i \in 1..l : t[i] \in S
  BY ElementOfSeq
<1>4. /\ u \in Seq(S) /\ Len(u) = n
      /\ \A i \in 1..n : u[i] = s[n - i + 1]
  <2>1. \A i \in 1..n : s[(n - i) + 1] \in S
    BY <1>1, <1>2
  <2>2. u = [i \in 1..n |-> s[(n - i) + 1]]
    BY DEF Reverse
  <2> HIDE DEF u, n
  <2>3. u \in [1..n -> S]
    BY <2>1, <2>2
  <2> QED BY <1>1, <2>2, <2>3
<1>5. /\ v \in Seq(S) /\ Len(v) = l
      /\ \A i \in 1..l : v[i] = t[l - i + 1]
  <2>1. \A i \in 1..l : t[(l - i) + 1] \in S
    BY <1>1, <1>3
  <2>2. v = [i \in 1..l |-> t[(l - i) + 1]]
    BY DEF Reverse
  <2> HIDE DEF v, l
  <2>3. v \in [1..l -> S]
    BY <2>1, <2>2
  <2> QED BY <1>1, <2>2, <2>3
<1>6. \A i \in 1..n : t[l - n + i] = s[i]
  BY DEF Ends
<1> HIDE DEF n, l, u, v
<1>7. \A i \in 1..n : u[i] = v[i]
  <2> TAKE i \in 1..n
  <2>1. /\ n - i + 1 \in 1..n /\ i \in 1..l
        /\ l - n + (n - i + 1) = l - i + 1
    BY ONLY <1>1, i \in 1..n
  <2>2. t[l - n + (n - i + 1)] = s[n - i + 1]
    BY <1>6, <2>1
  <2> QED BY <1>4, <1>5, <2>1, <2>2
<1>8. SubSeq(u, 1, n) = SubSeq(v, 1, n)
  <2>1. \A i \in 1..n : u[i] \in S /\ v[i] \in S
    BY <1>1, <1>4, <1>5, <1>7, ElementOfSeq
  <2>2. /\ SubSeq(u, 1, n) \in Seq(S)
        /\ Len(SubSeq(u, 1, n)) = IF 1 <= n THEN n - 1 + 1 ELSE 0
        /\ \A i \in 1..(n - 1 + 1) : SubSeq(u, 1, n)[i] = u[1 + i - 1]
    BY <1>1, <2>1, SubSeqProperties
  <2>3. /\ SubSeq(v, 1, n) \in Seq(S)
        /\ Len(SubSeq(v, 1, n)) = IF 1 <= n THEN n - 1 + 1 ELSE 0
        /\ \A i \in 1..(n - 1 + 1) : SubSeq(v, 1, n)[i] = v[1 + i - 1]
    BY <1>1, <2>1, SubSeqProperties
  <2>4. /\ Len(SubSeq(u, 1, n)) = n /\ Len(SubSeq(v, 1, n)) = n
        /\ \A i \in 1..n : SubSeq(u, 1, n)[i] = u[i] /\ SubSeq(v, 1, n)[i] = v[i]
    BY <1>1, <2>2, <2>3
  <2> DEFINE x == SubSeq(u, 1, n)  y == SubSeq(v, 1, n)
  <2>5. /\ x \in Seq(S) /\ y \in Seq(S) /\ Len(x) = Len(y)
        /\ \A i \in 1..Len(x) : x[i] = y[i]
    BY <1>7, <2>2, <2>3, <2>4
  <2> HIDE DEF x, y
  <2>6. x = y
    BY ONLY <2>5, SeqEqual
  <2> QED BY <2>6 DEF x, y
<1> QED BY <1>1, <1>4, <1>5, <1>8 DEF u, v, IsSuffix, IsPrefix

\* The answers of a round that fits in the window are the end of the next request:
\* they reach the model before any pruning takes them.
THEOREM AnswersReachModel == Spec => []FreshAnswersReachModel
<1>1. TypeInv /\ WindowInv => FreshAnswersReachModel
  <2> SUFFICES ASSUME TypeInv, WindowInv, stage = "model",
                      Len(results) < EffectiveMax(MaxMessages)
               PROVE  IsSuffix(results, messages)
    BY DEF FreshAnswersReachModel
  <2>1. messages \in Seq(Message) /\ results \in Seq(Message)
    BY Typed DEF TypeInv
  <2>2. Ends(results, messages)
    BY DEF WindowInv
  <2> QED BY ONLY <2>1, <2>2, EndsIsSuffix
<1> QED BY <1>1, WindowHolds, PTL

-----------------------------------------------------------------------------
\* When a request is one that the provider takes.

\* What a conversation holds after its incident and summary.
BodyKinds == {"assistant"} \cup AnswerKinds

\* A turn of answers, position by position.
LEMMA InTurn ==
  ASSUME NEW m, NEW i, NEW j
  PROVE  j \in AnswerTurn(m, i) <=>
           /\ j \in (i + 1)..Len(m)
           /\ \A k \in (i + 1)..j : m[k].kind \in AnswerKinds
BY DEF AnswerTurn

\* A well-paired conversation, a response and the answers to all its calls make a
\* well-paired conversation.
LEMMA RoundIsPaired ==
  ASSUME NEW m \in Seq(Message), NEW q \in Seq(Message), NEW r \in Seq(Message),
         Len(m) = Len(q) + 1 + Len(r),
         \A i \in 1..Len(q) : m[i] = q[i],
         m[Len(q) + 1].kind = "assistant",
         \A i \in 1..Len(r) : m[Len(q) + 1 + i] = r[i],
         \A i \in 1..Len(r) : r[i].kind \in AnswerKinds,
         m[Len(q) + 1].ids = UNION {r[i].ids : i \in 1..Len(r)},
         Accepted(q)
  PROVE  Accepted(m)
<1> DEFINE n == Len(q) + 1
<1>1. /\ Len(m) \in Nat /\ Len(q) \in Nat /\ Len(r) \in Nat
      /\ n \in Nat /\ n >= 1 /\ n - 1 = Len(q) /\ Len(m) = n + Len(r)
      /\ DOMAIN m = 1..Len(m) /\ DOMAIN q = 1..Len(q)
  OBVIOUS
<1>2. \A i \in 1..(n - 1) : m[i] = q[i]
  BY <1>1
<1>3. "assistant" \notin AnswerKinds
  BY DEF AnswerKinds
<1>4. \A i \in (n + 1)..Len(m) : m[i] = r[i - n] /\ m[i].kind \in AnswerKinds
  <2> TAKE i \in (n + 1)..Len(m)
  <2>1. i - n \in 1..Len(r) /\ n + (i - n) = i
    BY <1>1
  <2> QED BY <2>1
<1>5. m[n].kind = "assistant" /\ m[n].ids = UNION {r[i].ids : i \in 1..Len(r)}
  OBVIOUS
<1> HIDE DEF n
<1>6. \A i \in 1..(n - 1) : AnswerTurn(m, i) = AnswerTurn(q, i)
  <2> TAKE i \in 1..(n - 1)
  <2>1. ASSUME NEW j \in AnswerTurn(m, i) PROVE j \in AnswerTurn(q, i)
    <3>1. j \in (i + 1)..Len(m) /\ \A k \in (i + 1)..j : m[k].kind \in AnswerKinds
      BY <2>1, InTurn
    <3>2. ~(n <= j)
      <4> SUFFICES ASSUME n <= j PROVE FALSE
        OBVIOUS
      <4>1. n \in (i + 1)..j
        BY <1>1, <3>1
      <4> QED BY <1>3, <1>5, <3>1, <4>1
    <3>3. j \in (i + 1)..Len(q)
      BY <1>1, <3>1, <3>2
    <3>4. \A k \in (i + 1)..j : q[k].kind \in AnswerKinds
      <4> TAKE k \in (i + 1)..j
      <4>1. k \in 1..(n - 1)
        BY <1>1, <3>3
      <4> QED BY <1>2, <3>1, <4>1
    <3> QED BY <3>3, <3>4, InTurn
  <2>2. ASSUME NEW j \in AnswerTurn(q, i) PROVE j \in AnswerTurn(m, i)
    <3>1. j \in (i + 1)..Len(q) /\ \A k \in (i + 1)..j : q[k].kind \in AnswerKinds
      BY <2>2, InTurn
    <3>2. j \in (i + 1)..Len(m)
      BY <1>1, <3>1
    <3>3. \A k \in (i + 1)..j : m[k].kind \in AnswerKinds
      <4> TAKE k \in (i + 1)..j
      <4>1. k \in 1..(n - 1)
        BY <1>1, <3>1
      <4> QED BY <1>2, <3>1, <4>1
    <3> QED BY <3>2, <3>3, InTurn
  <2> QED BY <2>1, <2>2
<1>7. AnswerTurn(m, n) = (n + 1)..Len(m)
  <2>1. ASSUME NEW j \in (n + 1)..Len(m) PROVE j \in AnswerTurn(m, n)
    <3>1. \A k \in (n + 1)..j : k \in (n + 1)..Len(m)
      BY <1>1
    <3> QED BY <1>4, <3>1, InTurn
  <2>2. ASSUME NEW j \in AnswerTurn(m, n) PROVE j \in (n + 1)..Len(m)
    BY <2>2, InTurn
  <2> QED BY <2>1, <2>2
<1>8. UNION {m[j].ids : j \in AnswerTurn(m, n)} = m[n].ids
  <2>1. {m[j].ids : j \in (n + 1)..Len(m)} = {r[i].ids : i \in 1..Len(r)}
    <3>1. ASSUME NEW j \in (n + 1)..Len(m) PROVE \E i \in 1..Len(r) : m[j].ids = r[i].ids
      <4>1. j - n \in 1..Len(r)
        BY <1>1
      <4> QED BY <1>4, <4>1
    <3>2. ASSUME NEW i \in 1..Len(r) PROVE \E j \in (n + 1)..Len(m) : r[i].ids = m[j].ids
      <4>1. n + i \in (n + 1)..Len(m) /\ (n + i) - n = i
        BY <1>1
      <4>2. m[n + i] = r[i]
        BY <1>4, <4>1
      <4> QED BY <4>1, <4>2
    <3> DEFINE S == (n + 1)..Len(m)
               T == 1..Len(r)
    <3>3. /\ \A j \in S : \E i \in T : m[j].ids = r[i].ids
          /\ \A i \in T : \E j \in S : r[i].ids = m[j].ids
      BY <3>1, <3>2
    <3> HIDE DEF S, T
    <3>4. {m[j].ids : j \in S} = {r[i].ids : i \in T}
      BY ONLY <3>3
    <3> QED BY <3>4 DEF S, T
  <2> QED BY <1>5, <1>7, <2>1
<1>9. ASSUME NEW i \in 1..Len(m)
      PROVE  /\ m[i].kind = "assistant" =>
                  UNION {m[j].ids : j \in AnswerTurn(m, i)} = m[i].ids
             /\ m[i].kind \in AnswerKinds =>
                  \E u \in 1..(i - 1) : m[u].kind = "assistant" /\ i \in AnswerTurn(m, u)
  <2>1. CASE i \in 1..(n - 1)
    <3>1. m[i] = q[i] /\ AnswerTurn(m, i) = AnswerTurn(q, i)
      BY <1>2, <1>6, <2>1
    <3>2. \A j \in AnswerTurn(q, i) : m[j] = q[j]
      <4> TAKE j \in AnswerTurn(q, i)
      <4>1. j \in (i + 1)..Len(q)
        BY InTurn
      <4>2. j \in 1..(n - 1)
        BY <1>1, <4>1
      <4> QED BY <1>2, <4>2
    <3>3. {m[j].ids : j \in AnswerTurn(m, i)} = {q[j].ids : j \in AnswerTurn(q, i)}
      BY <3>1, <3>2
    <3>4. /\ q[i].kind = "assistant" =>
               UNION {q[j].ids : j \in AnswerTurn(q, i)} = q[i].ids
          /\ q[i].kind \in AnswerKinds =>
               \E u \in 1..(i - 1) : q[u].kind = "assistant" /\ i \in AnswerTurn(q, u)
      <4>1. i \in DOMAIN q
        BY <1>1, <2>1
      <4> QED BY <4>1 DEF Accepted
    <3>5. ASSUME NEW u \in 1..(i - 1), q[u].kind = "assistant", i \in AnswerTurn(q, u)
          PROVE  m[u].kind = "assistant" /\ i \in AnswerTurn(m, u)
      <4>1. u \in 1..(n - 1)
        BY <1>1, <2>1
      <4> QED BY <1>2, <1>6, <3>5, <4>1
    <3> QED BY <3>1, <3>3, <3>4, <3>5
  <2>2. CASE i = n
    BY <1>3, <1>5, <1>8, <2>2
  <2>3. CASE i \in (n + 1)..Len(m)
    <3>1. n \in 1..(i - 1)
      BY <1>1, <2>3
    <3>2. m[i].kind \in AnswerKinds /\ i \in AnswerTurn(m, n)
      BY <1>4, <1>7, <2>3
    <3> QED BY <1>3, <1>5, <3>1, <3>2
  <2> QED BY <1>1, <2>1, <2>2, <2>3
<1> QED BY <1>1, <1>9 DEF Accepted

\* The tail that prune keeps, d messages from the beginning, has the turns of
\* answers it had.
LEMMA TurnsShift ==
  ASSUME NEW m, NEW p, NEW d \in Nat, Len(p) \in Nat, Len(m) = Len(p) + d,
         \A j \in 3..Len(p) : p[j] = m[j + d],
         NEW i \in 2..Len(p)
  PROVE  /\ \A j \in AnswerTurn(p, i) : j \in 3..Len(p) /\ j + d \in AnswerTurn(m, i + d)
         /\ \A j \in AnswerTurn(m, i + d) : j - d \in 3..Len(p) /\ j - d \in AnswerTurn(p, i)
<1>1. ASSUME NEW j \in AnswerTurn(p, i)
      PROVE  j \in 3..Len(p) /\ j + d \in AnswerTurn(m, i + d)
  <2>1. j \in (i + 1)..Len(p) /\ \A k \in (i + 1)..j : p[k].kind \in AnswerKinds
    BY <1>1, InTurn
  <2>2. j + d \in ((i + d) + 1)..Len(m)
    BY <2>1
  <2>3. \A k \in ((i + d) + 1)..(j + d) : m[k].kind \in AnswerKinds
    <3> TAKE k \in ((i + d) + 1)..(j + d)
    <3>1. k - d \in (i + 1)..j /\ k - d \in 3..Len(p) /\ (k - d) + d = k
      BY <2>1
    <3>2. p[k - d] = m[k]
      BY <3>1
    <3> QED BY <2>1, <3>1, <3>2
  <2> QED BY <2>1, <2>2, <2>3, InTurn
<1>2. ASSUME NEW j \in AnswerTurn(m, i + d)
      PROVE  j - d \in 3..Len(p) /\ j - d \in AnswerTurn(p, i)
  <2>1. /\ j \in ((i + d) + 1)..Len(m)
        /\ \A k \in ((i + d) + 1)..j : m[k].kind \in AnswerKinds
    BY <1>2, InTurn
  <2>2. j - d \in (i + 1)..Len(p) /\ j - d \in 3..Len(p)
    BY <2>1
  <2>3. \A k \in (i + 1)..(j - d) : p[k].kind \in AnswerKinds
    <3> TAKE k \in (i + 1)..(j - d)
    <3>1. k + d \in ((i + d) + 1)..j /\ k \in 3..Len(p)
      BY <2>1
    <3> QED BY <2>1, <3>1
  <2> QED BY <2>2, <2>3, InTurn
<1> QED BY <1>1, <1>2

\* A well-paired conversation stays so exactly when what is kept opens on a response.
LEMMA CutIsAligned ==
  ASSUME NEW m \in Seq(Message), NEW max \in Nat, Len(m) >= 3, NeedsPruning(m, max),
         m[1].kind = "user", \A i \in 3..Len(m) : m[i].kind \in BodyKinds,
         Accepted(m)
  PROVE  Accepted(Prune(m, max)) <=> m[Split(m, max) + 1].kind = "assistant"
<1> DEFINE split == Split(m, max)
           p == Prune(m, max)
           d == split - 2
<1>1. /\ EffectiveMax(max) \in Nat /\ EffectiveMax(max) >= 2
      /\ split \in Int /\ split >= 2 /\ split = Len(m) - EffectiveMax(max) + 1
      /\ p \in Seq(Message) /\ Len(p) = EffectiveMax(max) + 1
      /\ p[1] = m[1] /\ p[2] = Summary
      /\ \A i \in 3..(EffectiveMax(max) + 1) : p[i] = m[split + i - 2]
  BY Pruned
<1> HIDE DEF split, p
<1>2. /\ Len(m) \in Nat /\ DOMAIN m = 1..Len(m) /\ DOMAIN p = 1..Len(p)
  BY <1>1
<1>3. /\ d \in Nat /\ Len(p) \in Nat /\ Len(p) >= 3 /\ Len(m) = Len(p) + d
      /\ split + 1 = 3 + d
  BY <1>1, <1>2
<1>4. \A j \in 3..Len(p) : p[j] = m[j + d]
  <2> TAKE j \in 3..Len(p)
  <2>1. j \in 3..(EffectiveMax(max) + 1) /\ split + j - 2 = j + d
    BY <1>1
  <2> QED BY <1>1, <2>1
<1> HIDE DEF d
<1>5. p[1].kind = "user" /\ p[2].kind = "summary"
  BY <1>1 DEF Summary
<1>6. p[3] = m[split + 1]
  BY <1>3, <1>4
<1>7. ASSUME Accepted(p) PROVE m[split + 1].kind = "assistant"
  <2>1. m[split + 1].kind \in BodyKinds
    <3>1. split + 1 \in 3..Len(m)
      BY <1>3
    <3> QED BY <3>1
  <2>2. p[3].kind \notin AnswerKinds
    <3> SUFFICES ASSUME p[3].kind \in AnswerKinds PROVE FALSE
      OBVIOUS
    <3>1. 3 \in DOMAIN p
      BY <1>2, <1>3
    <3>2. \E u \in 1..(3 - 1) : p[u].kind = "assistant"
      BY <1>7, <3>1 DEF Accepted
    <3>3. \A u \in 1..(3 - 1) : u = 1 \/ u = 2
      OBVIOUS
    <3> QED BY <1>5, <3>2, <3>3
  <2> QED BY <1>6, <2>1, <2>2 DEF BodyKinds
<1>8. ASSUME m[split + 1].kind = "assistant" PROVE Accepted(p)
  <2>1. ASSUME NEW i \in 1..Len(p), p[i].kind = "assistant"
        PROVE  UNION {p[j].ids : j \in AnswerTurn(p, i)} = p[i].ids
    <3>1. i \in 3..Len(p) /\ i \in 2..Len(p) /\ i + d \in 1..Len(m)
      <4>1. i # 1 /\ i # 2
        BY <1>5, <2>1
      <4> QED BY <1>3, <4>1
    <3>2. p[i] = m[i + d]
      BY <1>4, <3>1
    <3>3. UNION {m[j].ids : j \in AnswerTurn(m, i + d)} = m[i + d].ids
      BY <1>2, <2>1, <3>1, <3>2 DEF Accepted
    <3>4. /\ \A j \in AnswerTurn(p, i) : j \in 3..Len(p) /\ j + d \in AnswerTurn(m, i + d)
          /\ \A j \in AnswerTurn(m, i + d) : j - d \in 3..Len(p) /\ j - d \in AnswerTurn(p, i)
      BY ONLY <1>3, <1>4, <3>1, TurnsShift
    <3>5. {p[j].ids : j \in AnswerTurn(p, i)} = {m[j].ids : j \in AnswerTurn(m, i + d)}
      <4>1. ASSUME NEW j \in AnswerTurn(p, i)
            PROVE  \E k \in AnswerTurn(m, i + d) : p[j].ids = m[k].ids
        BY <1>4, <3>4
      <4>2. ASSUME NEW k \in AnswerTurn(m, i + d)
            PROVE  \E j \in AnswerTurn(p, i) : m[k].ids = p[j].ids
        <5>1. k - d \in 3..Len(p) /\ k - d \in AnswerTurn(p, i)
          BY <3>4
        <5>2. k \in Int
          BY InTurn
        <5>3. (k - d) + d = k
          BY <1>3, <5>2
        <5>4. p[k - d] = m[k]
          BY <1>4, <5>1, <5>3
        <5> QED BY <5>1, <5>4
      <4> QED BY <4>1, <4>2
    <3> QED BY <3>2, <3>3, <3>5
  <2>2. ASSUME NEW i \in 1..Len(p), p[i].kind \in AnswerKinds
        PROVE  \E u \in 1..(i - 1) : p[u].kind = "assistant" /\ i \in AnswerTurn(p, u)
    <3>1. i \in 4..Len(p) /\ i \in 3..Len(p)
      <4>1. p[1].kind \notin AnswerKinds /\ p[2].kind \notin AnswerKinds /\ p[3].kind \notin AnswerKinds
        BY <1>5, <1>6, <1>8 DEF AnswerKinds
      <4>2. i # 1 /\ i # 2 /\ i # 3
        BY <2>2, <4>1
      <4> QED BY <1>3, <4>2
    <3>2. p[i] = m[i + d] /\ i + d \in 1..Len(m)
      BY <1>3, <1>4, <3>1
    <3>3. PICK v \in 1..((i + d) - 1) : m[v].kind = "assistant" /\ i + d \in AnswerTurn(m, v)
      BY <1>2, <2>2, <3>2 DEF Accepted
    <3>4. \A k \in (v + 1)..(i + d) : m[k].kind \in AnswerKinds
      BY <3>3, InTurn
    <3>5. ~(v < split + 1)
      <4> SUFFICES ASSUME v < split + 1 PROVE FALSE
        OBVIOUS
      <4>0. v < split + 1
        OBVIOUS
      <4>1. split + 1 \in (v + 1)..(i + d)
        <5>1. v \in Int /\ i \in Int /\ i >= 4 /\ split \in Int /\ d \in Int
          BY <1>1, <1>3, <3>1
        <5> QED BY ONLY <1>3, <4>0, <5>1
      <4>2. "assistant" \notin AnswerKinds
        BY DEF AnswerKinds
      <4> QED BY <1>8, <3>4, <4>1, <4>2
    <3>6. v - d \in 3..Len(p) /\ v - d \in 2..Len(p) /\ v - d \in 1..(i - 1) /\ (v - d) + d = v
      BY <1>1, <1>3, <3>1, <3>5, SMTT(30)
    <3>7. p[v - d] = m[v]
      BY <1>4, <3>6
    <3>8. (i + d) - d = i
      BY <1>3
    <3>9. i \in AnswerTurn(p, v - d)
      <4>1. \A j \in AnswerTurn(m, (v - d) + d) : j - d \in 3..Len(p) /\ j - d \in AnswerTurn(p, v - d)
        BY ONLY <1>3, <1>4, <3>6, TurnsShift
      <4> QED BY <3>3, <3>6, <3>8, <4>1
    <3> QED BY <3>3, <3>6, <3>7, <3>9
  <2> QED BY <1>2, <2>1, <2>2 DEF Accepted
<1> QED BY <1>7, <1>8 DEF split, p

-----------------------------------------------------------------------------
\* The pairing of a turn's conversation.

\* What is well paired: a request without a summary, and what precedes a response
\* whose calls are being processed, for the request was taken. The rest are its kinds.
PairInv ==
  /\ \A i \in 1..Len(results) : results[i].kind \in AnswerKinds
  /\ \A i \in 3..Len(messages) : messages[i].kind \in BodyKinds
  /\ stage = "model" => Accepted(messages) \/ (Len(messages) >= 2 /\ messages[2] = Summary)
  /\ stage \in {"calls", "awaiting"} =>
       /\ messages[Len(messages)].kind = "assistant"
       /\ \E q \in Seq(Message) :
            /\ Len(q) = Len(messages) - 1
            /\ \A i \in 1..Len(q) : messages[i] = q[i]
            /\ Accepted(q)

\* A turn begins with nothing to pair.
LEMMA PairInitially == Init => PairInv
BY EmptySeq DEF Init, PairInv

\* Every step keeps the pairing.
LEMMA PairPreserved ==
  TypeInv /\ TypeInv' /\ CallInv /\ PairInv /\ [Next]_vars => PairInv'
<1> SUFFICES ASSUME TypeInv, TypeInv', CallInv, PairInv, [Next]_vars PROVE PairInv'
  OBVIOUS
<1>0. TypeOK /\ ShapeInv /\ MaxMessages \in Nat
  BY ToolLoopAssumption DEF TypeInv
<1>a. /\ messages \in Seq(Message) /\ messages' \in Seq(Message)
      /\ results \in Seq(Message) /\ results' \in Seq(Message)
      /\ Len(messages) \in Nat /\ Len(results) \in Nat
  <2>1. messages' \in Seq(Message) /\ results' \in Seq(Message)
    BY DEF TypeInv, TypeOK
  <2> QED BY <1>0, <2>1, Typed
<1>1. CASE UNCHANGED <<stage, messages, results>>
  BY <1>1 DEF PairInv
<1>2. CASE UNCHANGED <<messages, results>> /\ stage' \notin {"model", "calls", "awaiting"}
  BY <1>2 DEF PairInv
<1>3. CASE Quiet
  <2>1. CASE Aborts
    BY <1>2, <2>1, AbortsRaise
  <2>2. CASE Connected \/ (\E base \in BaseSteps : Begin(base))
    BY <1>2, <2>2 DEF Connected, Begin
  <2>3. CASE Wait \/ UNCHANGED vars
    BY <1>1, <2>3 DEF Wait, vars
  <2>4. CASE \E usage \in UsageOf, text \in BOOLEAN : ModelAnswers(usage, text)
    BY <1>2, <2>4 DEF ModelAnswers
  <2> QED BY <1>3, <2>1, <2>2, <2>3, <2>4 DEF Quiet
<1>4. CASE ToolsListed
  <2>1. stage' = "model" /\ messages' = <<IncidentStatement>> /\ UNCHANGED results
    BY <1>4 DEF ToolsListed
  <2>2. Len(messages') = 1 /\ DOMAIN messages' = 1..1 /\ messages'[1].kind = "user"
    BY <2>1 DEF IncidentStatement
  <2>3. Accepted(messages')
    <3>1. \A i \in DOMAIN messages' : messages'[i].kind = "user"
      BY <2>2
    <3>2. "user" # "assistant" /\ "user" \notin AnswerKinds
      BY DEF AnswerKinds
    <3> QED BY <3>1, <3>2 DEF Accepted
  <2> QED BY <2>1, <2>2, <2>3 DEF PairInv
<1>5. ASSUME NEW usage \in UsageOf, NEW text \in BOOLEAN, NEW requests \in CallBatches,
             ModelCalls(usage, text, requests)
      PROVE  PairInv'
  <2>1. /\ stage' = "calls" /\ results' = <<>> /\ stage = "model"
        /\ Len(messages') = Len(messages) + 1
        /\ \A i \in 1..Len(messages) : messages'[i] = messages[i]
        /\ \E ids : messages'[Len(messages) + 1] = AssistantMessage(ids)
    BY ONLY <1>0, <1>5, AsksForTools
  <2>2. Accepted(messages)
    BY <1>5 DEF ModelCalls
  <2>3. messages'[Len(messages')].kind = "assistant"
    BY <2>1 DEF AssistantMessage
  <2>4. \A i \in 3..Len(messages') : messages'[i].kind \in BodyKinds
    <3> TAKE i \in 3..Len(messages')
    <3>1. CASE i = Len(messages')
      BY <2>3, <3>1 DEF BodyKinds
    <3>2. CASE i \in 3..Len(messages)
      <4>1. i \in 1..Len(messages) /\ messages[i].kind \in BodyKinds
        BY <1>a, <3>2 DEF PairInv
      <4> QED BY <2>1, <4>1
    <3> QED BY <1>a, <2>1, <3>1, <3>2
  <2>5. Len(results') = 0
    BY <2>1
  <2>6. Len(messages) = Len(messages') - 1
    BY <1>a, <2>1
  <2> QED BY <1>a, <2>1, <2>2, <2>3, <2>4, <2>5, <2>6 DEF PairInv
<1>6. CASE RejectCall \/ ToolReplies
  <2>1. /\ stage \in {"calls", "awaiting"} /\ stage' = "calls" /\ pending # <<>>
        /\ pending' = Tail(pending)
        /\ \E kind \in AnswerKinds : results' = Append(results, Answer(kind, Head(pending).id))
        /\ UNCHANGED messages
    BY <1>0, <1>6 DEF RejectCall, ToolReplies, ShapeInv, AnswerKinds
  <2>2. PICK kind \in AnswerKinds : results' = Append(results, Answer(kind, Head(pending).id))
    BY <2>1
  <2>3. /\ Len(results') = Len(results) + 1
        /\ results'[Len(results) + 1] = Answer(kind, pending[1].id)
        /\ \A i \in 1..Len(results) : results'[i] = results[i]
    BY ONLY <1>0, <2>1, <2>2, AnswerTyped
  <2>4. results'[Len(results) + 1].kind \in AnswerKinds
    BY <2>3 DEF Answer
  <2>5. \A i \in 1..Len(results') : results'[i].kind \in AnswerKinds
    <3>1. \A i \in 1..Len(results') : i = Len(results) + 1 \/ i \in 1..Len(results)
      BY <1>a, <2>3
    <3>2. \A i \in 1..Len(results) : results[i].kind \in AnswerKinds
      BY DEF PairInv
    <3> QED BY <2>3, <2>4, <3>1, <3>2
  <2> QED BY <2>1, <2>5 DEF PairInv
<1>7. CASE CallTool
  <2>1. /\ stage = "calls" /\ stage' = "awaiting" /\ UNCHANGED <<messages, results>>
    BY <1>7 DEF CallTool
  <2> QED BY <2>1 DEF PairInv
<1>8. CASE EndRound
  <2>1. /\ stage = "calls" /\ pending = <<>> /\ UNCHANGED results
        /\ stage' \in {"summarizing", "model"}
    BY <1>8 DEF EndRound
  <2>2. /\ Len(messages') = Len(messages) + Len(results)
        /\ \A i \in 1..Len(messages) : messages'[i] = messages[i]
        /\ \A i \in 1..Len(results) : messages'[Len(messages) + i] = results[i]
    BY <1>0, <1>8, RoundJoins
  <2>3. /\ Len(messages) >= 2
        /\ messages[Len(messages)].kind = "assistant"
        /\ \A i \in 1..Len(results) : results[i].kind \in AnswerKinds
        /\ \A i \in 3..Len(messages) : messages[i].kind \in BodyKinds
    BY <1>0, <2>1 DEF ShapeInv, PairInv
  <2>4. PICK q \in Seq(Message) : /\ Len(q) = Len(messages) - 1
                                  /\ \A i \in 1..Len(q) : messages[i] = q[i]
                                  /\ Accepted(q)
    BY <2>1 DEF PairInv
  <2>5. messages[Len(messages)].ids = UNION {results[i].ids : i \in 1..Len(results)}
    <3> DEFINE a == Answered - Len(results)
    <3>1. /\ \A i \in 1..Len(results) : results[i].ids = {a + i}
          /\ messages[Len(messages)].ids = (a + 1)..(Answered + Len(pending))
      BY <2>1 DEF CallInv, Numbered
    <3>2. Answered \in Nat /\ Len(pending) = 0
      BY <1>0, <2>1, Typed, EmptySeq DEF Answered
    <3>3. a \in Int /\ messages[Len(messages)].ids = (a + 1)..(a + Len(results))
      BY <1>a, <3>1, <3>2
    <3> HIDE DEF a
    <3>4. \A k \in (a + 1)..(a + Len(results)) : \E i \in 1..Len(results) : k \in results[i].ids
      <4> TAKE k \in (a + 1)..(a + Len(results))
      <4>1. k - a \in 1..Len(results) /\ a + (k - a) = k
        BY <1>a, <3>3
      <4> QED BY <3>1, <4>1
    <3>5. \A i \in 1..Len(results) : results[i].ids \subseteq (a + 1)..(a + Len(results))
      <4> TAKE i \in 1..Len(results)
      <4>1. a + i \in (a + 1)..(a + Len(results))
        BY <1>a, <3>3
      <4> QED BY <3>1, <4>1
    <3> QED BY <3>3, <3>4, <3>5
  <2>6. /\ Len(messages') = Len(q) + 1 + Len(results) /\ Len(q) + 1 = Len(messages)
        /\ Len(q) \in Nat
    BY <1>a, <2>2, <2>4
  <2>7. \A i \in 1..Len(q) : messages'[i] = q[i]
    <3>1. \A i \in 1..Len(q) : i \in 1..Len(messages)
      BY <1>a, <2>6
    <3> QED BY <2>2, <2>4, <3>1
  <2>8. messages'[Len(q) + 1] = messages[Len(messages)]
    <3>1. Len(q) + 1 \in 1..Len(messages)
      BY <1>a, <2>6
    <3> QED BY <2>2, <2>6, <3>1
  <2>9. \A i \in 1..Len(results) : messages'[Len(q) + 1 + i] = results[i]
    BY <2>2, <2>6
  <2>10. Accepted(messages')
    <3>1. /\ messages'[Len(q) + 1].kind = "assistant"
          /\ messages'[Len(q) + 1].ids = UNION {results[i].ids : i \in 1..Len(results)}
      BY <2>3, <2>5, <2>8
    <3> QED BY ONLY <1>a, <2>3, <2>4, <2>6, <2>7, <2>9, <3>1, RoundIsPaired
  <2>11. \A i \in 3..Len(messages') : messages'[i].kind \in BodyKinds
    <3> TAKE i \in 3..Len(messages')
    <3>1. CASE i \in 3..Len(messages)
      <4>1. i \in 1..Len(messages)
        BY <1>a, <3>1
      <4> QED BY <2>2, <2>3, <3>1, <4>1
    <3>2. CASE i \in (Len(messages) + 1)..Len(messages')
      <4>1. i - Len(messages) \in 1..Len(results) /\ Len(messages) + (i - Len(messages)) = i
        BY <1>a, <2>2, <3>2
      <4> QED BY <2>2, <2>3, <4>1 DEF BodyKinds
    <3> QED BY <1>a, <2>2, <3>1, <3>2
  <2> QED BY <2>1, <2>3, <2>10, <2>11 DEF PairInv
<1>9. ASSUME NEW usage \in SummaryUsage, Summarized(usage) PROVE PairInv'
  <2>1. /\ stage = "summarizing" /\ stage' = "model" /\ UNCHANGED results
        /\ messages' = Prune(messages, MaxMessages)
    BY <1>9 DEF Summarized
  <2>2. Len(messages) >= 3 /\ NeedsPruning(messages, MaxMessages)
    BY <1>0, <2>1 DEF ShapeInv
  <2> DEFINE split == Split(messages, MaxMessages)
             size == EffectiveMax(MaxMessages)
  <2>3. /\ size \in Nat /\ size >= 2 /\ split \in Int /\ split >= 2
        /\ split = Len(messages) - size + 1
        /\ Len(messages') = size + 1 /\ messages'[2] = Summary
        /\ \A i \in 3..(size + 1) : messages'[i] = messages[split + i - 2]
    BY <1>0, <1>a, <2>1, <2>2, Pruned
  <2> HIDE DEF split, size
  <2>4. \A i \in 3..Len(messages') : messages'[i].kind \in BodyKinds
    <3> TAKE i \in 3..Len(messages')
    <3>1. i \in 3..(size + 1) /\ split + i - 2 \in 3..Len(messages)
      BY <1>a, <2>3
    <3>2. messages[split + i - 2].kind \in BodyKinds
      BY <3>1 DEF PairInv
    <3> QED BY <2>3, <3>1, <3>2
  <2>5. Len(messages') >= 2
    BY <2>3
  <2> QED BY <2>1, <2>3, <2>4, <2>5 DEF PairInv
<1> QED BY <1>3, <1>4, <1>5, <1>6, <1>7, <1>8, <1>9, Steps

\* A request is well paired until something is pruned, and pruning a well-paired
\* conversation leaves it so exactly when the tail it keeps opens on a response.
THEOREM SafeCuts == Spec => []SafeCutIsAligned
<1>1. TypeInv /\ WindowInv /\ PairInv => SafeCutIsAligned
  <2> SUFFICES ASSUME TypeInv, WindowInv, PairInv PROVE SafeCutIsAligned
    OBVIOUS
  <2>0. /\ TypeOK /\ ShapeInv /\ MaxMessages \in Nat
        /\ messages \in Seq(Message) /\ Len(messages) \in Nat
        /\ DOMAIN messages = 1..Len(messages)
    BY Typed, ToolLoopAssumption DEF TypeInv
  <2>1. ASSUME stage = "model", \A i \in DOMAIN messages : messages[i] # Summary
        PROVE  Accepted(messages)
    <3>1. Len(messages) >= 2 => 2 \in DOMAIN messages
      BY <2>0
    <3> QED BY <2>1, <3>1 DEF PairInv
  <2>2. ASSUME stage = "summarizing", Accepted(messages)
        PROVE  Accepted(Prune(messages, MaxMessages)) <=>
                 messages[Split(messages, MaxMessages) + 1].kind = "assistant"
    <3>1. Len(messages) >= 3 /\ NeedsPruning(messages, MaxMessages)
      BY <2>0, <2>2 DEF ShapeInv
    <3>2. messages[1].kind = "user"
      BY <2>0, <3>1 DEF WindowInv, Opens, IncidentStatement
    <3>3. \A i \in 3..Len(messages) : messages[i].kind \in BodyKinds
      BY DEF PairInv
    <3> QED BY ONLY <2>0, <2>2, <3>1, <3>2, <3>3, CutIsAligned
  <2> QED BY <2>1, <2>2 DEF SafeCutIsAligned
<1> QED BY <1>1, TypeInitially, TypePreserved, CallInitially, CallPreserved,
           WindowInitially, WindowPreserved, PairInitially, PairPreserved, PTL DEF Spec
=============================================================================
