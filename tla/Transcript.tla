----------------------------- MODULE Transcript -----------------------------
(***************************************************************************)
(* The conversation a specialist holds with its model: the messages of     *)
(* llm/base.py, what context/window.py and context/pruning.py do to them   *)
(* when they grow, and what llm/anthropic_provider.py makes of them.       *)
(* A message is its kind and the tool-call ids it carries.                 *)
(***************************************************************************)
EXTENDS Integers, Sequences, SequencesExt

\* "user" is the incident statement, "summary" the message that stands for the
\* evicted ones, "rejection" the validator's answer to a call it refused.
MessageKinds == {"user", "summary", "assistant", "result", "rejection"}
AnswerKinds == {"result", "rejection"}
Message == [kind : MessageKinds, ids : SUBSET Nat]

IncidentStatement == [kind |-> "user", ids |-> {}]
Summary == [kind |-> "summary", ids |-> {}]
AssistantMessage(ids) == [kind |-> "assistant", ids |-> ids]
Answer(kind, id) == [kind |-> kind, ids |-> {id}]

-----------------------------------------------------------------------------
\* context/window.py and context/pruning.py.

MinEffectiveMax == 2
EffectiveMax(max) == IF max < MinEffectiveMax THEN MinEffectiveMax ELSE max

\* How many messages precede the tail that is kept.
Split(messages, max) == Len(messages) - (EffectiveMax(max) - 1)

\* Mutant: keeps one message less than the window has room for.
EvictOneMore(messages, max) ==
  IF Len(messages) <= max THEN [kept |-> messages, evicted |-> <<>>]
  ELSE [kept    |-> SubSeq(messages, 1, 1)
                      \o SubSeq(messages, Split(messages, max) + 2, Len(messages)),
        evicted |-> SubSeq(messages, 2, Split(messages, max) + 1)]

\* Mutant: keeps one message more than the window holds.
EvictOneLess(messages, max) ==
  IF Len(messages) <= max THEN [kept |-> messages, evicted |-> <<>>]
  ELSE [kept    |-> SubSeq(messages, 1, 1)
                      \o SubSeq(messages, Split(messages, max), Len(messages)),
        evicted |-> SubSeq(messages, 2, Split(messages, max) - 1)]

\* evict: the first message and the last EffectiveMax - 1 are kept.
Evict(messages, max) ==
  IF Len(messages) <= max THEN [kept |-> messages, evicted |-> <<>>]
  ELSE [kept    |-> SubSeq(messages, 1, 1)
                      \o SubSeq(messages, Split(messages, max) + 1, Len(messages)),
        evicted |-> SubSeq(messages, 2, Split(messages, max))]

NeedsPruning(messages, max) == Evict(messages, max).evicted # <<>>

\* prune, once the summary has been written.
Prune(messages, max) ==
  LET cut == Evict(messages, max) IN
  IF cut.evicted = <<>> THEN messages
  ELSE <<cut.kept[1], Summary>> \o Tail(cut.kept)

-----------------------------------------------------------------------------
\* llm/anthropic_provider.py.

\* Mutant: every tool result is a turn of its own.
AnswerTurnUngrouped(messages, i) ==
  {j \in {i + 1} \cap DOMAIN messages : messages[j].kind \in AnswerKinds}

\* _to_anthropic_messages keeps every message a turn of its own, except that
\* consecutive tool results share one: the results in the turn after message i.
AnswerTurn(messages, i) ==
  {j \in (i + 1)..Len(messages) :
     \A k \in (i + 1)..j : messages[k].kind \in AnswerKinds}

\* The Messages API (external): the tool uses of an assistant turn are answered,
\* all of them and nothing else, by the turn that follows it.
Accepted(messages) ==
  \A i \in DOMAIN messages :
    /\ messages[i].kind = "assistant" =>
         UNION {messages[j].ids : j \in AnswerTurn(messages, i)} = messages[i].ids
    /\ messages[i].kind \in AnswerKinds =>
         \E u \in 1..(i - 1) :
           messages[u].kind = "assistant" /\ i \in AnswerTurn(messages, u)
=============================================================================
