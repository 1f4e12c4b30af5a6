---------------------------- MODULE MCEvaluation ----------------------------
EXTENDS Evaluation

\* Turns that call a tool, the expected one or another.
OneCall == {<<[action |-> "tool_call", detail |-> t]>> : t \in Tools}
NoHistory == {<<>>}

OneFile == {<<[name |-> "s1", loads |-> TRUE]>>}
GoldOf == [s1 |-> <<"list_pods">>]
=============================================================================
