----------------------------- MODULE MCCopilot -----------------------------
EXTENDS Copilot

\* What a turn within the bounds may log and report, for the graph it refines.
BoundedTurns == SeqOf(LoggedCall, MaxCalls * MaxRounds)
BoundedUsage == 0..((MaxRounds + 1) * Max(UsageOf))

\* For the runs that do not ask about the refinement.
UnusedTurns == {<<>>}

NoHistory == {<<>>}
=============================================================================
