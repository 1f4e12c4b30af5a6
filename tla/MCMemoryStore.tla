--------------------------- MODULE MCMemoryStore ---------------------------
EXTENDS MemoryStore

\* Three processes, two diagnoses in one of them.
SharedInOne == [d1 |-> "a", d2 |-> "b", d3 |-> "b", d4 |-> "c"]
FourDiagnoses == {"d1", "d2", "d3", "d4"}
=============================================================================
