----------------------------- MODULE MCCycleLock -----------------------------
(* Two threads that start runs: of one backend (the scheduler and an HTTP     *)
(* worker), or of two backends on one home directory; beside the MCP tool or  *)
(* not.                                                                       *)
EXTENDS CycleLock

CONSTANTS b1, b2, t1, t2, mcp

OneBackend == {b1}
TwoBackends == {b1, b2}
TwoThreads == {t1, t2}
SchedulerOnly == {t1}
NoOutside == {}
Mcp == {mcp}
HomeOne == [t \in TwoThreads |-> b1]
HomeEach == [t \in TwoThreads |-> IF t = t1 THEN b1 ELSE b2]
=============================================================================
