---------------------------- MODULE MCDreamCycle ----------------------------
(* Instances of DreamCycle for TLC: one locked run, with or without a cycle of *)
(* the MCP tool.                                                               *)
EXTENDS DreamCycle

CONSTANTS r1, mcp
OneRun == {r1}
RunAndMcp == {r1, mcp}
NoOutside == {}
Mcp == {mcp}
NoneBad == {}
FirstBad == {1}
=============================================================================
