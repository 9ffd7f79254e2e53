------------------------------- MODULE MCTool -------------------------------
(* Instances of ToolCallback for TLC. *)
EXTENDS ToolCallback, TLC

NoEarlyTool == {{}}
AnyEarlyTools == SUBSET Tools

Spawned == {"spawn"}
AnyMode == {"spawn", "attach"}
WithoutStore == {FALSE}
AnyStore == BOOLEAN

\* Tools and agents are names; the properties are safety properties.
Symmetry == Permutations(Tools) \cup Permutations(Agents)
==============================================================================
