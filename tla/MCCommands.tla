----------------------------- MODULE MCCommands -----------------------------
(* A small instance of Commands for TLC: the main agent and a subagent.        *)
EXTENDS Commands

Agents     == {"main", "sub"}
MainAgents == {"main"}

Call(tool, finds) == [tool |-> tool, finds |-> finds]

FewWishes == {
  Call("shell", {"looks"}),
  Call("shell", {"background", "plan", "destroys"}),
  Call("shell", {"waits", "publishes", "rehearses"}),
  Call("write", {"protected", "new entry"}),
  Call("delegation", {"waits", "stale marker"})}

DefaultGates == {"require-monitor", "root-whitelist"} \cup UserGates
FewEnabled   == {DefaultGates, Gates}

NotStarted == {"no run"}

FewFailing == {{}, {"require-monitor", "block-remote-publish"}}

=============================================================================
