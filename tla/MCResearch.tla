------------------------------ MODULE MCResearch ------------------------------
(* A small instance of Research for TLC: the main agent and a subagent, one    *)
(* package, a redirection that introduces it and that a skill covers.          *)
EXTENDS Research

Agents    == {"main", "sub"}
Libraries == {"p"}

Introducing(about, finds) == [CallOf("write", about) EXCEPT !.finds = finds]

FewGoals == {
  CallOf("web", {"p"}), CallOf("stop", {}),
  Introducing({"p"}, {"opaque", "relevant"})}

FewInstalled == {{"engram", "context7"}, {"context7"}, {"engram"}}
FewEnabled   == {Gates}
FewEach      == [a \in Agents |-> IF a = "main" THEN 2 ELSE 1]

=============================================================================
