--------------------------- MODULE MCDelegations ---------------------------
(* A small instance of Delegations for TLC: prompts as agents write them, from *)
(* the bare request to the careful one.                                        *)
EXTENDS Delegations

Bare      == {"implements", "short"}
Hasty     == {"implements", "short", "tiny", "sensitive", "unknown"}   \* "fix the auth, por definir"
Thorough  == {"implements", "sensitive", "risk", "money", "unit", "e2e", "negative"} \cup Brief \cup Scope \cup Stages
Contract  == {"implements", "sensitive"}                  \* sensitive without a risk word
Payments  == {"implements", "sensitive", "risk", "money", "unknown", "goal"}
Screens   == {"implements", "screen", "cites", "goal"}
Report    == {"implements", "documents", "risk", "money"}
Settings  == {"implements", "harness", "goal"}
Question  == {"asks", "risk"}
Careless  == {"implements", "claim", "memory", "tool", "patch", "goal"}

Prompt(agent, finds, levels) == [agent |-> agent, finds |-> finds, levels |-> levels]

FewDrafts ==
  {Prompt("builder", f, <<>>) : f \in {Bare, Hasty, Thorough, Payments, Screens, Report, Settings, Question, Careless}}
  \cup {Prompt("builder", f, l) : f \in {Thorough, Payments, Screens},
                                  l \in {<<"STANDARD">>, <<"HIGH-RISK", "MICRO">>, <<"MICRO", "HIGH-RISK">>}}
  \cup {Prompt(a, f, <<"STANDARD">>) : a \in {"explore", "claude-code-guide", "scout"}, f \in {Contract, Payments}}

Project(catalog, brief, contract, task, recurs) ==
  [catalog |-> catalog, brief |-> brief, contract |-> contract, task |-> task, recurs |-> recurs]

FewDisks == {
  Project(FALSE, "none", FALSE, "none", FALSE),
  Project(TRUE, "none", FALSE, "none", FALSE),
  Project(TRUE, "empty", FALSE, "no slug", FALSE),
  Project(FALSE, "draft", FALSE, "live", TRUE)}

\* What is on by default, the spec-driven flow alone, and all.
DefaultGates == {"brief-approved", "recurrence-lock", "reuse-before-build"}
FewEnabled   == {DefaultGates, SpecGates, Gates}

FewFailing == {{}, {"risk-level"}, {"never-assume"}}

=============================================================================
