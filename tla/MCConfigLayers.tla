--------------------------- MODULE MCConfigLayers --------------------------
(* A small instance of ConfigLayers for TLC: a gate with params that is on by  *)
(* default, and one without that is off.                                       *)
EXTENDS ConfigLayers, TLC

CONSTANTS c1, c2

TwoCommands == {c1, c2}
Symmetric == Permutations(TwoCommands)

TwoGates == {"tuned", "plain"}
Recommended == {"tuned"}

Config(tuned, plain, adopted) ==
  [text |-> "json", gates |-> [g \in TwoGates |-> IF g = "tuned" THEN tuned ELSE plain],
   adopted |-> adopted]

FewFiles == {
  NoFile,
  Config(Object("off", "edited"), Flag("on"), "partial"),
  Config(Object("unset", "edited"), Absent, "none")}

FewEdits == {Object("on", "edited"), Flag("off"), [Absent EXCEPT !.form = "other"]}

Line(does, scope, picks, force, prompts) ==
  [does |-> does, scope |-> scope, picks |-> picks, force |-> force, prompts |-> prompts]

FewOrders == {
  Line("enable", "project", {"tuned"}, FALSE, FALSE),
  Line("disable", "global", {"tuned"}, FALSE, FALSE),
  Line("disable", "project", TwoGates, FALSE, FALSE),
  Line("defaults", "project", {}, FALSE, FALSE),
  Line("all", "project", {}, FALSE, TRUE),
  Line("none", "project", {}, TRUE, FALSE),
  Line("picked", "project", {"tuned"}, FALSE, FALSE),
  Line("new", "project", {}, FALSE, FALSE),
  Line("new", "project", {}, FALSE, TRUE)}

=============================================================================
