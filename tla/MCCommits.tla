------------------------------ MODULE MCCommits ------------------------------
(* A small instance of Commits for TLC: two sources and a test; commits of one *)
(* nature and two files at most.                                               *)
EXTENDS Commits

FewFiles == {"a.js", "b.js", "a.test"}
FewNatures == [f \in FewFiles |-> IF f = "a.test" THEN "tests" ELSE "code"]
NoNatures  == {"docs"}
Sources    == {"a.js", "b.js"}

Tree(h, i, w) == [head |-> h, index |-> i, work |-> w]

Old == [f \in FewFiles |-> "old"]

FewTrees == {
  Tree(Old, Old, [Old EXCEPT !["a.js"] = "bad", !["b.js"] = "none", !["a.test"] = "new"]),
  Tree([Old EXCEPT !["a.test"] = "none"], [Old EXCEPT !["a.js"] = "bad", !["a.test"] = "none"],
       [Old EXCEPT !["a.js"] = "new"]),
  Tree(Old, [Old EXCEPT !["b.js"] = "none"], [Old EXCEPT !["b.js"] = "none", !["a.test"] = "new"])}

Line(adds, all, only) == [Everything EXCEPT !.adds = adds, !.all = all, !.only = only]

\* `./a.js`, or `*.test`.
Unread(f) == [Plain(f) EXCEPT !.names = {}]

\* The path of f from a directory below the root, where it is that of g from the root.
Below(f, g) == [Plain(f) EXCEPT !.names = {g}]

FewCommands == {
  Line({}, FALSE, {}),
  Line({}, TRUE, {}),
  Line({Plain("a.js"), Plain("a.test")}, FALSE, {}),
  Line({Plain("a.test"), Unread("a.js"), Unread("b.js")}, FALSE, {}),
  Line({Below("a.js", "b.js")}, TRUE, {}),
  [Line({Plain("a.test"), Unread("a.js")}, FALSE, {}) EXCEPT !.removes = {"b.js"}],
  Line({}, FALSE, {"a.js"}),
  [Line({Plain("b.js")}, FALSE, {}) EXCEPT !.credits = TRUE, !.amend = TRUE],
  [Line({}, TRUE, {}) EXCEPT !.rehearses = TRUE]}

FewEnabled == {{"no-coauthor", "staged-lint"}, Gates}
FewFailing == {{}, LintGates}

=============================================================================
