-------------------------- MODULE MCCircuitBreaker --------------------------
(* A small instance of CircuitBreaker for TLC.  The first prompt resembles the *)
(* second, which resembles the third, which does not resemble the first.       *)
EXTENDS CircuitBreaker, TLC

CONSTANTS c1, c2

TwoCalls == {c1, c2}
OneCall  == {c1}

Fix      == [goal |-> {"fix parser"},               text |-> {"as discussed"}, paths |-> {"a.ts"}]
FixBoth  == [goal |-> {"fix parser", "parser lexer"}, text |-> {},             paths |-> {"a.ts", "b.ts"}]
FixLexer == [goal |-> {},             text |-> {"parser lexer"},               paths |-> {"b.ts"}]

ThreePrompts == {Fix, FixBoth, FixLexer}

OnePrompt    == {Fix}

Symmetric == Permutations(TwoCalls)

\* The prompts are as close as they are meant to be.
ASSUME
  LET s == Signature(Fix)  t == Signature(FixBoth)  u == Signature(FixLexer)
  IN  Similar(s, t) /\ Similar(t, u) /\ ~Similar(s, u)

=============================================================================
