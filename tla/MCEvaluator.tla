----------------------------- MODULE MCEvaluator -----------------------------
(* Two declared tasks, one regression test, one undeclared marker, two       *)
(* processes the script may start.                                           *)
EXTENDS Evaluator

CONSTANTS task1, task2, reg1, other, h1, h2

MCHelpers == {h1, h2}
=============================================================================
