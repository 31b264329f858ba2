------------------------------ MODULE MCTraceback ------------------------------
\* Model-checking instance of Traceback: a graph of two words, each with a
\* state that may be held for several frames (1 for "a", 2 for "b"), and a
\* state 3 between words that is reached by arcs without input label.
EXTENDS Traceback

Arc(from, to, emits, word) == [from |-> from, to |-> to, emits |-> emits, word |-> word]

MCArcs ==
    { Arc(0, 1, TRUE, "a"), Arc(0, 2, TRUE, "b"),
      Arc(1, 1, TRUE, ""),  Arc(2, 2, TRUE, ""),
      Arc(1, 3, FALSE, ""), Arc(2, 3, FALSE, ""),
      Arc(3, 1, TRUE, "a"), Arc(3, 2, TRUE, "b") }
MCFinal == {3}
================================================================================
