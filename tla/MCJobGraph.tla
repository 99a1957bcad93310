----------------------------- MODULE MCJobGraph -----------------------------
(* Two editors and a run on a job of up to two stages, two pipelines and    *)
(* three steps.  The payloads reorder, move, add and remove steps and       *)
(* renumber a stage; one of them is invalid, and one repeats an id.         *)
EXTENDS JobGraph, TLC

CONSTANTS s1, s2, p1, p2, a, b, c

Stage(id, n) == [id |-> id, seq |-> n]
Pipe(id, s, n) == [id |-> id, stage |-> s, seq |-> n]
Step(id, p, n, reads) == [id |-> id, pipe |-> p, seq |-> n, reads |-> reads]

\* b reads a
Chain == [stages |-> <<Stage(s1, 1)>>, pipes |-> <<Pipe(p1, s1, 1)>>,
          steps |-> <<Step(a, p1, 1, {}), Step(b, p1, 2, {a})>>]
\* the two swapped, listed in the old order; now a reads b
Swapped == [Chain EXCEPT !.steps = <<Step(a, p1, 2, {b}), Step(b, p1, 1, {})>>]
\* b moves to a pipeline of a second stage that runs first; c is new
Split == [stages |-> <<Stage(s1, 2), Stage(s2, 1)>>,
          pipes |-> <<Pipe(p1, s1, 1), Pipe(p2, s2, 1)>>,
          steps |-> <<Step(c, p1, 1, {}), Step(b, p2, 1, {})>>]
\* invalid: a step reads itself
Loop == [Chain EXCEPT !.steps = <<Step(b, p1, 1, {b})>>]

\* one id for two steps
Twice == [Chain EXCEPT !.steps = <<Step(b, p1, 1, {}), Step(b, p1, 2, {})>>]

MCPayloads == {Chain, Swapped, Split, Loop, Twice}
Symmetry == Permutations(Editors)
=============================================================================
