--------------------------- MODULE MCJobExecution ---------------------------
(* A small instance of JobExecution for TLC: a parallel stage of two        *)
(* pipelines, then a sequential stage of two, so that every way a stage can *)
(* end occurs.  The last pipeline has no steps.                             *)
EXTENDS JobExecution

TwoStages == <<1, 1, 2, 2>>
Modes2    == <<"parallel", "sequential">>
Counts    == <<2, 1, 1, 0>>

Policies == [x \in Steps |-> IF x = <<1, 2>> THEN "continue"
                             ELSE IF x = <<3, 1>> THEN "continue_with_default" ELSE "fail"]
=============================================================================
