-------------------------- MODULE MCReviewPipeline --------------------------
(* Three roles with two iterations each, a synthesis with one, and a single *)
(* agent with three.                                                        *)
EXTENDS ReviewPipeline
CONSTANTS security, quality, performance, synth, solo
MCRole == {security, quality, performance}
MCAgent == MCRole \cup {synth, solo}
MCMaxIterations ==
  [a \in MCAgent |-> CASE a \in MCRole -> 2 [] a = synth -> 1 [] a = solo -> 3]
=============================================================================
