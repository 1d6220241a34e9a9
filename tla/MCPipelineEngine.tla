-------------------------- MODULE MCPipelineEngine --------------------------
(* Instances of PipelineEngine for TLC.                                    *)
EXTENDS PipelineEngine

CONSTANT GraphChoice   \* "all", or the shapes of three stages

\* Every relation on the stages: self and cyclic dependencies, dangling ids.
AllGraphs == [1 .. N -> SUBSET (0 .. N)]

\* Three stages: a chain, a fan-out, a fan-in, no dependency at all, and one
\* that depends on a later row.
Shapes == { <<{}, {1}, {2}>>, <<{}, {1}, {1}>>, <<{}, {}, {1, 2}>>,
            <<{}, {}, {}>>, <<{3}, {1}, {}>> }

Independent == { [s \in 1 .. N |-> {}] }

MCGraphs == IF GraphChoice = "all" THEN AllGraphs
            ELSE IF GraphChoice = "shapes" THEN Shapes
            ELSE Independent
=============================================================================
