------------------------- MODULE MCPipelineExecution -------------------------
(* Instances of PipelineExecution for TLC.                                 *)
EXTENDS PipelineExecution

\* Every page shows the first build.
MCWatched == [v \in Viewers |-> 1]
=============================================================================
