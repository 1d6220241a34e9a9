----------------------------- MODULE StageGraph -----------------------------
(***************************************************************************)
(* What executeDependencyGraph promises to executeAsync, without the scan, *)
(* the sleeps and the order of the writes: stages start after the verdicts *)
(* of their dependencies, at most one thread per stage, and an undisturbed *)
(* return that waits for every thread and is the conjunction of the        *)
(* verdicts.  PipelineEngine implements it; PipelineExecution relies on it.*)
(***************************************************************************)
CONSTANTS Stages, Interruptible

VARIABLES depends,      \* the dependencies of each stage
          verdict,      \* "none", or what the stage counted with last
          live,         \* the stages that have a thread
          result,       \* "nothing" until the graph is left
          disturbed     \* the coordinator was interrupted

vars == <<depends, verdict, live, result, disturbed>>

Init ==
  /\ verdict = [s \in Stages |-> "none"]
  /\ live = {}
  /\ result = "nothing"
  /\ disturbed = FALSE

\* A second start of the same stage is allowed, but not beside the first.
Start(s) ==
  /\ result = "nothing"
  /\ s \notin live
  /\ \A d \in depends[s] : d \in Stages /\ verdict[d] # "none"
  /\ live' = live \cup {s}
  /\ UNCHANGED <<depends, verdict, result, disturbed>>

Count(s, v) ==
  /\ s \in live
  /\ verdict' = [verdict EXCEPT ![s] = v]
  /\ UNCHANGED <<depends, live, result, disturbed>>

End(s) ==
  /\ s \in live
  /\ live' = live \ {s}
  /\ UNCHANGED <<depends, verdict, result, disturbed>>

\* A stage that will not run, or not any more, counts as failed.
Skip(s) ==
  /\ result = "nothing"
  /\ s \notin live \/ disturbed
  /\ verdict' = [verdict EXCEPT ![s] = "failed"]
  /\ UNCHANGED <<depends, live, result, disturbed>>

Return ==
  /\ result = "nothing"
  /\ live = {} \/ disturbed
  /\ disturbed \/ \A s \in Stages : verdict[s] # "none"
  /\ result' = IF \A s \in Stages : verdict[s] = "ok" THEN "true" ELSE "false"
  /\ UNCHANGED <<depends, verdict, live, disturbed>>

\* An exception, perhaps just after a stage was skipped.
Throw ==
  /\ result = "nothing"
  /\ result' = "threw"
  /\ \/ UNCHANGED verdict
     \/ \E s \in Stages \ live : verdict' = [verdict EXCEPT ![s] = "failed"]
  /\ UNCHANGED <<depends, live, disturbed>>

Disturb ==
  /\ Interruptible
  /\ result = "nothing"
  /\ disturbed' = TRUE
  /\ UNCHANGED <<depends, verdict, live, result>>

Next ==
  \/ \E s \in Stages :
       Start(s) \/ End(s) \/ Skip(s) \/ \E v \in {"ok", "failed"} : Count(s, v)
  \/ Return \/ Throw \/ Disturb

Spec == Init /\ [][Next]_vars
=============================================================================
