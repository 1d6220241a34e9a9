------------------------- MODULE PipelineDefinition -------------------------
(***************************************************************************)
(* How the stages of a pipeline get into the database: the graph editor's  *)
(* draft, savePipeline, and PipelineService's create, update and delete.   *)
(* A stage of the draft carries the id the editor drew or loaded; the save *)
(* makes new rows, and JPA gives each a new UUID.                          *)
(***************************************************************************)
EXTENDS Integers, Sequences, SequencesExt

CONSTANTS MaxStages,   \* bound: stages in the draft
          MaxDrawn,    \* bound: stages ever added in the editor
          MaxRows      \* bound: stage rows ever stored

VARIABLES
  screen,      \* "list", or the editor of a new or of the saved pipeline
  draft,       \* the editor's stages, in order: [id, dependsOn]
  stages,      \* the pipeline's rows by orderIndex: [id, dependsOn]
  exists,      \* whether the pipeline is stored
  drawn,       \* ids the editor has made up so far: -1, -2, ...
  generated    \* UUIDs handed out so far: 1, 2, ...

vars == <<screen, draft, stages, exists, drawn, generated>>

Init ==
  /\ screen = "list"
  /\ draft = <<>> /\ stages = <<>>
  /\ exists = FALSE
  /\ drawn = 0 /\ generated = 0

-----------------------------------------------------------------------------
(* The editor.                                                             *)

Editing == screen \in {"new", "edit"}

OpenNew ==
  /\ screen = "list" /\ ~exists
  /\ screen' = "new"
  /\ draft' = <<>>
  /\ UNCHANGED <<stages, exists, drawn, generated>>

\* setStages: the rows with their ids, whatever their dependsOn names.
OpenPipeline ==
  /\ screen = "list" /\ exists
  /\ screen' = "edit"
  /\ draft' = stages
  /\ UNCHANGED <<stages, exists, drawn, generated>>

\* A new stage is connected to the last one.
AddStage ==
  /\ Editing
  /\ Len(draft) < MaxStages /\ drawn < MaxDrawn
  /\ drawn' = drawn + 1
  /\ draft' = Append(draft, [id |-> -drawn',
       dependsOn |-> IF draft = <<>> THEN {} ELSE {Last(draft).id}])
  /\ UNCHANGED <<screen, stages, exists, generated>>

\* Stages that depend on it keep its id.
DeleteStage(i) ==
  /\ Editing
  /\ draft' = RemoveAt(draft, i)
  /\ UNCHANGED <<screen, stages, exists, drawn, generated>>

\* The checkbox of another stage in a stage's dependency list.
ToggleDependency(i, j) ==
  /\ Editing
  /\ i # j
  /\ draft' = [draft EXCEPT ![i].dependsOn =
                 IF draft[j].id \in @ THEN @ \ {draft[j].id} ELSE @ \cup {draft[j].id}]
  /\ UNCHANGED <<screen, stages, exists, drawn, generated>>

BackToList ==
  /\ Editing
  /\ screen' = "list"
  /\ UNCHANGED <<draft, stages, exists, drawn, generated>>

-----------------------------------------------------------------------------
(* The service.                                                            *)

\* createStageFromRequest for each stage: dependsOn is copied as it was sent,
\* the id is not taken over.
RowsOf(request) ==
  [i \in DOMAIN request |-> [id |-> generated + i, dependsOn |-> request[i].dependsOn]]

Store(request) ==
  /\ generated + Len(request) <= MaxRows
  /\ stages' = RowsOf(request)
  /\ generated' = generated + Len(request)
  /\ exists' = TRUE

CreatePipeline ==
  /\ screen = "new"
  /\ Store(draft)
  /\ screen' = "list"
  /\ UNCHANGED <<draft, drawn>>

\* The old rows are cleared; the editor goes on with the draft it has.
UpdatePipeline ==
  /\ screen = "edit" /\ exists
  /\ Store(draft)
  /\ UNCHANGED <<screen, draft, drawn>>

DeletePipeline ==
  /\ exists
  /\ stages' = <<>>
  /\ exists' = FALSE
  /\ UNCHANGED <<screen, draft, drawn, generated>>

-----------------------------------------------------------------------------
Save == CreatePipeline \/ UpdatePipeline

Next ==
  \/ OpenNew \/ OpenPipeline \/ AddStage \/ BackToList
  \/ \E i \in DOMAIN draft : DeleteStage(i) \/ \E j \in DOMAIN draft : ToggleDependency(i, j)
  \/ Save \/ DeletePipeline

Spec == Init /\ [][Next]_vars

\* The editor's "Select which stages must complete before this one starts":
\* the saved stages depend on each other as the draft's stages do.
SaveKeepsDependencies ==
  [][Save => \A i, j \in DOMAIN draft :
       stages'[j].id \in stages'[i].dependsOn <=> draft[j].id \in draft[i].dependsOn]_vars
=============================================================================
