------------------------- MODULE MaterializedState -------------------------
(***************************************************************************)
(* The state the daemon keeps in memory and rebuilds from its log          *)
(* (crates/storage/src/state.rs).  Workers are records no operation        *)
(* touches; they are left out.                                             *)
(***************************************************************************)
EXTENDS Core

State == [pipelines  : [PipelineId -> Pipeline \cup {Nothing}],
          workspaces : [PipelineId -> Name \cup {Nothing}],
          sessions   : SUBSET PipelineId]

EmptyState == [pipelines  |-> [i \in PipelineId |-> Nothing],
               workspaces |-> [i \in PipelineId |-> Nothing],
               sessions   |-> {}]

Exists(s, id) == s.pipelines[id] # Nothing

(* MaterializedState::apply: an operation on a pipeline that is not there  *)
(* changes nothing, and no operation links a session to its pipeline.      *)
Apply(s, o) ==
  CASE o.op = "PipelineCreate" ->
         [s EXCEPT !.pipelines[o.id] = NewPipeline(o.name, o.phase)]
    [] o.op = "PipelineTransition" /\ Exists(s, o.id) ->
         [s EXCEPT !.pipelines[o.id] =
            [@ EXCEPT !.phase = o.phase, !.status = "Pending"]]
    [] o.op = "PhaseStatusUpdate" /\ Exists(s, o.id) ->
         [s EXCEPT !.pipelines[o.id] = [@ EXCEPT !.status = o.status]]
    [] o.op = "PipelineDelete" ->
         [s EXCEPT !.pipelines[o.id] = Nothing]
    [] o.op = "SessionCreate" ->
         [s EXCEPT !.sessions = @ \cup {o.id}]
    [] o.op = "SessionDelete" ->
         [s EXCEPT !.sessions = @ \ {o.id}]
    [] o.op = "WorkspaceCreate" ->
         \* the workspace is linked to its pipeline if that exists already
         [s EXCEPT !.workspaces[o.id] = o.name,
                   !.pipelines[o.id] =
                     IF Exists(s, o.id) THEN [@ EXCEPT !.workspace = o.name]
                                        ELSE @]
    [] o.op = "WorkspaceDelete" ->
         [s EXCEPT !.workspaces[o.id] = Nothing]
    [] OTHER -> s
=============================================================================
