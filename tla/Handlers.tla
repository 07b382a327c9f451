------------------------------ MODULE Handlers ------------------------------
(***************************************************************************)
(* What the runtime's handlers do, as the sequence of effects each one     *)
(* asks for (crates/engine/src/runtime.rs, phases.rs, spawn.rs, monitor.rs,*)
(* events.rs).                                                             *)
(*                                                                         *)
(* The daemon runs one handler at a time and a handler only changes what   *)
(* it reads (phase and status) in ways that it does not look at again, so  *)
(* everything a handler will do is a function of the runbook, the state it *)
(* starts in and the event.  An early `return Err' is an Abort at the end  *)
(* of the sequence: what stands before it has happened by then.            *)
(***************************************************************************)
EXTENDS Runbook, MaterializedState, SessionLog

(* Runtime::workspace_path: the linked workspace, else the path the name   *)
(* of the pipeline gives.                                                  *)
WorkspaceOf(p) == IF p.workspace = Nothing THEN p.name ELSE p.workspace

-----------------------------------------------------------------------------
(* Phases.                                                                 *)

(* Mutant: the session is recorded once it runs.                           *)
SpawnAgentUnrecorded(rb, id, p, agent) ==
  IF HasAgent(rb, agent)
  THEN << PrepareWorkspace(WorkspaceOf(p)), Spawn(id),
          Persist(SessionCreate(id)), SetTimer(id), SetTimer(id) >>
  ELSE << Abort >>

SpawnAgent(rb, id, p, agent) ==
  IF HasAgent(rb, agent)
  THEN << PrepareWorkspace(WorkspaceOf(p)),
          Persist(SessionCreate(id)),
          Spawn(id),
          SetTimer(id),     \* one set with the spawn effects
          SetTimer(id) >>   \* and one by the runtime
  ELSE << Abort >>

RunPhase(rb, id, p, def) ==
  CASE def.run = "shell" -> << Shell(id, def.name, WorkspaceOf(p)) >>
    [] def.run = "agent" -> SpawnAgent(rb, id, p, def.agent)
    [] OTHER             -> << Abort >>

(* Mutant: the phase is marked Running once its directive was carried out. *)
StartPhaseLate(rb, id, p, phase) ==
  IF HasPhase(rb, phase)
  THEN RunPhase(rb, id, p, GetPhase(rb, phase))
       \o << Persist(PhaseStatusUpdate(id, "Running")) >>
  ELSE << Abort >>

(* Runtime::start_phase: the phase is marked Running before its directive  *)
(* is looked at.                                                           *)
StartPhase(rb, id, p, phase) ==
  IF HasPhase(rb, phase)
  THEN << Persist(PhaseStatusUpdate(id, "Running")) >>
       \o RunPhase(rb, id, p, GetPhase(rb, phase))
  ELSE << Abort >>

(* phases::completion_effects, for the pipeline value the handler holds.   *)
CompletionEffects(id, p) ==
  (IF IsTerminal(p) THEN <<>>
                    ELSE << Persist(PipelineTransition(id, "done")) >>)
  \o << Persist(PhaseStatusUpdate(id, "Completed")) >>
  \o (IF p.session = Nothing
      THEN <<>>
      ELSE << Kill(p.session), Persist(SessionDelete(p.session)) >>)

(* Mutant: the last phase is marked Completed, without the move to "done". *)
AdvancePipelineInPlace(rb, id, p) ==
  IF IsTerminal(p) \/ NextPhaseName(rb, p.phase) = Nothing
  THEN << Persist(PhaseStatusUpdate(id, "Completed")) >>
  ELSE << Persist(PipelineTransition(id, NextPhaseName(rb, p.phase))) >>
       \o StartPhase(rb, id, p, NextPhaseName(rb, p.phase))

(* Runtime::advance_pipeline.                                              *)
AdvancePipeline(rb, id, p) ==
  LET next == NextPhaseName(rb, p.phase)
      ends == next \in TerminalPhases /\ ~HasPhase(rb, next)
  IN  IF IsTerminal(p) THEN CompletionEffects(id, p)
      ELSE IF next = Nothing
      THEN << Persist(PipelineTransition(id, "done")) >>
           \o CompletionEffects(id, p)
      ELSE << Persist(PipelineTransition(id, next)) >>
           \o (IF ends THEN CompletionEffects(id, p)
                       ELSE StartPhase(rb, id, p, next))

(* Mutant: failure ends the pipeline whatever the runbook says.            *)
FailPipelineForGood(rb, id, p) == << Persist(PipelineTransition(id, "failed")) >>

(* Runtime::fail_pipeline.                                                 *)
FailPipeline(rb, id, p) ==
  IF OnFail(rb, p.phase) = Nothing
  THEN << Persist(PipelineTransition(id, "failed")) >>
  ELSE << Persist(PipelineTransition(id, OnFail(rb, p.phase))) >>
       \o StartPhase(rb, id, p, OnFail(rb, p.phase))

-----------------------------------------------------------------------------
(* Handlers of events that name a pipeline.                                *)

(* Mutant: the pipeline is recorded before its workspace.                  *)
HandleCommandPipelineFirst(rb, id, name) ==
  IF ~rb.defined \/ FirstPhase(rb) = Nothing THEN << Abort >>
  ELSE << Persist(PipelineCreate(id, name, FirstPhase(rb))),
          Persist(WorkspaceCreate(id, name)), WorktreeAdd(name) >>
       \o StartPhase(rb, id, NewPipeline(name, FirstPhase(rb)), FirstPhase(rb))

(* Mutant: the pipeline is recorded before its worktree is made.           *)
HandleCommandWorktreeLast(rb, id, name) ==
  IF ~rb.defined \/ FirstPhase(rb) = Nothing THEN << Abort >>
  ELSE << Persist(WorkspaceCreate(id, name)),
          Persist(PipelineCreate(id, name, FirstPhase(rb))), WorktreeAdd(name) >>
       \o StartPhase(rb, id, NewPipeline(name, FirstPhase(rb)), FirstPhase(rb))

(* Runtime::handle_command: the workspace is recorded and made before the  *)
(* pipeline is.                                                            *)
HandleCommand(rb, id, name) ==
  LET first   == FirstPhase(rb)
      initial == IF first = Nothing THEN "init" ELSE first
  IN  IF ~rb.defined THEN << Abort >>
      ELSE << Persist(WorkspaceCreate(id, name)),
              WorktreeAdd(name),
              Persist(PipelineCreate(id, name, initial)) >>
           \o (IF first = Nothing THEN <<>>
               ELSE StartPhase(rb, id, NewPipeline(name, first), first))

(* Every handler below looks the pipeline up first, and errs if it does    *)
(* not know it.                                                            *)

(* Runtime::handle_agent_event: whatever the phase the signal was meant    *)
(* for, it is the current one that ends.                                   *)
HandleAgentDone(rb, s, id) ==
  IF Exists(s, id) THEN AdvancePipeline(rb, id, s.pipelines[id])
                   ELSE << Abort >>

HandleAgentError(rb, s, id) ==
  IF Exists(s, id) THEN FailPipeline(rb, id, s.pipelines[id])
                   ELSE << Abort >>

(* Runtime::handle_shell_completed: a result for another phase is dropped. *)
HandleShellCompleted(rb, s, id, phase, code) ==
  IF ~Exists(s, id) THEN << Abort >>
  ELSE IF s.pipelines[id].phase # phase THEN <<>>
  ELSE IF code = 0 THEN AdvancePipeline(rb, id, s.pipelines[id])
  ELSE FailPipeline(rb, id, s.pipelines[id])

(* Runtime::handle_session_exit.                                           *)
HandleSessionExit(rb, s, sid, code) ==
  LET found == {i \in PipelineId : Exists(s, i)
                                   /\ s.pipelines[i].session = sid}
      id    == CHOOSE i \in found : TRUE
      p     == ExitTransition(s.pipelines[id], code)
  IN  IF found = {} THEN <<>>
      ELSE ExitEffects(id, code)
           \o (IF p.status = "Completed" THEN AdvancePipeline(rb, id, p)
                                         ELSE <<>>)

(* events::handle_custom_event, pipeline:resume.                           *)
HandleResume(s, id) ==
  IF Exists(s, id)
  THEN << Persist(PhaseStatusUpdate(id, "Running")), SetTimer(id) >>
  ELSE << Abort >>

-----------------------------------------------------------------------------
(* The session monitor.                                                    *)

(* Runtime::execute_action_effects over monitor::build_action_effects.     *)
ActionEffects(rb, id, p, agent, action) ==
  LET kill == IF p.session = Nothing THEN <<>> ELSE << Kill(p.session) >>
      wipe == IF p.workspace = Nothing THEN <<>>
                                       ELSE << WorktreeRemove(p.workspace) >>
  IN  CASE action = "nudge" ->
             IF p.session = Nothing THEN << Abort >>
                                    ELSE << Send(p.session), SetTimer(id) >>
        [] action = "done"     -> AdvancePipeline(rb, id, p)
        [] action = "fail"     -> FailPipeline(rb, id, p)
        [] action = "restart"  -> kill \o wipe \o SpawnAgent(rb, id, p, agent)
        [] action = "recover"  -> kill \o SpawnAgent(rb, id, p, agent)
        [] action = "escalate" ->
             << Persist(PhaseStatusUpdate(id, "Waiting")), CancelTimer(id) >>

(* monitor::get_agent_def: is the pipeline in a phase that runs an agent   *)
(* the runbook defines?                                                    *)
InAgentPhase(rb, p) ==
  /\ HasPhase(rb, p.phase)
  /\ GetPhase(rb, p.phase).run = "agent"
  /\ HasAgent(rb, GetPhase(rb, p.phase).agent)

AgentOf(rb, p) == GetPhase(rb, p.phase).agent

(* Runtime::handle_session_monitor; `seen' is one of LogStates.            *)
HandleTimer(rb, s, id, seen) ==
  LET p     == s.pipelines[id]
      agent == rb.agents[AgentOf(rb, p)]
  IN  IF ~Exists(s, id) THEN << Abort >>
      ELSE IF IsTerminal(p) THEN <<>>
      ELSE IF ~InAgentPhase(rb, p) \/ p.workspace = Nothing THEN << Abort >>
      ELSE CASE seen \in {"missing", "working", "unknown"} -> << SetTimer(id) >>
             [] seen = "waiting" ->
                  ActionEffects(rb, id, p, AgentOf(rb, p), agent.onIdle)
             [] OTHER ->
                  ActionEffects(rb, id, p, AgentOf(rb, p),
                                ActionFor(agent.onError, seen))

(* Runtime::handle_claude_exited.                                          *)
HandleClaudeExited(rb, s, id) ==
  LET p == s.pipelines[id]
  IN  IF ~Exists(s, id) THEN << Abort >>
      ELSE IF IsTerminal(p) THEN <<>>
      ELSE IF ~InAgentPhase(rb, p) THEN << Abort >>
      ELSE ActionEffects(rb, id, p, AgentOf(rb, p),
                         rb.agents[AgentOf(rb, p)].onExit)

(* Runtime::handle_tmux_exited.                                            *)
HandleTmuxExited(rb, s, id) ==
  IF Exists(s, id) THEN FailPipeline(rb, id, s.pipelines[id])
                   ELSE << Abort >>

-----------------------------------------------------------------------------
(* Runtime::handle_event, and the two handlers of a session check.         *)
HandleEvent(rb, s, e, seen) ==
  CASE e.event = "CommandInvoked"  -> HandleCommand(rb, e.id, e.name)
    [] e.event = "AgentDone"       -> HandleAgentDone(rb, s, e.id)
    [] e.event = "AgentError"      -> HandleAgentError(rb, s, e.id)
    [] e.event = "ShellCompleted"  ->
         HandleShellCompleted(rb, s, e.id, e.phase, e.code)
    [] e.event = "SessionExited"   ->
         HandleSessionExit(rb, s, e.session, e.code)
    [] e.event = "Timer"           -> HandleTimer(rb, s, e.id, seen)
    [] e.event = "pipeline:resume" -> HandleResume(s, e.id)
    [] e.event = "session:send"    -> << Send(e.session) >>
    [] e.event = "TmuxExited"      -> HandleTmuxExited(rb, s, e.id)
    [] e.event = "ClaudeExited"    -> HandleClaudeExited(rb, s, e.id)
=============================================================================
