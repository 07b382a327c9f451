-------------------------------- MODULE Core --------------------------------
(***************************************************************************)
(* The vocabulary of the system (crates/core): pipelines, the operations   *)
(* the log records, the events the runtime handles and the effects its     *)
(* handlers ask the executor for.                                          *)
(*                                                                         *)
(* A pipeline, its workspace record and its session record carry the same  *)
(* id: the runtime uses the pipeline's id for all three.  Commands,        *)
(* prompts, messages and durations are left out; a workspace path and its  *)
(* branch are both derived from the pipeline's name, which stands for them.*)
(***************************************************************************)
EXTENDS Naturals, Sequences

CONSTANTS
  PipelineId,   \* ids the id generator can issue
  Name,         \* values of a command's `name' argument
  PhaseName,    \* phase names
  Nothing       \* stands for None, and for an absent record

Statuses == {"Pending", "Running", "Waiting", "Completed", "Failed"}

(* tmux knows the session spawned for id under a name of its own, "oj-id". *)
SessionName(id) == <<"oj", id>>

SessionId == PipelineId \cup {SessionName(id) : id \in PipelineId}

Pipeline == [name      : Name,
             phase     : PhaseName,
             status    : Statuses,
             session   : SessionId \cup {Nothing},    \* session_id
             workspace : Name \cup {Nothing}]         \* workspace_path

(* The names the code gives a meaning are phase names like any other, and  *)
(* no value of the system stands for None.                                 *)
ASSUME CoreAssumption ==
  /\ {"init", "done", "failed"} \subseteq PhaseName
  /\ Nothing \notin PipelineId \cup Name \cup PhaseName
  /\ Nothing \notin SessionId /\ Nothing \notin Pipeline

NewPipeline(name, phase) ==
  [name |-> name, phase |-> phase, status |-> "Pending",
   session |-> Nothing, workspace |-> Nothing]

TerminalPhases == {"done", "failed"}

IsTerminal(p) == p.phase \in TerminalPhases

-----------------------------------------------------------------------------
(* Operations.                                                             *)

PipelineCreate(id, name, phase) ==
  [op |-> "PipelineCreate", id |-> id, name |-> name, phase |-> phase]
PipelineTransition(id, phase) ==
  [op |-> "PipelineTransition", id |-> id, phase |-> phase]
PhaseStatusUpdate(id, status) ==
  [op |-> "PhaseStatusUpdate", id |-> id, status |-> status]
WorkspaceCreate(id, name) ==
  [op |-> "WorkspaceCreate", id |-> id, name |-> name]
SessionCreate(id) == [op |-> "SessionCreate", id |-> id]
SessionDelete(id) == [op |-> "SessionDelete", id |-> id]

Operation ==
  [op : {"PipelineCreate"}, id : PipelineId, name : Name, phase : PhaseName]
  \cup [op : {"PipelineTransition"}, id : PipelineId, phase : PhaseName]
  \cup [op : {"PhaseStatusUpdate"}, id : PipelineId, status : Statuses]
  \cup [op : {"WorkspaceCreate"}, id : PipelineId, name : Name]
  \cup [op : {"SessionCreate"}, id : PipelineId]
  \cup [op : {"SessionDelete"}, id : SessionId]
  \cup [op : {"PipelineDelete", "WorkspaceDelete"}, id : PipelineId]

ASSUME OperationAssumption == Nothing \notin Operation

-----------------------------------------------------------------------------
(* Events.  The pipeline id of CommandInvoked is the one the generator     *)
(* will issue while the command is handled.  TmuxExited and ClaudeExited   *)
(* are what a session check reports; the loop hands them to the runtime    *)
(* without making them events of the Event type.                           *)

CommandInvoked(id, name) ==
  [event |-> "CommandInvoked", id |-> id, name |-> name]
AgentDone(id)   == [event |-> "AgentDone", id |-> id]
AgentError(id)  == [event |-> "AgentError", id |-> id]
Timer(id)       == [event |-> "Timer", id |-> id]
Resume(id)      == [event |-> "pipeline:resume", id |-> id]
SendInput(sid)  == [event |-> "session:send", session |-> sid]
SessionExited(sid, code) ==
  [event |-> "SessionExited", session |-> sid, code |-> code]
ShellCompleted(id, phase, code) ==
  [event |-> "ShellCompleted", id |-> id, phase |-> phase, code |-> code]

TmuxExited(id)   == [event |-> "TmuxExited", id |-> id]
ClaudeExited(id) == [event |-> "ClaudeExited", id |-> id]

ExitCodes == {0, 1}    \* success, and any other code

Event ==
  [event : {"CommandInvoked"}, id : PipelineId, name : Name]
  \cup [event : {"AgentDone", "AgentError", "Timer", "pipeline:resume",
                  "TmuxExited", "ClaudeExited"},
        id : PipelineId]
  \cup [event : {"session:send"}, session : SessionId]
  \cup [event : {"SessionExited"}, session : SessionId, code : ExitCodes]
  \cup [event : {"ShellCompleted"}, id : PipelineId, phase : PhaseName,
        code : ExitCodes]

-----------------------------------------------------------------------------
(* Effects.  Emit and Notify only write output (the daemon runs with the   *)
(* adapter that drops notifications) and are left out.  PrepareWorkspace   *)
(* is the one thing a handler does itself rather than as an Effect; Abort  *)
(* stands where a handler returns an error.                                *)

Persist(o)           == [effect |-> "Persist", operation |-> o]
Spawn(id)            == [effect |-> "Spawn", id |-> id]
Send(sid)            == [effect |-> "Send", session |-> sid]
Kill(sid)            == [effect |-> "Kill", session |-> sid]
WorktreeAdd(name)    == [effect |-> "WorktreeAdd", name |-> name]
WorktreeRemove(name) == [effect |-> "WorktreeRemove", name |-> name]
SetTimer(id)         == [effect |-> "SetTimer", id |-> id]
CancelTimer(id)      == [effect |-> "CancelTimer", id |-> id]
Shell(id, phase, name) ==
  [effect |-> "Shell", id |-> id, phase |-> phase, name |-> name]
PrepareWorkspace(name) == [effect |-> "PrepareWorkspace", name |-> name]
Abort                  == [effect |-> "Abort"]

Effect ==
  [effect : {"Persist"}, operation : Operation]
  \cup [effect : {"Spawn", "SetTimer", "CancelTimer"}, id : PipelineId]
  \cup [effect : {"Send", "Kill"}, session : SessionId]
  \cup [effect : {"WorktreeAdd", "WorktreeRemove", "PrepareWorkspace"},
        name : Name]
  \cup [effect : {"Shell"}, id : PipelineId, phase : PhaseName, name : Name]
  \cup {Abort}

-----------------------------------------------------------------------------
(* Pipeline::transition for the exit of the pipeline's session, the one    *)
(* event the runtime passes to it: the pipeline as it returns it, and the  *)
(* effects.                                                                *)

ExitTransition(p, code) ==
  IF code = 0 THEN [p EXCEPT !.status = "Completed", !.session = Nothing]
              ELSE [p EXCEPT !.phase = "failed", !.status = "Failed"]

ExitEffects(id, code) ==
  IF code = 0 THEN <<>>
              ELSE <<Persist(PipelineTransition(id, "failed"))>>
=============================================================================
