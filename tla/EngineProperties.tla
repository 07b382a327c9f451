-------------------------- MODULE EngineProperties --------------------------
(***************************************************************************)
(* What the engine must and must not do, as properties of Engine.          *)
(***************************************************************************)
EXTENDS Engine

(* The log is never behind the memory it protects: what the daemon holds   *)
(* in memory is what a replay of its log gives, but for the one operation  *)
(* that is on its way from the log to memory.  There are two exceptions,   *)
(* both after an append that failed or was cut short: its entry may be in  *)
(* the log all the same (`diverged'), and what it left may have made the   *)
(* log unreadable.  Executor, Persist; Wal::append, Wal::replay.           *)
LogAheadOfMemory ==
  up /\ ~diverged /\ Replay # Nothing =>
    Replay = IF inflight = Nothing THEN memory ELSE Apply(memory, inflight)

(* A pipeline that memory or the log has, has its workspace recorded there *)
(* with the name it runs under, wherever the daemon was killed while it    *)
(* handled the command.  Runtime::handle_command.                          *)
WorkspaceBeforePipeline ==
  \A s \in {memory, durable} : \A id \in PipelineId :
    Exists(s, id) => s.workspaces[id] = s.pipelines[id].name

(* Two pipelines never share a workspace: a name that is taken stops the   *)
(* second command before its pipeline exists, also when the first one was  *)
(* cut short by a crash or a fault.  Runtime::handle_command,              *)
(* GitAdapter::worktree_add.                                               *)
OneWorkspacePerPipeline ==
  \A i, j \in PipelineId :
    i # j /\ Exists(durable, i) /\ Exists(durable, j)
      => durable.pipelines[i].name # durable.pipelines[j].name

(* No session runs unknown to the log: the record, and the pipeline, of    *)
(* every session that is alive are among its entries, so a daemon that     *)
(* starts after a crash finds them.  (On a log that an append left         *)
(* unreadable no daemon starts.)  spawn::build_spawn_effects.              *)
SessionRecorded ==
  \A id \in PipelineId :
    tmux[id] # "none" => id \in durable.sessions /\ Exists(durable, id)

(* The result of a command the daemon ran is never stale: while it waits to*)
(* be handled its pipeline is still Running the phase of that command, so  *)
(* that handle_shell_completed drops no result but one that a client made  *)
(* up.  (The event a client sent is left out here while it is on the       *)
(* stack.)  DaemonState::process_event, Runtime::start_phase.              *)
ShellResultIsFresh ==
  LET sent    == IF call.reply = "pending" THEN {call.event} ELSE {}
      waiting == ({pending[i] : i \in DOMAIN pending} \ sent)
                 \cup {results[i] : i \in DOMAIN results}
  IN  \A e \in waiting :
        e.event = "ShellCompleted" =>
          /\ Exists(memory, e.id)
          /\ memory.pipelines[e.id].phase = e.phase
          /\ memory.pipelines[e.id].status = "Running"

(* A pipeline that needs nothing more from the daemon: it ended, it never  *)
(* had a phase, or its agent is at work.                                   *)
Settled(s, id) ==
  /\ Exists(s, id)
  /\ LET p == s.pipelines[id]
     IN  \/ p.status = "Completed"
         \/ p.phase = "failed" /\ p.status = "Pending"
         \/ p.phase = "init" /\ p.status = "Pending" /\ runbook.phases = <<>>
         \/ /\ InAgentPhase(runbook, p) /\ p.status = "Running"
            /\ id \in s.sessions

(* A client that is told "accepted" may rely on it as long as the log can  *)
(* be read: everything its event set in motion, the shell phases it ran    *)
(* through included, is over, and a replay of the log finds its pipeline at*)
(* rest.  (After an append that was cut short the answer is still          *)
(* "accepted", and no replay finds anything.  Resume only restarts the     *)
(* monitor.)  server::handle_request, DaemonState::process_event.          *)
OkMeansSettled ==
  [][call.reply = "pending" /\ call'.reply = "ok"
     /\ call.event.event \in {"CommandInvoked", "AgentDone", "AgentError"}
     /\ Replay # Nothing
       => Settled(Replay, call.event.id)]_vars

(* What the log records of pipelines is a life the runbook allows, whatever*)
(* clients, agents, faults and crashes do.                                 *)
Lifecycle == INSTANCE PipelineLifecycle
               WITH runbook <- runbook, pipelines <- durable.pipelines

PhaseFollowsRunbook == Lifecycle!LSpec

(* The same, record by record, where an append may also fail after its     *)
(* entry reached the log: every record up to that one, and from the next   *)
(* start on, is a step in the life of its pipeline.  In between handlers go*)
(* on from a memory that lacks the entry.  Executor, Persist.              *)
RecordsFollowRunbook ==
  [][~diverged => Lifecycle!LNext \/ UNCHANGED Lifecycle!lvars]_vars

(* The loop turns to nothing else before it has answered: while a client   *)
(* waits its event, or one that it led to, is on the stack or in a handler,*)
(* and no timer or session check is served in between.  This holds too of  *)
(* the runbooks that keep the client waiting for ever.                     *)
(* DaemonState::process_event.                                             *)
WaitingIsServed ==
  call.reply = "pending" =>
    /\ up /\ source = "client" /\ batch = {} /\ ~checkDue
    /\ running \/ pending # <<>>

(* A client is not left waiting: its request is answered, or the daemon    *)
(* died.  The runbook must not run in circles through shell phases: the    *)
(* loop would serve nobody else for as long as they did.                   *)
EveryRequestAnswered == call.reply = "pending" ~> call.reply # "pending"

-----------------------------------------------------------------------------
(* What the comments and the documents say and the code does not do.       *)

(* An agent phase whose session is gone is noticed, by the session check   *)
(* ("session gone") or by the monitor's timer (the daemon polls the        *)
(* scheduler "shared with runtime").  check_sessions, check_heartbeats.    *)
DeadSessionNoticed ==
  \A id \in PipelineId :
    LET working == /\ Exists(memory, id)
                   /\ InAgentPhase(runbook, memory.pipelines[id])
                   /\ memory.pipelines[id].status = "Running"
    IN  working /\ id \in memory.sessions /\ tmux[id] = "none"
          ~> \/ ~working \/ tmux[id] # "none"
             \/ TmuxExited(id) \in batch \/ Timer(id) \in batch
=============================================================================
