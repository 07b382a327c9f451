----------------------------- MODULE EnginePlans -----------------------------
(***************************************************************************)
(* Why the engine keeps its promises: the inductive invariants behind the  *)
(* properties of EngineProperties.                                         *)
(*                                                                         *)
(* A handler asks for its effects in one order: the workspace, the         *)
(* pipeline, its phase, its status, its session, and last what runs the    *)
(* phase.  Whatever the part still to come does not mention any more has   *)
(* happened.  Most of what is true in the middle of a handler can be said  *)
(* like that, of memory by the effects to be carried out and of the log by *)
(* the operations to be appended.                                          *)
(***************************************************************************)
EXTENDS EngineProperties

-----------------------------------------------------------------------------
(* The effects of one handler.                                             *)

Kind(x) == IF x.effect = "Persist" THEN x.operation.op ELSE x.effect

Place(kind) ==
  CASE kind = "WorkspaceCreate"    -> 1
    [] kind = "WorktreeAdd"        -> 2
    [] kind = "PipelineCreate"     -> 3
    [] kind = "PipelineTransition" -> 4
    [] kind = "PhaseStatusUpdate"  -> 5
    [] kind = "PrepareWorkspace"   -> 6
    [] kind = "SessionCreate"      -> 7
    [] kind = "Spawn"              -> 8
    [] kind = "SetTimer"           -> 9
    [] OTHER                       -> 10    \* Shell, Send and Abort come last

(* What a handler asks for while no pipeline has a session: nothing is     *)
(* killed, removed or deleted.                                             *)
PlanKinds ==
  {"WorkspaceCreate", "WorktreeAdd", "PipelineCreate", "PipelineTransition",
   "PhaseStatusUpdate", "PrepareWorkspace", "SessionCreate", "Spawn",
   "SetTimer", "Shell", "Send", "Abort"}

Creating == {"WorkspaceCreate", "WorktreeAdd", "PipelineCreate"}
Moves    == {"PipelineCreate", "PipelineTransition"}
OnPipeline ==
  {"PipelineTransition", "PhaseStatusUpdate", "SessionCreate", "Spawn",
   "SetTimer", "Shell"}

Has(t, kind) == \E k \in DOMAIN t : Kind(t[k]) = kind

Moved(t) == Has(t, "PipelineCreate") \/ Has(t, "PipelineTransition")

InOrder(x, y) ==
  \/ Place(Kind(x)) < Place(Kind(y))
  \/ Kind(x) = Kind(y) /\ Kind(x) \in {"PipelineTransition", "SetTimer"}

Ordered(t) == \A j, k \in DOMAIN t : j < k => InOrder(t[j], t[k])

(* The effect concerns pipeline id, and no other workspace than n.         *)
About(x, id, n) ==
  /\ Kind(x) \in PlanKinds
  /\ x.effect = "Persist" => x.operation.id = id
  /\ Kind(x) \in {"Spawn", "SetTimer", "Shell"} => x.id = id
  /\ Kind(x) \in {"WorkspaceCreate", "PipelineCreate"} => x.operation.name = n
  /\ Kind(x) = "WorktreeAdd" => x.name = n
  /\ Kind(x) = "PhaseStatusUpdate" =>
       x.operation.status \in {"Running", "Completed"}

(* A phase that is run is marked Running first, and a shell command is the *)
(* one of the phase that the pipeline moves to.                            *)
RunsMarked(t) ==
  /\ Has(t, "Shell") \/ Has(t, "SetTimer") =>
       /\ Moved(t) => Has(t, "PhaseStatusUpdate")
       /\ \A k \in DOMAIN t : Kind(t[k]) = "PhaseStatusUpdate"
                                => t[k].operation.status = "Running"
  /\ \A j, k \in DOMAIN t : Kind(t[j]) = "Shell" /\ Kind(t[k]) \in Moves
                              => t[k].operation.phase = t[j].phase

Plan(t, id, n) ==
  /\ \A k \in DOMAIN t : About(t[k], id, n)
  /\ Ordered(t)
  /\ Has(t, "WorkspaceCreate") => Has(t, "PipelineCreate")
  /\ RunsMarked(t)

-----------------------------------------------------------------------------
(* What is true of a state when t is still to be done to it.               *)

Justified(s, t, id, n) ==
  /\ Has(t, "PipelineCreate") => ~Exists(s, id)
  /\ Has(t, "PipelineCreate") /\ ~Has(t, "WorkspaceCreate")
       => s.workspaces[id] = n
  /\ ~Has(t, "PipelineCreate") /\ (\E k \in DOMAIN t : Kind(t[k]) \in OnPipeline)
       => Exists(s, id)
  /\ Has(t, "Spawn") /\ ~Has(t, "SessionCreate") => id \in s.sessions
  /\ \A k \in DOMAIN t : Kind(t[k]) = "Shell" =>
       /\ ~Moved(t) => s.pipelines[id].phase = t[k].phase
       /\ ~Has(t, "PhaseStatusUpdate") => s.pipelines[id].status = "Running"

(* The id of a pipeline to be created was issued; once its worktree is made*)
(* its name is its own.                                                    *)
Claimed(t, id, n) ==
  Has(t, "PipelineCreate") =>
    /\ id \in issued
    /\ ~Has(t, "WorktreeAdd") =>
         /\ n \in branches
         /\ \A i \in PipelineId :
              Exists(durable, i) => durable.pipelines[i].name # n

(* What is still to be appended to the log.                                *)
Unlogged == IF inflight = Nothing THEN todo ELSE Tail(todo)

(* (Some handlers concern no pipeline, and most of them no name.)          *)
PlanInv ==
  \E id \in PipelineId \cup {Nothing}, n \in Name \cup {Nothing} :
    /\ Plan(todo, id, n)
    /\ Justified(memory, todo, id, n)
    /\ Justified(durable, Unlogged, id, n)
    /\ Claimed(Unlogged, id, n)

-----------------------------------------------------------------------------
(* The runbook, and where a handler leaves its pipeline.                   *)

(* Where success, and failure, in a phase lead.                            *)
Leads(rb, phase) ==
  LET next == NextPhaseName(rb, phase)
      fail == OnFail(rb, phase)
  IN  {IF next = Nothing \/ phase = "done" THEN "done" ELSE next,
       IF fail = Nothing THEN "failed" ELSE fail}

(* The phase the pipeline is in when the k-th effect of t is due.          *)
PhaseAt(s, t, id, k) ==
  IF k = 1 THEN s.pipelines[id].phase ELSE t[k - 1].operation.phase

(* The pipeline is created in its first phase, every move is one that the  *)
(* runbook makes, and it is only completed where it ends.                  *)
FollowsRunbook(rb, s, t, id) ==
  \A k \in DOMAIN t :
    /\ Kind(t[k]) = "PipelineCreate" =>
         /\ rb.defined
         /\ t[k].operation.phase = IF FirstPhase(rb) = Nothing THEN "init"
                                                              ELSE FirstPhase(rb)
    /\ Kind(t[k]) = "PipelineTransition" =>
         /\ t[k].operation.phase \in Leads(rb, PhaseAt(s, t, id, k))
         /\ k > 1 => Kind(t[k - 1]) = "PipelineTransition"
    /\ Kind(t[k]) = "PhaseStatusUpdate" /\ t[k].operation.status = "Completed" =>
         /\ PhaseAt(s, t, id, k) \in TerminalPhases
         /\ k > 1 => Kind(t[k - 1]) = "PipelineTransition"

(* The runbook has the phase, and an agent for it.                         *)
RunsAgent(rb, phase) ==
  /\ HasPhase(rb, phase)
  /\ GetPhase(rb, phase).run = "agent"
  /\ HasAgent(rb, GetPhase(rb, phase).agent)

(* With t done to s the pipeline is settled, unless t ends in an error or  *)
(* in a command whose result is still to be handled.                       *)
Settles(rb, s, t, id) ==
  LET last == t[Len(t)] IN
  /\ t # <<>>
  /\ Kind(last) \in {"PipelineCreate", "PipelineTransition", "PhaseStatusUpdate",
                     "SetTimer", "Shell", "Abort"}
  /\ Kind(last) = "PipelineCreate" =>
       last.operation.phase = "init" /\ rb.phases = <<>>
  /\ Kind(last) = "PipelineTransition" => last.operation.phase = "failed"
  /\ Kind(last) = "PhaseStatusUpdate" => last.operation.status = "Completed"
  /\ Kind(last) = "SetTimer" =>
       /\ \A k \in DOMAIN t : Kind(t[k]) \in Moves
                                => RunsAgent(rb, t[k].operation.phase)
       /\ ~Moved(t) => RunsAgent(rb, s.pipelines[id].phase)
       /\ ~Has(t, "PhaseStatusUpdate") => s.pipelines[id].status = "Running"
       /\ ~Has(t, "SessionCreate") => id \in s.sessions

-----------------------------------------------------------------------------
(* What is true of the state at any time: nothing links a pipeline to its  *)
(* session or workspace.                                                   *)
Good(s) ==
  \A i \in PipelineId : Exists(s, i) =>
    /\ i \in issued
    /\ s.pipelines[i].session = Nothing /\ s.pipelines[i].workspace = Nothing
    /\ s.workspaces[i] = s.pipelines[i].name

StateInv ==
  /\ Good(memory) /\ Good(durable)
  /\ \A i \in PipelineId : Exists(memory, i) => Exists(durable, i)
  /\ \A i \in PipelineId :
       Exists(durable, i) => durable.pipelines[i].name \in branches

(* The loop does one thing at a time.                                      *)
LoopInv ==
  /\ ~up => ~running /\ pending = <<>> /\ batch = {}
  /\ running => pending = <<>>
  /\ ~running => todo = <<>> /\ results = <<>> /\ inflight = Nothing
  /\ results # <<>> => todo = <<>>
  /\ inflight # Nothing =>
       /\ todo # <<>> /\ Head(todo).effect = "Persist"
       /\ Head(todo).operation = inflight
       /\ inflight.op = "PipelineCreate" => Exists(durable, inflight.id)
  /\ Len(pending) <= 1 /\ Len(results) <= 1

(* Session checks find nothing, and a command is for a new pipeline.       *)
EventInv ==
  /\ \A e \in batch : e.event = "Timer"
  /\ \A k \in DOMAIN results : results[k].event = "ShellCompleted"
  /\ \A k \in DOMAIN pending :
       /\ pending[k].event \notin {"TmuxExited", "ClaudeExited"}
       /\ pending[k].event = "CommandInvoked" =>
            /\ pending[k].id \in issued
            /\ ~Exists(memory, pending[k].id) /\ ~Exists(durable, pending[k].id)

(* While the log is what memory is, or one operation ahead of it, what is  *)
(* left of a handler moves its pipeline only where the runbook leads from  *)
(* the phase that the log has it in.  Runtime::handle_event.               *)
LifeInv ==
  ~diverged =>
    \E id \in PipelineId \cup {Nothing}, n \in Name \cup {Nothing} :
      /\ Plan(todo, id, n)
      /\ FollowsRunbook(runbook, durable, Unlogged, id)

(* A client waits for the end of what its event set in motion.             *)
Settling ==
  /\ source = "client" /\ call.reply = "pending"
  /\ call.event.event \in {"CommandInvoked", "AgentDone", "AgentError"}

(* While it waits, all that goes on is about its pipeline, and each handler*)
(* leaves the pipeline at rest, or ends in an error or in a shell command  *)
(* whose result is handled next.  DaemonState::process_event.              *)
SettleInv ==
  /\ source = "client" => batch = {}
  /\ Settling =>
       /\ \A k \in DOMAIN pending :
            \/ pending[k] = call.event
            \/ pending[k].event = "ShellCompleted" /\ pending[k].id = call.event.id
       /\ \A k \in DOMAIN results : results[k].id = call.event.id
       /\ running =>
            \E n \in Name \cup {Nothing} :
              /\ Plan(todo, call.event.id, n)
              /\ Justified(durable, Unlogged, call.event.id, n)
              /\ IF Unlogged = <<>>
                 THEN results # <<>> \/ Settled(durable, call.event.id)
                 ELSE Settles(runbook, durable, Unlogged, call.event.id)

(* Between any two effects of a handler, memory and the log hold whatever  *)
(* the effects still to come take for granted; the invariants of           *)
(* EngineProperties hold with it, and together they are inductive.         *)
(* Executor::execute_all, Runtime::handle_event.                           *)
EngineInv ==
  /\ LoopInv /\ EventInv /\ StateInv /\ PlanInv
  /\ OneWorkspacePerPipeline /\ SessionRecorded /\ ShellResultIsFresh
=============================================================================
