------------------------------- MODULE Engine -------------------------------
(***************************************************************************)
(* The daemon at work: its event loop (crates/daemon/src/main.rs,          *)
(* lifecycle.rs, server.rs), the executor that carries out the effects of  *)
(* its handlers (crates/engine/src/executor.rs), the scheduler, and the    *)
(* world those effects act on: tmux sessions, git worktrees, the log.      *)
(*                                                                         *)
(* The loop is one thread.  It serves one client request, one batch of     *)
(* fired timers or one session check at a time, runs one handler at a time *)
(* and carries out one effect at a time; each step below is one of those.  *)
(* Between any two steps the daemon may be killed, and the agents it       *)
(* started go on whether it runs or not.                                   *)
(*                                                                         *)
(* The log is represented by the state its entries give and by how its last*)
(* line stands; the module Wal models the file.                            *)
(***************************************************************************)
EXTENDS Handlers, FiniteSets

CONSTANTS
  Runbooks,     \* the runbooks a starting daemon may find
  Requests,     \* the kinds of request clients make
  MaxRequests,  \* bound: requests served in a behaviour
  MaxFaults,    \* bound: effects that fail with no cause in the model
  MaxStops,     \* bound: crashes and shutdowns
  SyncFaults    \* may an append fail after its entry reached the file?

RequestKinds == {"CommandInvoked", "AgentDone", "AgentError", "Event",
                 "PipelineFail", "PipelineResume", "SessionSend"}

ASSUME EngineAssumption ==
  /\ Runbooks # {} /\ \A rb \in Runbooks : rb \in RunbookType
  /\ Requests \subseteq RequestKinds
  /\ MaxRequests \in Nat /\ MaxFaults \in Nat /\ MaxStops \in Nat
  /\ SyncFaults \in BOOLEAN

VARIABLES
  up,         \* is a daemon running?
  runbook,    \* the runbook it loaded
  memory,     \* its materialized state
  durable,    \* the state that the entries in the log give, in their order
  log,        \* its last line: "ended", "open" (without its newline), or
              \* "unreadable", there or before
  inflight,   \* the operation appended to the log and not yet applied
  diverged,   \* history: an entry reached the log though its append failed
  source,     \* what the loop serves: "client", "timers" or "sessions"
  batch,      \* fired timers or exited sessions still to be handled
  checkDue,   \* a session check follows the timers
  pending,    \* DaemonState::process_event's stack of events
  running,    \* is a handler at work?
  todo,       \* the effects it still has to carry out
  results,    \* the events they returned so far
  call,       \* the client's request and the reply to it
  timers,     \* timers set in the runtime's scheduler
  heartbeats, \* timers set in the scheduler the loop polls
  tmux,       \* tmux[id]: no session, claude running in it, claude gone
  dirs,       \* names whose workspace directory exists
  branches,   \* names whose branch exists
  issued,     \* ids the generator has issued
  requests,   \* counts for the bounds
  faults,
  stops

stateVars == <<memory, durable, log, inflight, diverged>>
loopVars  == <<source, batch, checkDue, pending>>
handlerVars == <<running, todo, results>>
worldVars == <<tmux, dirs, branches>>
timerVars == <<timers, heartbeats>>
boundVars == <<requests, faults, stops>>
vars == <<up, runbook, stateVars, loopVars, handlerVars, call, timerVars,
          worldVars, issued, boundVars>>

(* What is left of a request once it is answered.                          *)
Answered(reply) == [event |-> Nothing, reply |-> reply]

NoCall == Answered("none")

TypeOK ==
  /\ up \in BOOLEAN
  /\ runbook \in Runbooks
  /\ memory \in State /\ durable \in State
  /\ log \in {"ended", "open", "unreadable"}
  /\ inflight \in Operation \cup {Nothing}
  /\ diverged \in BOOLEAN
  /\ source \in {"client", "timers", "sessions"}
  /\ batch \subseteq Event
  /\ checkDue \in BOOLEAN
  /\ pending \in Seq(Event)
  /\ running \in BOOLEAN
  /\ todo \in Seq(Effect)
  /\ results \in Seq(Event)
  /\ call \in [event : Event \cup {Nothing},
               reply : {"none", "pending", "ok", "error", "lost"}]
  /\ timers \subseteq PipelineId /\ heartbeats \subseteq PipelineId
  /\ tmux \in [PipelineId -> {"none", "claude", "shell"}]
  /\ dirs \subseteq Name /\ branches \subseteq Name
  /\ issued \subseteq PipelineId
  /\ requests \in Nat /\ faults \in Nat /\ stops \in Nat

Init ==
  /\ up = TRUE
  /\ runbook \in Runbooks
  /\ memory = EmptyState /\ durable = EmptyState /\ log = "ended"
  /\ inflight = Nothing /\ diverged = FALSE
  /\ source = "client" /\ batch = {} /\ checkDue = FALSE /\ pending = <<>>
  /\ running = FALSE /\ todo = <<>> /\ results = <<>>
  /\ call = NoCall
  /\ timers = {} /\ heartbeats = {}
  /\ tmux = [i \in PipelineId |-> "none"]
  /\ dirs = {} /\ branches = {}
  /\ issued = {}
  /\ requests = 0 /\ faults = 0 /\ stops = 0

Alive(sid) == \E i \in PipelineId : sid = SessionName(i) /\ tmux[i] # "none"

-----------------------------------------------------------------------------
(* The loop: what it serves next.                                          *)

(* Nothing is being served: the loop waits in its select!.                 *)
Waiting ==
  up /\ ~running /\ pending = <<>> /\ batch = {} /\ ~checkDue

(* server::handle_request hands an event to process_event; the client      *)
(* waits for the reply.                                                    *)
Serve(kind, e) ==
  /\ Waiting /\ kind \in Requests /\ requests < MaxRequests
  /\ requests' = requests + 1
  /\ source' = "client"
  /\ pending' = <<e>>
  /\ call' = [event |-> e, reply |-> "pending"]
  /\ UNCHANGED <<up, runbook, stateVars, batch, checkDue, handlerVars,
                 timerVars, worldVars, faults, stops>>

(* `oj run': the id is drawn from the generator, which never repeats one.  *)
ServeCommand(id, name) ==
  /\ id \notin issued
  /\ issued' = issued \cup {id}
  /\ Serve("CommandInvoked", CommandInvoked(id, name))

(* `oj done' and `oj done --error', run by the agent of the pipeline.  The *)
(* agent may be gone by the time its request is served: the connection     *)
(* waits in the backlog of the socket while the loop is busy.              *)
ServeAgent(id, e) ==
  /\ id \in memory.sessions
  /\ e \in {AgentDone(id), AgentError(id)}
  /\ Serve(e.event, e)
  /\ UNCHANGED issued

(* `oj pipeline fail' and `oj pipeline resume'.                            *)
ServePipeline(id, e) ==
  /\ id \in issued
  /\ e \in {AgentError(id), Resume(id)}
  /\ Serve(IF e.event = "AgentError" THEN "PipelineFail" ELSE "PipelineResume",
           e)
  /\ UNCHANGED issued

(* Request::Event carries any event a client cares to send; these are the  *)
(* ones that the requests above do not make.  `oj emit' sends custom       *)
(* events: a line for the session it names.  `oj done' may be run where    *)
(* the pipeline has no session.  No part of the program sends              *)
(* SessionExited, ShellCompleted or Timer; a client of its own may.        *)
ClientEvents ==
  {SendInput(sid) : sid \in SessionId}
  \cup {SessionExited(sid, code) : sid \in SessionId, code \in ExitCodes}
  \cup {AgentDone(id) : id \in issued} \cup {Timer(id) : id \in issued}
  \cup {ShellCompleted(id, phase, code) :
          id \in issued, phase \in PhaseName, code \in ExitCodes}

ServeEvent(e) == Serve("Event", e) /\ UNCHANGED issued

(* Mutant: a pipeline without a session is not noticed.                    *)
ServeSessionSendNone(id) ==
  /\ id \in issued
  /\ Serve("SessionSend",
           SendInput(IF id \in memory.sessions THEN id ELSE Nothing))
  /\ UNCHANGED issued

(* `oj session send': the record of the session is looked up, else the     *)
(* session of the pipeline.                                                *)
ServeSessionSend(id) ==
  LET sid == IF id \in memory.sessions THEN id
             ELSE IF Exists(memory, id) THEN memory.pipelines[id].session
             ELSE Nothing
  IN  /\ id \in issued
      /\ UNCHANGED issued
      /\ \/ sid # Nothing /\ Serve("SessionSend", SendInput(sid))
         \/ /\ sid = Nothing
            /\ Waiting /\ "SessionSend" \in Requests /\ requests < MaxRequests
            /\ requests' = requests + 1
            /\ call' = Answered("error")
            /\ UNCHANGED <<up, runbook, stateVars, loopVars, handlerVars,
                           timerVars, worldVars, faults, stops>>

(* The second of sleep is over: check_heartbeats takes the timers that     *)
(* fired out of the scheduler it polls; every tenth second or so a session *)
(* check follows.                                                          *)
Tick ==
  /\ Waiting
  /\ \E fired \in SUBSET heartbeats :
       /\ batch' = {Timer(i) : i \in fired}
       /\ heartbeats' = heartbeats \ fired
  /\ source' = "timers"
  /\ checkDue' \in BOOLEAN
  /\ UNCHANGED <<up, runbook, stateVars, pending, handlerVars, call, timers,
                 worldVars, issued, boundVars>>

(* lifecycle::check_sessions: of the pipelines that have a session and are *)
(* not terminal, those whose session, or the claude in it, is gone.        *)
ExitedSessions ==
  LET watched == {i \in PipelineId :
                    /\ Exists(memory, i) /\ ~IsTerminal(memory.pipelines[i])
                    /\ memory.pipelines[i].session # Nothing}
      gone == {i \in watched : ~Alive(memory.pipelines[i].session)}
      idle == {i \in watched \ gone :
                 \A j \in PipelineId :
                    memory.pipelines[i].session = SessionName(j)
                      => tmux[j] = "shell"}
  IN  {TmuxExited(i) : i \in gone} \cup {ClaudeExited(i) : i \in idle}

CheckSessions ==
  /\ checkDue /\ batch = {} /\ ~running /\ pending = <<>>
  /\ checkDue' = FALSE
  /\ source' = "sessions"
  /\ batch' = ExitedSessions
  /\ UNCHANGED <<up, runbook, stateVars, pending, handlerVars, call,
                 timerVars, worldVars, issued, boundVars>>

-----------------------------------------------------------------------------
(* Handlers.                                                               *)

(* process_event pops the newest event of its stack; with an empty stack   *)
(* the loop takes the next of its batch.  What a session log shows is read *)
(* when a timer fires.                                                     *)
Dispatch ==
  /\ up /\ ~running
  /\ \E e \in IF pending # <<>> THEN {pending[Len(pending)]} ELSE batch :
       /\ \E seen \in IF e.event = "Timer" THEN LogStates ELSE {"missing"} :
            todo' = HandleEvent(runbook, memory, e, seen)
       /\ IF pending # <<>>
          THEN /\ pending' = SubSeq(pending, 1, Len(pending) - 1)
               /\ UNCHANGED batch
          ELSE /\ batch' = batch \ {e}
               /\ UNCHANGED pending
  /\ running' = TRUE
  /\ UNCHANGED <<up, runbook, stateVars, source, checkDue, results,
                 call, timerVars, worldVars, issued, boundVars>>

(* Mutant: the client is answered before the events its own event produced *)
(* are handled.                                                            *)
ReturnEarly ==
  /\ running /\ todo = <<>>
  /\ running' = FALSE /\ results' = <<>>
  /\ pending' = pending \o results
  /\ call' = IF source = "client" THEN Answered("ok") ELSE call
  /\ UNCHANGED <<up, runbook, stateVars, source, batch, checkDue, todo,
                 timerVars, worldVars, issued, boundVars>>

(* A handler returns Ok.  process_event stacks the events it produced and  *)
(* goes on, or, with none left, answers the client; the session check      *)
(* throws them away.                                                       *)
Return ==
  LET left == IF source = "sessions" THEN pending ELSE pending \o results
  IN  /\ running /\ todo = <<>>
      /\ running' = FALSE /\ results' = <<>>
      /\ pending' = left
      /\ call' = IF source = "client" /\ left = <<>> THEN Answered("ok") ELSE call
      /\ UNCHANGED <<up, runbook, stateVars, source, batch, checkDue, todo,
                     timerVars, worldVars, issued, boundVars>>

(* Mutant: the error of a handler is logged and not answered.              *)
UnwindUnanswered ==
  /\ running' = FALSE /\ todo' = <<>> /\ results' = <<>>
  /\ pending' = <<>>
  /\ batch' = IF source = "timers" THEN {} ELSE batch
  /\ UNCHANGED call

(* A handler returns Err: the effects it had left, the events it had       *)
(* produced and those on the stack are dropped, and with them the timers   *)
(* that fired in the same second.                                          *)
Unwind ==
  /\ running' = FALSE /\ todo' = <<>> /\ results' = <<>>
  /\ pending' = <<>>
  /\ batch' = IF source = "timers" THEN {} ELSE batch
  /\ call' = IF source = "client" THEN Answered("error") ELSE call

-----------------------------------------------------------------------------
(* Effects: Executor::execute_inner, and execute_all's order.              *)

NextIs(kind) ==
  running /\ todo # <<>> /\ Head(todo).effect = kind

EffectDone ==
  /\ todo' = Tail(todo)
  /\ UNCHANGED <<up, runbook, loopVars, running, call, issued, boundVars>>

(* The log once an entry, or a part of one, is written to it: on a line of *)
(* its own, unless the last one was left open.  A line that holds more than*)
(* an entry, or less, does not parse.                                      *)
LogWith(line) == IF log = "ended" THEN line ELSE "unreadable"

(* Persist is two steps: the append, synced to disk, then the change in    *)
(* memory.  Wal::append does not look at how the last line stands.         *)
AppendToWal ==
  /\ NextIs("Persist") /\ inflight = Nothing
  /\ inflight' = Head(todo).operation
  /\ durable' = Apply(durable, Head(todo).operation)
  /\ log' = LogWith("ended")
  /\ UNCHANGED <<up, runbook, memory, diverged, loopVars, handlerVars, call,
                 timerVars, worldVars, issued, boundVars>>

ApplyToState ==
  /\ NextIs("Persist") /\ inflight # Nothing
  /\ memory' = Apply(memory, inflight)
  /\ inflight' = Nothing
  /\ EffectDone
  /\ UNCHANGED <<durable, log, diverged, results, timerVars, worldVars>>

(* Effects that fail for a reason the model knows.                         *)
MustFail(x) ==
  \/ x.effect = "Abort"
  \/ x.effect = "WorktreeAdd" /\ x.name \in dirs \cup branches
  \/ x.effect = "WorktreeRemove" /\ x.name \notin dirs
  \/ x.effect = "Spawn" /\ memory.workspaces[x.id] = Nothing
  \/ x.effect = "Send" /\ ~Alive(x.session)
  \/ x.effect = "Shell" /\ x.name \notin dirs

(* What an effect that succeeds leaves behind.  tmux kills a session of the *)
(* same name before it starts one, and killing one that is gone succeeds;  *)
(* a workspace directory that is missing is made.                          *)
TmuxAfter(x) ==
  CASE x.effect = "Spawn" -> [tmux EXCEPT ![x.id] = "claude"]
    [] x.effect = "Kill"  ->
         [i \in PipelineId |-> IF x.session = SessionName(i) THEN "none"
                                                             ELSE tmux[i]]
    [] OTHER -> tmux

DirsAfter(x) ==
  CASE x.effect \in {"WorktreeAdd", "PrepareWorkspace"} -> dirs \cup {x.name}
    [] x.effect = "WorktreeRemove" -> dirs \ {x.name}
    [] OTHER -> dirs

BranchesAfter(x) ==
  IF x.effect = "WorktreeAdd" THEN branches \cup {x.name} ELSE branches

TimersAfter(x) ==
  CASE x.effect = "SetTimer"    -> timers \cup {x.id}
    [] x.effect = "CancelTimer" -> timers \ {x.id}
    [] OTHER -> timers

ChangeWorld ==
  LET x == Head(todo)
  IN  /\ running /\ todo # <<>>
      /\ x.effect \notin {"Persist", "Shell"} /\ ~MustFail(x)
      /\ tmux' = TmuxAfter(x)
      /\ dirs' = DirsAfter(x) /\ branches' = BranchesAfter(x)
      /\ timers' = TimersAfter(x)
      /\ EffectDone
      /\ UNCHANGED <<stateVars, results, heartbeats>>

(* The shell command runs to its end while the loop waits, and its result  *)
(* becomes an event.                                                       *)
RunShell ==
  /\ NextIs("Shell") /\ Head(todo).name \in dirs
  /\ \E code \in ExitCodes :
       results' = Append(results, ShellCompleted(Head(todo).id,
                                                 Head(todo).phase, code))
  /\ EffectDone
  /\ UNCHANGED <<stateVars, timerVars, worldVars>>

EffectRefused ==
  /\ running /\ todo # <<>> /\ MustFail(Head(todo))
  /\ Unwind
  /\ UNCHANGED <<up, runbook, stateVars, source, checkDue, timerVars,
                 worldVars, issued, boundVars>>

(* An adapter or the disk fails, and part of the effect may be there by    *)
(* then: Spawn has killed the session that was there; git has made the     *)
(* branch, or the branch and the directory; a directory was made or        *)
(* removed.                                                                *)
EffectFails ==
  LET x == Head(todo)
  IN  /\ running /\ todo # <<>> /\ ~MustFail(x) /\ faults < MaxFaults
      /\ x.effect \in {"Spawn", "Send", "Kill", "WorktreeAdd",
                       "WorktreeRemove", "PrepareWorkspace", "Shell"}
      /\ \/ UNCHANGED tmux
         \/ x.effect = "Spawn" /\ tmux' = [tmux EXCEPT ![x.id] = "none"]
      /\ branches' \in {branches, BranchesAfter(x)}
      /\ dirs' \in {dirs} \cup (IF branches' = BranchesAfter(x)
                               THEN {DirsAfter(x)} ELSE {})
      /\ faults' = faults + 1
      /\ Unwind
      /\ UNCHANGED <<up, runbook, stateVars, source, checkDue, timerVars,
                     issued, requests, stops>>

(* Mutant: the result of the append is not looked at.                      *)
AppendFailsUnnoticed ==
  /\ NextIs("Persist") /\ inflight = Nothing /\ faults < MaxFaults
  /\ memory' = Apply(memory, Head(todo).operation)
  /\ todo' = Tail(todo)
  /\ faults' = faults + 1
  /\ UNCHANGED <<up, runbook, durable, log, diverged, inflight, loopVars, running,
                 results, call, timerVars, worldVars, issued, requests, stops>>

(* Wal::append fails and the daemon goes on.  Nothing was written, or a    *)
(* part of the entry, or the whole of it and the newline or the sync is    *)
(* what failed.                                                            *)
AppendFails ==
  /\ NextIs("Persist") /\ inflight = Nothing /\ faults < MaxFaults
  /\ \/ UNCHANGED <<durable, log, diverged>>
     \/ log' = "unreadable" /\ UNCHANGED <<durable, diverged>>
     \/ /\ SyncFaults
        /\ log' \in {LogWith("open"), LogWith("ended")}
        /\ durable' = Apply(durable, Head(todo).operation)
        /\ diverged' = TRUE
  /\ faults' = faults + 1
  /\ Unwind
  /\ UNCHANGED <<up, runbook, memory, inflight, source, checkDue, timerVars,
                 worldVars, issued, requests, stops>>

-----------------------------------------------------------------------------
(* The daemon's life, and what happens around it.                          *)

(* What goes with the process.                                             *)
LoseMemory ==
  /\ up' = FALSE
  /\ memory' = EmptyState /\ inflight' = Nothing
  /\ batch' = {} /\ checkDue' = FALSE /\ pending' = <<>>
  /\ running' = FALSE /\ todo' = <<>> /\ results' = <<>>
  /\ timers' = {} /\ heartbeats' = {}
  /\ call' = IF call.reply = "pending" THEN Answered("lost") ELSE call
  /\ stops' = stops + 1
  /\ UNCHANGED <<runbook, diverged, source, worldVars, issued, requests, faults>>

(* The process is killed; what it wrote stays.                             *)
Crash == up /\ stops < MaxStops /\ LoseMemory /\ UNCHANGED <<durable, log>>

(* It is killed in an append, between the entry and its newline.           *)
KilledInAppend ==
  /\ NextIs("Persist") /\ inflight = Nothing /\ stops < MaxStops
  /\ LoseMemory
  /\ durable' = Apply(durable, Head(todo).operation)
  /\ log' = LogWith("open")

(* A shutdown request or a signal is looked at between two turns of the    *)
(* loop; nothing is drained or saved.                                      *)
Shutdown ==
  Waiting /\ stops < MaxStops /\ LoseMemory /\ UNCHANGED <<durable, log>>

(* What a replay gives: a line that does not parse is an error.            *)
Replay == IF log = "unreadable" THEN Nothing ELSE durable

(* lifecycle::startup_inner: load the runbook, replay the log, log         *)
(* warnings; both schedulers are new.  No daemon starts on a log that      *)
(* cannot be read.                                                         *)
Startup ==
  /\ ~up /\ Replay # Nothing
  /\ up' = TRUE
  /\ runbook' \in Runbooks
  /\ memory' = Replay
  /\ diverged' = FALSE
  /\ UNCHANGED <<durable, log, inflight, loopVars, handlerVars, call, timerVars,
                 worldVars, issued, boundVars>>

(* Claude exits; tmux closes the session with it unless it was started     *)
(* from a shell.                                                           *)
AgentExits(id) ==
  /\ tmux[id] = "claude"
  /\ \E left \in {"none", "shell"} : tmux' = [tmux EXCEPT ![id] = left]
  /\ UNCHANGED <<up, runbook, stateVars, loopVars, handlerVars, call,
                 timerVars, dirs, branches, issued, boundVars>>

Client ==
  \/ \E id \in PipelineId, name \in Name : ServeCommand(id, name)
  \/ \E id \in PipelineId : ServeAgent(id, AgentDone(id))
  \/ \E id \in PipelineId : ServeAgent(id, AgentError(id))
  \/ \E id \in PipelineId : ServePipeline(id, AgentError(id))
  \/ \E id \in PipelineId : ServePipeline(id, Resume(id))
  \/ \E id \in PipelineId : ServeSessionSend(id)
  \/ \E e \in ClientEvents : ServeEvent(e)

(* What the daemon's thread does once it has something to do.              *)
Work ==
  \/ CheckSessions \/ Dispatch \/ Return
  \/ AppendToWal \/ ApplyToState \/ ChangeWorld \/ RunShell
  \/ EffectRefused

Next ==
  \/ Client \/ Tick \/ Work
  \/ EffectFails \/ AppendFails
  \/ Crash \/ KilledInAppend \/ Shutdown \/ Startup
  \/ \E id \in PipelineId : AgentExits(id)

Spec == Init /\ [][Next]_vars

(* The loop's thread does not stop while it has work, its sleep ends, and  *)
(* a client that finds no daemon starts one, if the log lets it.  Nothing  *)
(* is assumed of clients, agents and faults.                               *)
Fairness == WF_vars(Work) /\ WF_vars(Tick) /\ WF_vars(Startup)

FairSpec == Spec /\ Fairness
=============================================================================
