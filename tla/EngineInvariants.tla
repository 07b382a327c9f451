-------------------------- MODULE EngineInvariants --------------------------
(***************************************************************************)
(* Theorems about the engine, for any runbooks, pipelines, requests, faults*)
(* and crashes: the workspace of a pipeline is recorded before the         *)
(* pipeline, no two pipelines share one, every session is in the log, and  *)
(* no result of a command the daemon ran is stale.  They follow from EngineInv, which says what  *)
(* the effects still to be carried out may rely on.                        *)
(***************************************************************************)
EXTENDS PlanProofs

-----------------------------------------------------------------------------
(* Steps that leave most of the state alone.                               *)

(* Nothing is left to be done.                                             *)
LEMMA EmptyPlanInv ==
  ASSUME todo' = <<>>, inflight' = Nothing
  PROVE  PlanInv'
<1>1. Unlogged' = <<>>
  BY DEF Unlogged
<1>2. \A id, n, s : Plan(<<>>, id, n) /\ Justified(s, <<>>, id, n)
  BY DEF Plan, Justified, Has, Ordered, RunsMarked, Moved
<1>3. \A id, n : Claimed(Unlogged, id, n)'
  BY <1>1 DEF Claimed, Has
<1> QED BY <1>1, <1>2, <1>3 DEF PlanInv

(* The recorded pipelines stay as they are, and no session starts.         *)
LEMMA StatesKept ==
  ASSUME StateInv, OneWorkspacePerPipeline, SessionRecorded,
         memory' = memory, durable' = durable,
         issued \subseteq issued', branches \subseteq branches',
         \A id \in PipelineId : tmux[id] = "none" => tmux'[id] = "none"
  PROVE  StateInv' /\ OneWorkspacePerPipeline' /\ SessionRecorded'
<1>1. StateInv'
  BY DEF StateInv, Good
<1>2. OneWorkspacePerPipeline' /\ SessionRecorded'
  BY DEF OneWorkspacePerPipeline, SessionRecorded
<1> QED BY <1>1, <1>2

(* No event waits to be handled.                                           *)
LEMMA NoEventWaits ==
  ASSUME pending' = <<>>, results' = <<>>, \A e \in batch' : e.event = "Timer"
  PROVE  EventInv' /\ ShellResultIsFresh'
BY DEF EventInv, ShellResultIsFresh

-----------------------------------------------------------------------------
(* The loop takes up something new.                                        *)

LEMMA ServeInv ==
  ASSUME TypeOK, EngineInv, NEW kind, NEW e, Serve(kind, e),
         issued \subseteq issued',
         e.event \notin {"TmuxExited", "ClaudeExited"},
         e.event = "CommandInvoked" =>
           /\ e.id \in issued'
           /\ ~Exists(memory, e.id) /\ ~Exists(durable, e.id)
  PROVE  EngineInv'
<1>1. /\ up /\ ~running /\ pending = <<>> /\ batch = {}
      /\ pending' = <<e>>
      /\ UNCHANGED <<up, memory, durable, inflight, batch, running, todo, results,
                     tmux, branches>>
  BY DEF Serve, Waiting, stateVars, handlerVars, worldVars
<1>2. todo = <<>> /\ results = <<>> /\ inflight = Nothing
  BY <1>1 DEF EngineInv, LoopInv
<1>3. StateInv' /\ OneWorkspacePerPipeline' /\ SessionRecorded'
  BY <1>1, StatesKept DEF EngineInv
<1>4. PlanInv'
  BY <1>1, <1>2, EmptyPlanInv
<1>5. LoopInv'
  BY <1>1, <1>2 DEF LoopInv
<1>6. \A k \in DOMAIN pending' : pending'[k] = e
  BY <1>1
<1>7. EventInv'
  BY <1>1, <1>2, <1>6 DEF EventInv
<1>8. ShellResultIsFresh'
  <2>1. call'.event = e /\ call'.reply = "pending"
    BY DEF Serve
  <2> QED BY <1>1, <1>2, <1>6, <2>1 DEF ShellResultIsFresh
<1> QED BY <1>3, <1>4, <1>5, <1>7, <1>8 DEF EngineInv

LEMMA ClientInv == TypeOK /\ EngineInv /\ Client => EngineInv'
<1> SUFFICES ASSUME TypeOK, EngineInv, Client PROVE EngineInv'
  OBVIOUS
<1>1. CASE \E id \in PipelineId, name \in Name : ServeCommand(id, name)
  <2>1. PICK id \in PipelineId, name \in Name : ServeCommand(id, name)
    BY <1>1
  <2>2. id \notin issued /\ issued' = issued \cup {id}
        /\ Serve("CommandInvoked", CommandInvoked(id, name))
    BY <2>1 DEF ServeCommand
  <2>3. ~Exists(memory, id) /\ ~Exists(durable, id)
    BY <2>2 DEF EngineInv, StateInv, Good
  <2>4. /\ CommandInvoked(id, name).event = "CommandInvoked"
        /\ CommandInvoked(id, name).id = id
    BY DEF CommandInvoked
  <2> QED BY <2>2, <2>3, <2>4, ServeInv
<1>2. CASE \E id \in PipelineId : \E e \in {AgentDone(id), AgentError(id), Resume(id)} :
             ServeAgent(id, e) \/ ServePipeline(id, e)
  <2>1. PICK id \in PipelineId : \E e \in {AgentDone(id), AgentError(id), Resume(id)} :
          ServeAgent(id, e) \/ ServePipeline(id, e)
    BY <1>2
  <2>2. PICK e \in {AgentDone(id), AgentError(id), Resume(id)} :
          ServeAgent(id, e) \/ ServePipeline(id, e)
    BY <2>1
  <2>3. e.event \in {"AgentDone", "AgentError", "pipeline:resume"}
    BY <2>2 DEF AgentDone, AgentError, Resume
  <2>4. issued' = issued /\ \E kind : Serve(kind, e)
    BY <2>2 DEF ServeAgent, ServePipeline
  <2> QED BY <2>3, <2>4, ServeInv
<1>3. CASE \E id \in PipelineId : ServeSessionSend(id)
  <2>1. PICK id \in PipelineId : ServeSessionSend(id)
    BY <1>3
  <2>2. CASE \E sid : Serve("SessionSend", SendInput(sid))
    <3>1. \A sid : SendInput(sid).event = "session:send"
      BY DEF SendInput
    <3>2. issued' = issued
      BY <2>1 DEF ServeSessionSend
    <3> QED BY <2>2, <3>1, <3>2, ServeInv
  <2>3. CASE ~\E sid : Serve("SessionSend", SendInput(sid))
    <3>1. /\ ~running /\ pending = <<>> /\ batch = {}
          /\ UNCHANGED <<up, memory, durable, inflight, batch, pending, running,
                         todo, results, tmux, branches, issued>>
      BY <2>1, <2>3 DEF ServeSessionSend, Waiting, stateVars, loopVars,
                        handlerVars, worldVars
    <3>2. todo = <<>> /\ results = <<>> /\ inflight = Nothing
      BY <3>1 DEF EngineInv, LoopInv
    <3>3. StateInv' /\ OneWorkspacePerPipeline' /\ SessionRecorded'
      BY <3>1, StatesKept DEF EngineInv
    <3>4. PlanInv' /\ EventInv' /\ ShellResultIsFresh'
      BY <3>1, <3>2, EmptyPlanInv, NoEventWaits
    <3>5. LoopInv'
      BY <3>1 DEF EngineInv, LoopInv
    <3> QED BY <3>3, <3>4, <3>5 DEF EngineInv
  <2> QED BY <2>2, <2>3
<1>4. CASE \E e \in ClientEvents : ServeEvent(e)
  <2>1. PICK e \in ClientEvents : ServeEvent(e)
    BY <1>4
  <2>2. e.event \in {"session:send", "SessionExited", "Timer", "AgentDone",
                     "ShellCompleted"}
    BY DEF ClientEvents, SendInput, SessionExited, Timer, AgentDone,
           ShellCompleted
  <2>3. issued' = issued /\ Serve("Event", e)
    BY <2>1 DEF ServeEvent
  <2> QED BY <2>2, <2>3, ServeInv
<1> QED BY <1>1, <1>2, <1>3, <1>4 DEF Client

LEMMA TickInv == TypeOK /\ EngineInv /\ Tick => EngineInv'
<1> SUFFICES ASSUME TypeOK, EngineInv, Tick PROVE EngineInv'
  OBVIOUS
<1>1. /\ up /\ ~running /\ pending = <<>>
      /\ UNCHANGED <<up, memory, durable, inflight, pending, running, todo, results,
                     tmux, branches, issued>>
  BY DEF Tick, Waiting, stateVars, handlerVars, worldVars
<1>2. \A e \in batch' : e.event = "Timer"
  BY DEF Tick, Timer
<1>3. todo = <<>> /\ results = <<>> /\ inflight = Nothing
  BY <1>1 DEF EngineInv, LoopInv
<1>4. StateInv' /\ OneWorkspacePerPipeline' /\ SessionRecorded'
  BY <1>1, StatesKept DEF EngineInv
<1>5. PlanInv' /\ EventInv' /\ ShellResultIsFresh'
  BY <1>1, <1>2, <1>3, EmptyPlanInv, NoEventWaits
<1>6. LoopInv'
  BY <1>1, <1>3 DEF LoopInv
<1> QED BY <1>4, <1>5, <1>6 DEF EngineInv

(* A session check finds nothing: no pipeline is linked to its session.    *)
LEMMA CheckSessionsInv == TypeOK /\ EngineInv /\ CheckSessions => EngineInv'
<1> SUFFICES ASSUME TypeOK, EngineInv, CheckSessions PROVE EngineInv'
  OBVIOUS
<1>1. /\ ~running /\ pending = <<>>
      /\ UNCHANGED <<up, memory, durable, inflight, pending, running, todo, results,
                     tmux, branches, issued>>
  BY DEF CheckSessions, stateVars, handlerVars, worldVars
<1>2. batch' = {}
  <2>1. \A i \in PipelineId :
          Exists(memory, i) => memory.pipelines[i].session = Nothing
    BY DEF EngineInv, StateInv, Good
  <2>2. ExitedSessions = {}
    BY <2>1 DEF ExitedSessions
  <2> QED BY <2>2 DEF CheckSessions
<1>3. todo = <<>> /\ results = <<>> /\ inflight = Nothing
  BY <1>1 DEF EngineInv, LoopInv
<1>4. StateInv' /\ OneWorkspacePerPipeline' /\ SessionRecorded'
  BY <1>1, StatesKept DEF EngineInv
<1>5. PlanInv' /\ EventInv' /\ ShellResultIsFresh'
  BY <1>1, <1>2, <1>3, EmptyPlanInv, NoEventWaits
<1>6. LoopInv'
  BY <1>1, <1>2, <1>3 DEF LoopInv
<1> QED BY <1>4, <1>5, <1>6 DEF EngineInv

-----------------------------------------------------------------------------
(* A handler begins, and returns.                                          *)

(* What a handler asks for is justified by the state it found, and by the  *)
(* log, which knows at least the pipelines that memory knows.              *)
LEMMA PlannedJustified ==
  ASSUME NEW rb, NEW e, NEW t, NEW id, NEW n, NEW s, NEW m,
         Planned(rb, m, e, t, id, n),
         \A i \in PipelineId : Exists(m, i) => Exists(s, i),
         e.event = "CommandInvoked" => ~Exists(s, e.id),
         ~Has(t, "PipelineCreate") => id \in PipelineId
           \/ \A k \in DOMAIN t : Kind(t[k]) \notin OnPipeline
  PROVE  Plan(t, id, n) /\ Justified(s, t, id, n)
<1>1. /\ Plan(t, id, n) /\ (Has(t, "Spawn") => Has(t, "SessionCreate"))
      /\ (Has(t, "Shell") => Moved(t))
  BY DEF Planned, Asks
<1>2. Has(t, "Shell") => Has(t, "PhaseStatusUpdate")
  BY <1>1 DEF Plan, RunsMarked
<1>3. \A k \in DOMAIN t : Kind(t[k]) = "Shell" => Has(t, "Shell")
  BY DEF Has
<1> QED BY <1>1, <1>2, <1>3 DEF Justified, Planned

(* Only a pipeline has anything done to it.                                *)
LEMMA AboutPipeline ==
  ASSUME NEW t \in Seq(Effect), NEW id, NEW n, Plan(t, id, n),
         NEW k \in DOMAIN t, Kind(t[k]) \in OnPipeline
  PROVE  id \in PipelineId
<1>1. t[k] \in Effect /\ About(t[k], id, n)
  BY DEF Plan
<1>2. CASE t[k].effect = "Persist"
  <2>1. t[k].operation \in Operation /\ t[k].operation.op = Kind(t[k])
    BY <1>1, <1>2 DEF Effect, Abort, Kind
  <2>2. t[k].operation.id \in PipelineId
    BY <2>1 DEF Operation, OnPipeline
  <2> QED BY <1>1, <1>2, <2>2 DEF About
<1>3. CASE t[k].effect # "Persist"
  <2>1. t[k].effect = Kind(t[k]) /\ t[k].effect \in {"Spawn", "SetTimer", "Shell"}
    BY <1>1, <1>3 DEF Kind, OnPipeline, Effect, Abort
  <2>2. t[k].id \in PipelineId
    BY <1>1, <2>1 DEF Effect, Abort
  <2> QED BY <1>1, <2>1, <2>2 DEF About
<1> QED BY <1>2, <1>3

LEMMA DispatchInv == TypeOK /\ EngineInv /\ Dispatch => EngineInv'
<1> SUFFICES ASSUME TypeOK, EngineInv, Dispatch PROVE EngineInv'
  OBVIOUS
<1>1. /\ up /\ ~running /\ running'
      /\ UNCHANGED <<up, memory, durable, inflight, runbook, results, tmux, branches,
                     issued>>
  BY DEF Dispatch, stateVars, worldVars
<1>2. /\ results = <<>> /\ inflight = Nothing
      /\ pending \in Seq(Event) /\ Len(pending) <= 1
      /\ \A b \in batch : b.event = "Timer"
  BY <1>1 DEF EngineInv, LoopInv, EventInv, TypeOK
<1> DEFINE next == IF pending # <<>> THEN {pending[Len(pending)]} ELSE batch
<1>3. PICK e \in next :
        /\ \E seen : todo' = HandleEvent(runbook, memory, e, seen)
        /\ IF pending # <<>>
           THEN /\ pending' = SubSeq(pending, 1, Len(pending) - 1)
                /\ UNCHANGED batch
           ELSE /\ batch' = batch \ {e}
                /\ UNCHANGED pending
  BY DEF Dispatch
<1>4. pending' = <<>> /\ batch' \subseteq batch
  <2>1. CASE pending = <<>>
    BY <1>3, <2>1
  <2>2. CASE pending # <<>>
    <3>1. Len(pending) = 1
      <4>1. Len(pending) \in Nat /\ Len(pending) # 0
        BY <1>2, <2>2
      <4>2. Len(pending) <= 1
        BY <1>2
      <4> QED BY <4>1, <4>2
    <3>2. pending' = SubSeq(pending, 1, 0)
      BY <1>3, <2>2, <3>1
    <3>3. SubSeq(pending, 1, 0) = <<>>
      BY <1>2, SubSeqProperties
    <3> QED BY <1>3, <2>2, <3>2, <3>3
  <2> QED BY <2>1, <2>2
<1>5. /\ e \in Event /\ e.event \notin {"TmuxExited", "ClaudeExited"}
      /\ e.event = "CommandInvoked" =>
           /\ e.id \in issued
           /\ ~Exists(memory, e.id) /\ ~Exists(durable, e.id)
  <2>1. CASE pending = <<>>
    <3>1. e \in batch
      BY <2>1
    <3> QED BY <1>2, <3>1 DEF TypeOK
  <2>2. CASE pending # <<>>
    <3>1. Len(pending) \in DOMAIN pending /\ e = pending[Len(pending)]
      BY <1>2, <2>2
    <3>2. pending[Len(pending)] \in Event
      BY <1>2, <3>1
    <3> QED BY <3>1, <3>2 DEF EngineInv, EventInv
  <2> QED BY <2>1, <2>2
<1> HIDE DEF next
<1>6. /\ runbook \in RunbookType /\ memory \in State
      /\ Unlinked(memory)
      /\ \A i \in PipelineId : Exists(memory, i) => Exists(durable, i)
  BY EngineAssumption DEF TypeOK, EngineInv, StateInv, Good, Unlinked
<1>7. PICK id, n : Planned(runbook, memory, e, todo', id, n)
  <2>1. PICK seen : todo' = HandleEvent(runbook, memory, e, seen)
    BY <1>3
  <2> QED BY <1>5, <1>6, <2>1, HandlerPlanned
<1>8. /\ todo' \in Seq(Effect) /\ Plan(todo', id, n)
      /\ id \in PipelineId \cup {Nothing} /\ n \in Name \cup {Nothing}
  BY <1>7 DEF Planned, Asks
<1>9. id \in PipelineId \/ \A k \in DOMAIN todo' : Kind(todo'[k]) \notin OnPipeline
  BY <1>8, AboutPipeline
<1>10. Justified(memory, todo', id, n) /\ Justified(durable, todo', id, n)
  BY <1>5, <1>6, <1>7, <1>9, PlannedJustified
<1>11. Unlogged' = todo'
  BY <1>1, <1>2 DEF Unlogged
<1>12. Claimed(Unlogged, id, n)'
  BY <1>1, <1>5, <1>7, <1>11 DEF Claimed, Planned
<1>13. PlanInv'
  BY <1>1, <1>8, <1>10, <1>11, <1>12 DEF PlanInv
<1>14. StateInv' /\ OneWorkspacePerPipeline' /\ SessionRecorded'
  BY <1>1, StatesKept DEF EngineInv
<1>15. EventInv' /\ ShellResultIsFresh'
  BY <1>1, <1>2, <1>4, NoEventWaits
<1>16. LoopInv'
  BY <1>1, <1>2, <1>4 DEF LoopInv
<1> QED BY <1>13, <1>14, <1>15, <1>16 DEF EngineInv

LEMMA ReturnInv == TypeOK /\ EngineInv /\ Return => EngineInv'
<1> SUFFICES ASSUME TypeOK, EngineInv, Return PROVE EngineInv'
  OBVIOUS
<1>1. /\ running /\ todo = <<>> /\ running' = FALSE /\ results' = <<>>
      /\ pending' = pending \o results \/ pending' = pending
      /\ UNCHANGED <<up, memory, durable, inflight, batch, todo, tmux, branches,
                     issued>>
  BY DEF Return, stateVars, worldVars
<1>2. /\ pending = <<>> /\ inflight = Nothing /\ up
      /\ results \in Seq(Event) /\ Len(results) <= 1
  BY <1>1 DEF EngineInv, LoopInv, TypeOK
<1>3. pending' = results \/ pending' = <<>>
  <2>1. <<>> \o results = results
    BY <1>2, ConcatEmptySeq
  <2> QED BY <1>1, <1>2, <2>1
<1>4. StateInv' /\ OneWorkspacePerPipeline' /\ SessionRecorded'
  BY <1>1, StatesKept DEF EngineInv
<1>5. PlanInv'
  BY <1>1, <1>2, EmptyPlanInv
<1>6. LoopInv'
  BY <1>1, <1>2, <1>3 DEF LoopInv
<1>7. EventInv'
  BY <1>1, <1>3 DEF EngineInv, EventInv
<1>8. ShellResultIsFresh'
  BY <1>1, <1>3 DEF EngineInv, ShellResultIsFresh
<1> QED BY <1>4, <1>5, <1>6, <1>7, <1>8 DEF EngineInv

-----------------------------------------------------------------------------
(* Effects.                                                                *)

(* While an effect is due no event waits.                                  *)
LEMMA EffectDue ==
  ASSUME TypeOK, EngineInv, running, todo # <<>>
  PROVE  /\ up /\ pending = <<>> /\ results = <<>>
         /\ todo \in Seq(Effect) /\ memory \in State /\ durable \in State
         /\ \A e \in batch : e.event = "Timer"
         /\ inflight # Nothing =>
              /\ Head(todo).effect = "Persist" /\ Head(todo).operation = inflight
              /\ inflight.op = "PipelineCreate" => Exists(durable, inflight.id)
BY DEF TypeOK, EngineInv, LoopInv, EventInv

(* An operation that reaches the log keeps every promise about the log.    *)
LEMMA LogWritten ==
  ASSUME TypeOK, EngineInv, NextIs("Persist"), inflight = Nothing,
         durable' = Apply(durable, Head(todo).operation),
         UNCHANGED <<tmux, branches, issued>>,
         memory' = memory \/ memory' = EmptyState,
         NEW id, NEW n, id \in PipelineId \cup {Nothing},
         Plan(todo, id, n), Justified(durable, todo, id, n), Claimed(todo, id, n)
  PROVE  /\ StateInv' /\ OneWorkspacePerPipeline' /\ SessionRecorded'
         /\ Justified(durable', Tail(todo), id, n)
         /\ Head(todo).operation.op = "PipelineCreate" =>
              Exists(durable', Head(todo).operation.id)
         /\ \A i \in PipelineId : Exists(durable', i) /\ ~Exists(durable, i) =>
              Kind(Head(todo)) = "PipelineCreate"
         /\ \A i \in PipelineId : Exists(durable, i) =>
              durable'.pipelines[i].name = durable.pipelines[i].name
<1>1. /\ running /\ todo # <<>> /\ Head(todo).effect = "Persist"
      /\ todo \in Seq(Effect) /\ memory \in State /\ durable \in State
  BY EffectDue DEF NextIs
<1>2. PICK o : o = Head(todo).operation
  OBVIOUS
<1>3. PICK u : u = Apply(durable, o)
  OBVIOUS
<1>4. durable' = u
  BY <1>2, <1>3
<1>5. /\ o.op = Kind(Head(todo)) /\ o.id = id
  BY <1>1, <1>2, PersistHeadOf
<1>6. /\ durable.sessions \subseteq u.sessions
      /\ \A i \in PipelineId : Exists(durable, i) =>
           /\ Exists(u, i)
           /\ u.pipelines[i].name = durable.pipelines[i].name
           /\ u.pipelines[i].session = durable.pipelines[i].session
           /\ u.pipelines[i].workspace = durable.pipelines[i].workspace
           /\ u.workspaces[i] = durable.workspaces[i]
      /\ \A i \in PipelineId : Exists(u, i) /\ ~Exists(durable, i) =>
           /\ i = id /\ Kind(Head(todo)) = "PipelineCreate"
           /\ u.pipelines[i].name = n /\ u.workspaces[i] = n
           /\ u.pipelines[i].session = Nothing
           /\ u.pipelines[i].workspace = Nothing
      /\ Kind(Head(todo)) = "PipelineCreate" => id \in PipelineId /\ Exists(u, id)
  BY <1>1, <1>2, <1>3, PlanApply
<1>7. Kind(Head(todo)) = "PipelineCreate" =>
        /\ id \in issued /\ n \in branches
        /\ \A i \in PipelineId : Exists(durable, i) => durable.pipelines[i].name # n
  <2> SUFFICES ASSUME Kind(Head(todo)) = "PipelineCreate"
               PROVE  Has(todo, "PipelineCreate") /\ ~Has(todo, "WorktreeAdd")
    BY DEF Claimed
  <2>1. Place("WorktreeAdd") < Place("PipelineCreate")
    BY DEF Place
  <2> QED BY <1>1, <2>1, PlanRest
<1>8. StateInv'
  <2>1. \A i \in PipelineId : Exists(u, i) =>
          /\ i \in issued
          /\ u.pipelines[i].session = Nothing /\ u.pipelines[i].workspace = Nothing
          /\ u.workspaces[i] = u.pipelines[i].name
          /\ u.pipelines[i].name \in branches
    BY <1>6, <1>7 DEF EngineInv, StateInv, Good
  <2>2. \A i \in PipelineId : ~Exists(EmptyState, i)
    BY DEF Exists, EmptyState
  <2>3. /\ Good(memory)'
        /\ \A i \in PipelineId : Exists(memory', i) => Exists(u, i)
    BY <1>6, <2>2 DEF EngineInv, StateInv, Good
  <2> QED BY <1>4, <2>1, <2>3 DEF StateInv, Good
<1>9. OneWorkspacePerPipeline'
  BY <1>4, <1>6, <1>7 DEF EngineInv, OneWorkspacePerPipeline
<1>10. SessionRecorded'
  BY <1>4, <1>6 DEF EngineInv, SessionRecorded
<1>11. Justified(u, Tail(todo), id, n)
  BY <1>1, <1>2, <1>3, JustifiedPersist
<1> QED BY <1>2, <1>4, <1>5, <1>6, <1>8, <1>9, <1>10, <1>11

LEMMA AppendToWalInv == TypeOK /\ EngineInv /\ AppendToWal => EngineInv'
<1> SUFFICES ASSUME TypeOK, EngineInv, AppendToWal PROVE EngineInv'
  OBVIOUS
<1>1. /\ NextIs("Persist") /\ inflight = Nothing
      /\ inflight' = Head(todo).operation
      /\ durable' = Apply(durable, Head(todo).operation)
      /\ UNCHANGED <<up, memory, pending, batch, running, todo, results, tmux,
                     branches, issued>>
  BY DEF AppendToWal, loopVars, handlerVars, worldVars
<1>2. running /\ todo # <<>> /\ Head(todo).effect = "Persist"
  BY <1>1 DEF NextIs
<1>3. /\ up /\ pending = <<>> /\ results = <<>> /\ todo \in Seq(Effect)
      /\ \A e \in batch : e.event = "Timer"
  BY <1>2, EffectDue
<1>4. PICK id \in PipelineId \cup {Nothing}, n \in Name \cup {Nothing} :
        /\ Plan(todo, id, n) /\ Justified(memory, todo, id, n)
        /\ Justified(durable, todo, id, n) /\ Claimed(todo, id, n)
  BY <1>1 DEF EngineInv, PlanInv, Unlogged
<1>5. /\ StateInv' /\ OneWorkspacePerPipeline' /\ SessionRecorded'
      /\ Justified(durable', Tail(todo), id, n)
      /\ Head(todo).operation.op = "PipelineCreate" =>
           Exists(durable', Head(todo).operation.id)
      /\ \A i \in PipelineId : Exists(durable', i) /\ ~Exists(durable, i) =>
           Kind(Head(todo)) = "PipelineCreate"
      /\ \A i \in PipelineId : Exists(durable, i) =>
           durable'.pipelines[i].name = durable.pipelines[i].name
  BY <1>1, <1>4, LogWritten
<1>6. Head(todo).operation # Nothing
  BY <1>1, PersistHead, OperationAssumption
<1>7. Unlogged' = Tail(todo)
  BY <1>1, <1>6 DEF Unlogged
<1>8. Claimed(Unlogged, id, n)'
  <2> SUFFICES ASSUME Has(Tail(todo), "PipelineCreate")
               PROVE  /\ id \in issued
                      /\ ~Has(Tail(todo), "WorktreeAdd") =>
                           /\ n \in branches
                           /\ \A i \in PipelineId : Exists(durable', i) =>
                                durable'.pipelines[i].name # n
    BY <1>1, <1>7 DEF Claimed
  <2>1. Has(todo, "PipelineCreate") /\ Kind(Head(todo)) # "PipelineCreate"
    BY <1>2, <1>3, <1>4, PlanRest
  <2>2. Kind(Head(todo)) # "WorktreeAdd"
    BY <1>2, <1>3, <1>4, PersistHeadOf
  <2>3. Has(todo, "WorktreeAdd") => Has(Tail(todo), "WorktreeAdd")
    BY <1>2, <1>3, <1>4, <2>2, PlanRest
  <2> QED BY <1>4, <1>5, <2>1, <2>3 DEF Claimed
<1>9. PlanInv'
  BY <1>1, <1>4, <1>5, <1>7, <1>8 DEF PlanInv
<1>10. LoopInv'
  BY <1>1, <1>2, <1>3, <1>5 DEF EngineInv, LoopInv
<1>11. EventInv' /\ ShellResultIsFresh'
  BY <1>1, <1>3, NoEventWaits
<1> QED BY <1>5, <1>9, <1>10, <1>11 DEF EngineInv

LEMMA ApplyToStateInv == TypeOK /\ EngineInv /\ ApplyToState => EngineInv'
<1> SUFFICES ASSUME TypeOK, EngineInv, ApplyToState PROVE EngineInv'
  OBVIOUS
<1>1. /\ NextIs("Persist") /\ inflight # Nothing
      /\ memory' = Apply(memory, inflight)
      /\ inflight' = Nothing /\ todo' = Tail(todo)
      /\ UNCHANGED <<up, durable, pending, batch, running, results, tmux,
                     branches, issued>>
  BY DEF ApplyToState, EffectDone, loopVars, worldVars
<1>2. running /\ todo # <<>> /\ Head(todo).effect = "Persist"
  BY <1>1 DEF NextIs
<1>3. /\ up /\ pending = <<>> /\ results = <<>> /\ todo \in Seq(Effect)
      /\ memory \in State /\ durable \in State
      /\ \A e \in batch : e.event = "Timer"
      /\ Head(todo).operation = inflight
      /\ inflight.op = "PipelineCreate" => Exists(durable, inflight.id)
  BY <1>1, <1>2, EffectDue
<1>4. PICK id \in PipelineId \cup {Nothing}, n \in Name \cup {Nothing} :
        /\ Plan(todo, id, n) /\ Justified(memory, todo, id, n)
        /\ Justified(durable, Tail(todo), id, n) /\ Claimed(Tail(todo), id, n)
  BY <1>1 DEF EngineInv, PlanInv, Unlogged
<1>5. inflight.op = Kind(Head(todo)) /\ inflight.id = id
  BY <1>2, <1>3, <1>4, PersistHeadOf
<1>6. PICK u : u = Apply(memory, inflight)
  OBVIOUS
<1>7. /\ \A i \in PipelineId : Exists(memory, i) =>
           /\ Exists(u, i)
           /\ u.pipelines[i].name = memory.pipelines[i].name
           /\ u.pipelines[i].session = memory.pipelines[i].session
           /\ u.pipelines[i].workspace = memory.pipelines[i].workspace
           /\ u.workspaces[i] = memory.workspaces[i]
      /\ \A i \in PipelineId : Exists(u, i) /\ ~Exists(memory, i) =>
           /\ i = id /\ Kind(Head(todo)) = "PipelineCreate"
           /\ u.pipelines[i].name = n /\ u.workspaces[i] = n
           /\ u.pipelines[i].session = Nothing
           /\ u.pipelines[i].workspace = Nothing
  BY <1>2, <1>3, <1>4, <1>6, PlanApply
<1>8. Justified(u, Tail(todo), id, n)
  BY <1>2, <1>3, <1>4, <1>6, JustifiedPersist
<1>9. Plan(Tail(todo), id, n)
  BY <1>2, <1>3, <1>4, PlanTail
<1>10. Unlogged' = Tail(todo) /\ memory' = u
  BY <1>1, <1>6 DEF Unlogged
<1>11. Claimed(Unlogged, id, n)'
  BY <1>1, <1>4, <1>10 DEF Claimed
<1>12. PlanInv'
  BY <1>1, <1>4, <1>8, <1>9, <1>10, <1>11 DEF PlanInv
<1>13. StateInv'
  <2>1. \A i \in PipelineId : Exists(u, i) =>
          /\ Exists(durable, i)
          /\ u.pipelines[i].session = Nothing /\ u.pipelines[i].workspace = Nothing
          /\ u.workspaces[i] = u.pipelines[i].name
    BY <1>3, <1>5, <1>7 DEF EngineInv, StateInv, Good
  <2> QED BY <1>1, <1>10, <2>1 DEF EngineInv, StateInv, Good
<1>14. OneWorkspacePerPipeline' /\ SessionRecorded'
  BY <1>1 DEF EngineInv, OneWorkspacePerPipeline, SessionRecorded
<1>15. LoopInv'
  BY <1>1, <1>2, <1>3 DEF EngineInv, LoopInv
<1>16. EventInv' /\ ShellResultIsFresh'
  BY <1>1, <1>3, NoEventWaits
<1> QED BY <1>12, <1>13, <1>14, <1>15, <1>16 DEF EngineInv

(* The session that starts is recorded, and so is its pipeline.            *)
LEMMA SpawnRecorded ==
  ASSUME NEW s, NEW id, NEW n, NEW t \in Seq(Effect), t # <<>>,
         Plan(t, id, n), Justified(s, t, id, n), Head(t).effect = "Spawn"
  PROVE  Head(t).id = id /\ id \in s.sessions /\ Exists(s, id)
<1>1. Kind(Head(t)) = "Spawn"
  BY DEF Kind
<1>2. Place("PipelineCreate") < Place("Spawn") /\ Place("SessionCreate") < Place("Spawn")
  BY DEF Place
<1>3. Has(t, "Spawn") /\ ~Has(t, "PipelineCreate") /\ ~Has(t, "SessionCreate")
  BY <1>1, <1>2, PlanRest
<1>4. About(Head(t), id, n)
  BY PlanRest
<1>5. \E k \in DOMAIN t : Kind(t[k]) \in OnPipeline
  BY <1>3 DEF Has, OnPipeline
<1> QED BY <1>1, <1>3, <1>4, <1>5 DEF Justified, About

LEMMA ChangeWorldInv == TypeOK /\ EngineInv /\ ChangeWorld => EngineInv'
<1> SUFFICES ASSUME TypeOK, EngineInv, ChangeWorld PROVE EngineInv'
  OBVIOUS
<1>1. PICK x : x = Head(todo)
  OBVIOUS
<1>2. /\ running /\ todo # <<>>
      /\ x.effect \notin {"Persist", "Shell"} /\ ~MustFail(x)
      /\ tmux' = TmuxAfter(x) /\ branches' = BranchesAfter(x)
      /\ todo' = Tail(todo)
      /\ UNCHANGED <<up, memory, durable, inflight, pending, batch, running,
                     results, issued>>
  BY <1>1 DEF ChangeWorld, EffectDone, loopVars, stateVars
<1>3. /\ up /\ pending = <<>> /\ results = <<>> /\ todo \in Seq(Effect)
      /\ \A e \in batch : e.event = "Timer"
      /\ inflight = Nothing
  BY <1>1, <1>2, EffectDue
<1>4. PICK id \in PipelineId \cup {Nothing}, n \in Name \cup {Nothing} :
        /\ Plan(todo, id, n) /\ Justified(memory, todo, id, n)
        /\ Justified(durable, todo, id, n) /\ Claimed(todo, id, n)
  BY <1>3 DEF EngineInv, PlanInv, Unlogged
<1>5. /\ Plan(Tail(todo), id, n) /\ Justified(memory, Tail(todo), id, n)
      /\ Justified(durable, Tail(todo), id, n)
  BY <1>1, <1>2, <1>3, <1>4, PlanTail, JustifiedSkip
<1>6. Unlogged' = Tail(todo)
  BY <1>2, <1>3 DEF Unlogged
<1>7. branches \subseteq branches'
  BY <1>2 DEF BranchesAfter
<1>8. Claimed(Unlogged, id, n)'
  <2> SUFFICES ASSUME Has(Tail(todo), "PipelineCreate")
               PROVE  /\ id \in issued
                      /\ ~Has(Tail(todo), "WorktreeAdd") =>
                           /\ n \in branches'
                           /\ \A i \in PipelineId : Exists(durable, i) =>
                                durable.pipelines[i].name # n
    BY <1>2, <1>6 DEF Claimed
  <2>1. Has(todo, "PipelineCreate")
    BY <1>2, <1>3, <1>4, PlanRest
  <2>2. CASE Kind(x) # "WorktreeAdd"
    <3>1. Has(todo, "WorktreeAdd") => Has(Tail(todo), "WorktreeAdd")
      BY <1>1, <1>2, <1>3, <1>4, <2>2, PlanRest
    <3> QED BY <1>4, <1>7, <2>1, <3>1 DEF Claimed
  <2>3. CASE Kind(x) = "WorktreeAdd"
    <3>1. x.effect = "WorktreeAdd"
      BY <1>2, <2>3 DEF Kind
    <3>2. About(x, id, n)
      BY <1>1, <1>2, <1>3, <1>4, PlanRest
    <3>3. x.name = n
      BY <2>3, <3>2 DEF About
    <3>4. n \notin branches /\ n \in branches'
      BY <1>2, <3>1, <3>3 DEF MustFail, BranchesAfter
    <3>5. \A i \in PipelineId : Exists(durable, i) => durable.pipelines[i].name # n
      BY <3>4 DEF EngineInv, StateInv
    <3> QED BY <1>4, <2>1, <3>4, <3>5 DEF Claimed
  <2> QED BY <2>2, <2>3
<1>9. PlanInv'
  BY <1>2, <1>4, <1>5, <1>6, <1>8 DEF PlanInv
<1>10. StateInv' /\ OneWorkspacePerPipeline'
  BY <1>2, <1>7 DEF EngineInv, StateInv, Good, OneWorkspacePerPipeline
<1>11. SessionRecorded'
  <2>1. \A i \in PipelineId : tmux'[i] # "none" =>
          tmux[i] # "none" \/ (x.effect = "Spawn" /\ i = x.id)
    <3>1. tmux \in [PipelineId -> {"none", "claude", "shell"}]
      BY DEF TypeOK
    <3> QED BY <1>2, <3>1 DEF TmuxAfter
  <2>2. x.effect = "Spawn" => x.id \in durable.sessions /\ Exists(durable, x.id)
    BY <1>1, <1>2, <1>3, <1>4, SpawnRecorded
  <2> QED BY <1>2, <2>1, <2>2 DEF EngineInv, SessionRecorded
<1>12. LoopInv'
  BY <1>2, <1>3 DEF EngineInv, LoopInv
<1>13. EventInv' /\ ShellResultIsFresh'
  BY <1>2, <1>3, NoEventWaits
<1> QED BY <1>9, <1>10, <1>11, <1>12, <1>13 DEF EngineInv

(* The command that runs is that of the phase its pipeline is in, and it   *)
(* is the last that the handler asked for.                                 *)
LEMMA ShellFresh ==
  ASSUME NEW s, NEW id, NEW n, NEW t \in Seq(Effect), t # <<>>,
         Plan(t, id, n), Justified(s, t, id, n), Head(t).effect = "Shell"
  PROVE  /\ Head(t).id = id /\ id \in PipelineId /\ Exists(s, id)
         /\ s.pipelines[id].phase = Head(t).phase
         /\ s.pipelines[id].status = "Running"
         /\ Tail(t) = <<>>
<1>1. Kind(Head(t)) = "Shell" /\ Head(t) = t[1] /\ 1 \in DOMAIN t
  BY TailPlaces DEF Kind
<1>2. /\ Place("PipelineCreate") < Place("Shell")
      /\ Place("PipelineTransition") < Place("Shell")
      /\ Place("PhaseStatusUpdate") < Place("Shell")
  BY DEF Place
<1>3. ~Has(t, "PipelineCreate") /\ ~Moved(t) /\ ~Has(t, "PhaseStatusUpdate")
  BY <1>1, <1>2, PlanRest DEF Moved
<1>4. Head(t).id = id
  BY <1>1, PlanRest DEF About
<1>5. id \in PipelineId
  BY <1>1, AboutPipeline DEF OnPipeline
<1>6. Exists(s, id)
  BY <1>1, <1>3 DEF Justified, OnPipeline
<1>7. s.pipelines[id].phase = Head(t).phase /\ s.pipelines[id].status = "Running"
  BY <1>1, <1>3 DEF Justified
<1>8. Tail(t) = <<>>
  <2> SUFFICES ASSUME Tail(t) # <<>> PROVE FALSE
    OBVIOUS
  <2>1. Tail(t) \in Seq(Effect)
    BY TailPlaces
  <2>2. 1 \in DOMAIN Tail(t)
    BY <2>1
  <2>3. 2 \in DOMAIN t
    BY <2>2, TailPlaces
  <2>4. InOrder(t[1], t[2])
    BY <1>1, <2>3 DEF Plan, Ordered
  <2>5. Place("Shell") < Place(Kind(t[2]))
    BY <1>1, <2>4 DEF InOrder
  <2> QED BY <2>5 DEF Place
<1> QED BY <1>4, <1>5, <1>6, <1>7, <1>8

LEMMA RunShellInv == TypeOK /\ EngineInv /\ RunShell => EngineInv'
<1> SUFFICES ASSUME TypeOK, EngineInv, RunShell PROVE EngineInv'
  OBVIOUS
<1>1. PICK x : x = Head(todo)
  OBVIOUS
<1>2. PICK code \in ExitCodes :
        results' = Append(results, ShellCompleted(x.id, x.phase, code))
  BY <1>1 DEF RunShell
<1>3. /\ running /\ todo # <<>> /\ x.effect = "Shell"
      /\ todo' = Tail(todo)
      /\ UNCHANGED <<up, memory, durable, inflight, pending, batch, running,
                     tmux, branches, issued>>
  BY <1>1 DEF RunShell, NextIs, EffectDone, loopVars, stateVars, worldVars
<1>4. /\ up /\ pending = <<>> /\ results = <<>> /\ todo \in Seq(Effect)
      /\ \A e \in batch : e.event = "Timer"
      /\ inflight = Nothing
  BY <1>1, <1>3, EffectDue
<1>5. PICK id \in PipelineId \cup {Nothing}, n \in Name \cup {Nothing} :
        Plan(todo, id, n) /\ Justified(memory, todo, id, n)
  BY <1>4 DEF EngineInv, PlanInv
<1>6. /\ x.id = id /\ id \in PipelineId /\ Exists(memory, id)
      /\ memory.pipelines[id].phase = x.phase
      /\ memory.pipelines[id].status = "Running"
      /\ Tail(todo) = <<>>
  BY <1>1, <1>3, <1>4, <1>5, ShellFresh
<1>7. PICK e : e = ShellCompleted(x.id, x.phase, code)
  OBVIOUS
<1>8. e.event = "ShellCompleted" /\ e.id = x.id /\ e.phase = x.phase
  BY <1>7 DEF ShellCompleted
<1>9. results' = << e >>
  BY <1>2, <1>4, <1>7
<1>10. PlanInv'
  BY <1>3, <1>4, <1>6, EmptyPlanInv
<1>11. StateInv' /\ OneWorkspacePerPipeline' /\ SessionRecorded'
  BY <1>3, StatesKept DEF EngineInv
<1>12. LoopInv'
  BY <1>3, <1>4, <1>6, <1>9 DEF EngineInv, LoopInv
<1>13. EventInv'
  BY <1>3, <1>4, <1>8, <1>9 DEF EngineInv, EventInv
<1>14. ShellResultIsFresh'
  BY <1>3, <1>4, <1>6, <1>8, <1>9 DEF ShellResultIsFresh
<1> QED BY <1>10, <1>11, <1>12, <1>13, <1>14 DEF EngineInv

(* An error ends the handler and drops what it had left.                   *)
LEMMA UnwindInv ==
  ASSUME TypeOK, EngineInv, running, todo # <<>>, Unwind,
         up' = up, inflight' = Nothing,
         StateInv', OneWorkspacePerPipeline', SessionRecorded'
  PROVE  EngineInv'
<1>1. /\ running' = FALSE /\ todo' = <<>> /\ results' = <<>> /\ pending' = <<>>
      /\ batch' \subseteq batch
  BY DEF Unwind
<1>2. up /\ \A e \in batch : e.event = "Timer"
  BY EffectDue
<1>3. PlanInv' /\ EventInv' /\ ShellResultIsFresh'
  BY <1>1, <1>2, EmptyPlanInv, NoEventWaits
<1>4. LoopInv'
  BY <1>1, <1>2 DEF LoopInv
<1> QED BY <1>3, <1>4 DEF EngineInv

(* Only an append leaves an operation on its way to memory.                *)
LEMMA EffectRefusedInv == TypeOK /\ EngineInv /\ EffectRefused => EngineInv'
<1> SUFFICES ASSUME TypeOK, EngineInv, EffectRefused PROVE EngineInv'
  OBVIOUS
<1>1. /\ running /\ todo # <<>> /\ MustFail(Head(todo)) /\ Unwind
      /\ UNCHANGED <<up, memory, durable, inflight, tmux, branches, issued>>
  BY DEF EffectRefused, stateVars, worldVars
<1>2. inflight = Nothing
  BY <1>1, EffectDue DEF MustFail
<1>3. StateInv' /\ OneWorkspacePerPipeline' /\ SessionRecorded'
  BY <1>1, StatesKept DEF EngineInv
<1> QED BY <1>1, <1>2, <1>3, UnwindInv

LEMMA EffectFailsInv == TypeOK /\ EngineInv /\ EffectFails => EngineInv'
<1> SUFFICES ASSUME TypeOK, EngineInv, EffectFails PROVE EngineInv'
  OBVIOUS
<1>1. /\ running /\ todo # <<>> /\ Head(todo).effect # "Persist" /\ Unwind
      /\ UNCHANGED <<up, memory, durable, inflight, issued>>
      /\ branches \subseteq branches'
      /\ tmux' = tmux \/ tmux' = [tmux EXCEPT ![Head(todo).id] = "none"]
  BY DEF EffectFails, BranchesAfter, stateVars
<1>2. inflight = Nothing
  BY <1>1, EffectDue
<1>3. \A id \in PipelineId : tmux[id] = "none" => tmux'[id] = "none"
  BY <1>1 DEF TypeOK
<1>4. StateInv' /\ OneWorkspacePerPipeline' /\ SessionRecorded'
  BY <1>1, <1>3, StatesKept DEF EngineInv
<1> QED BY <1>1, <1>2, <1>4, UnwindInv

LEMMA AppendFailsInv == TypeOK /\ EngineInv /\ AppendFails => EngineInv'
<1> SUFFICES ASSUME TypeOK, EngineInv, AppendFails PROVE EngineInv'
  OBVIOUS
<1>1. /\ NextIs("Persist") /\ inflight = Nothing /\ Unwind
      /\ UNCHANGED <<up, memory, inflight, tmux, branches, issued>>
      /\ \/ durable' = durable
         \/ durable' = Apply(durable, Head(todo).operation)
  BY DEF AppendFails, worldVars
<1>2. running /\ todo # <<>>
  BY <1>1 DEF NextIs
<1>3. StateInv' /\ OneWorkspacePerPipeline' /\ SessionRecorded'
  <2>1. CASE durable' = durable
    BY <1>1, <2>1, StatesKept DEF EngineInv
  <2>2. CASE durable' = Apply(durable, Head(todo).operation)
    <3>1. PICK id \in PipelineId \cup {Nothing}, n \in Name \cup {Nothing} :
            /\ Plan(todo, id, n) /\ Justified(durable, todo, id, n)
            /\ Claimed(todo, id, n)
      BY <1>1 DEF EngineInv, PlanInv, Unlogged
    <3> QED BY <1>1, <2>2, <3>1, LogWritten
  <2> QED BY <1>1, <2>1, <2>2
<1> QED BY <1>1, <1>2, <1>3, UnwindInv

-----------------------------------------------------------------------------
(* The daemon's life.                                                      *)

LEMMA LoseMemoryInv ==
  ASSUME TypeOK, EngineInv, Crash \/ KilledInAppend \/ Shutdown
  PROVE  EngineInv'
<1>1. /\ up' = FALSE /\ memory' = EmptyState /\ inflight' = Nothing
      /\ batch' = {} /\ pending' = <<>>
      /\ running' = FALSE /\ todo' = <<>> /\ results' = <<>>
      /\ UNCHANGED <<tmux, branches, issued>>
  BY DEF Crash, KilledInAppend, Shutdown, LoseMemory, worldVars
<1>2. StateInv' /\ OneWorkspacePerPipeline' /\ SessionRecorded'
  <2>1. CASE durable' = durable
    <3>1. \A i \in PipelineId : ~Exists(EmptyState, i)
      BY DEF Exists, EmptyState
    <3>2. StateInv'
      BY <1>1, <2>1, <3>1 DEF EngineInv, StateInv, Good
    <3> QED BY <1>1, <2>1, <3>2 DEF EngineInv, OneWorkspacePerPipeline,
                                    SessionRecorded
  <2>2. CASE KilledInAppend
    <3>1. /\ NextIs("Persist") /\ inflight = Nothing
          /\ durable' = Apply(durable, Head(todo).operation)
      BY <2>2 DEF KilledInAppend
    <3>2. PICK id \in PipelineId \cup {Nothing}, n \in Name \cup {Nothing} :
            /\ Plan(todo, id, n) /\ Justified(durable, todo, id, n)
            /\ Claimed(todo, id, n)
      BY <3>1 DEF EngineInv, PlanInv, Unlogged
    <3> QED BY <1>1, <3>1, <3>2, LogWritten
  <2> QED BY <2>1, <2>2 DEF Crash, Shutdown
<1>3. PlanInv' /\ EventInv' /\ ShellResultIsFresh'
  BY <1>1, EmptyPlanInv, NoEventWaits
<1>4. LoopInv'
  BY <1>1 DEF LoopInv
<1> QED BY <1>2, <1>3, <1>4 DEF EngineInv

LEMMA StartupInv == TypeOK /\ EngineInv /\ Startup => EngineInv'
<1> SUFFICES ASSUME TypeOK, EngineInv, Startup PROVE EngineInv'
  OBVIOUS
<1>1. /\ ~up /\ up' /\ memory' = durable
      /\ UNCHANGED <<durable, inflight, pending, batch, running, todo, results,
                     tmux, branches, issued>>
  BY DEF Startup, Replay, loopVars, handlerVars, worldVars
<1>2. /\ ~running /\ pending = <<>> /\ batch = {}
      /\ todo = <<>> /\ results = <<>> /\ inflight = Nothing
  BY <1>1 DEF EngineInv, LoopInv
<1>3. StateInv'
  BY <1>1 DEF EngineInv, StateInv, Good
<1>4. OneWorkspacePerPipeline' /\ SessionRecorded'
  BY <1>1 DEF EngineInv, OneWorkspacePerPipeline, SessionRecorded
<1>5. PlanInv' /\ EventInv' /\ ShellResultIsFresh'
  BY <1>1, <1>2, EmptyPlanInv, NoEventWaits
<1>6. LoopInv'
  BY <1>1, <1>2 DEF LoopInv
<1> QED BY <1>3, <1>4, <1>5, <1>6 DEF EngineInv

LEMMA KeptInv ==
  ASSUME TypeOK, EngineInv,
         UNCHANGED <<up, memory, durable, inflight, pending, batch, running, todo,
                     results, call, branches, issued>>,
         \A id \in PipelineId : tmux[id] = "none" => tmux'[id] = "none"
  PROVE  EngineInv'
<1>1. StateInv' /\ OneWorkspacePerPipeline' /\ SessionRecorded'
  BY StatesKept DEF EngineInv
<1>2. PlanInv'
  BY DEF EngineInv, PlanInv, Unlogged, Claimed
<1>3. LoopInv' /\ EventInv' /\ ShellResultIsFresh'
  BY DEF EngineInv, LoopInv, EventInv, ShellResultIsFresh
<1> QED BY <1>1, <1>2, <1>3 DEF EngineInv

LEMMA AgentExitsInv ==
  ASSUME TypeOK, EngineInv, NEW id \in PipelineId, AgentExits(id)
  PROVE  EngineInv'
<1>1. \A i \in PipelineId : tmux[i] = "none" => tmux'[i] = "none"
  BY DEF AgentExits, TypeOK
<1>2. UNCHANGED <<up, memory, durable, inflight, pending, batch, running, todo,
                  results, call, branches, issued>>
  BY DEF AgentExits, stateVars, loopVars, handlerVars
<1> QED BY <1>1, <1>2, KeptInv

-----------------------------------------------------------------------------
(* The theorems.                                                           *)

LEMMA InitInv == Init => EngineInv
<1> SUFFICES ASSUME Init PROVE EngineInv
  OBVIOUS
<1>1. \A i \in PipelineId : ~Exists(EmptyState, i)
  BY DEF Exists, EmptyState
<1>2. /\ up /\ memory = EmptyState /\ durable = EmptyState
      /\ inflight = Nothing /\ batch = {} /\ pending = <<>>
      /\ running = FALSE /\ todo = <<>> /\ results = <<>>
      /\ \A i \in PipelineId : tmux[i] = "none"
  BY DEF Init
<1>3. StateInv /\ OneWorkspacePerPipeline /\ SessionRecorded
  BY <1>1, <1>2 DEF StateInv, Good, OneWorkspacePerPipeline, SessionRecorded
<1>4. PlanInv
  <2>1. \A id, n, s : Plan(<<>>, id, n) /\ Justified(s, <<>>, id, n)
    BY DEF Plan, Justified, Has, Ordered, RunsMarked, Moved
  <2>2. \A id, n : Claimed(<<>>, id, n)
    BY DEF Claimed, Has
  <2> QED BY <1>2, <2>1, <2>2 DEF PlanInv, Unlogged
<1>5. LoopInv /\ EventInv /\ ShellResultIsFresh
  BY <1>2 DEF LoopInv, EventInv, ShellResultIsFresh
<1> QED BY <1>3, <1>4, <1>5 DEF EngineInv

LEMMA NextInv == TypeOK /\ EngineInv /\ [Next]_vars => EngineInv'
<1> SUFFICES ASSUME TypeOK, EngineInv, [Next]_vars PROVE EngineInv'
  OBVIOUS
<1>1. CASE Client \/ Tick
  BY <1>1, ClientInv, TickInv
<1>2. CASE Work
  BY <1>2, CheckSessionsInv, DispatchInv, ReturnInv, AppendToWalInv,
     ApplyToStateInv, ChangeWorldInv, RunShellInv, EffectRefusedInv DEF Work
<1>3. CASE EffectFails \/ AppendFails
  BY <1>3, EffectFailsInv, AppendFailsInv
<1>4. CASE Crash \/ KilledInAppend \/ Shutdown
  BY <1>4, LoseMemoryInv
<1>5. CASE Startup
  BY <1>5, StartupInv
<1>6. CASE \E id \in PipelineId : AgentExits(id)
  BY <1>6, AgentExitsInv
<1>7. CASE UNCHANGED vars
  <2>1. UNCHANGED <<up, memory, durable, inflight, pending, batch, running, todo,
                    results, call, branches, issued, tmux>>
    BY <1>7 DEF vars, stateVars, loopVars, handlerVars, worldVars
  <2> QED BY <2>1, KeptInv
<1> QED BY <1>1, <1>2, <1>3, <1>4, <1>5, <1>6, <1>7 DEF Next

(* What the rest of a handler does not mention any more has happened, in   *)
(* memory and in the log: the invariant the theorems below rest on.        *)
THEOREM EngineInvariant == Spec => []EngineInv
<1>1. Init => EngineInv
  BY InitInv
<1>2. TypeOK /\ EngineInv /\ [Next]_vars => EngineInv'
  BY NextInv
<1> QED BY <1>1, <1>2, EngineTypeOK, PTL DEF Spec

(* Wherever the daemon is killed, a pipeline that the entries of the log   *)
(* have, or memory, has its workspace recorded there under its name.       *)
(* Runtime::handle_command.                                                *)
THEOREM EngineWorkspaceFirst == Spec => []WorkspaceBeforePipeline
<1>1. EngineInv => WorkspaceBeforePipeline
  BY DEF EngineInv, StateInv, Good, WorkspaceBeforePipeline
<1> QED BY <1>1, EngineInvariant, PTL

(* No two pipelines of the log share a workspace, whatever commands were   *)
(* cut short.  Runtime::handle_command, GitAdapter::worktree_add.          *)
THEOREM EngineOneWorkspace == Spec => []OneWorkspacePerPipeline
<1>1. EngineInv => OneWorkspacePerPipeline
  BY DEF EngineInv
<1> QED BY <1>1, EngineInvariant, PTL

(* Every session that is alive is in the log, and so is its pipeline.      *)
(* spawn::build_spawn_effects.                                             *)
THEOREM EngineSessionRecorded == Spec => []SessionRecorded
<1>1. EngineInv => SessionRecorded
  BY DEF EngineInv
<1> QED BY <1>1, EngineInvariant, PTL

(* The result of a shell command that the daemon ran finds its pipeline    *)
(* still Running the phase of that command, whatever events clients send,  *)
(* results of their own making included.  DaemonState::process_event,      *)
(* Runtime::handle_shell_completed.                                        *)
THEOREM EngineShellResultFresh == Spec => []ShellResultIsFresh
<1>1. EngineInv => ShellResultIsFresh
  BY DEF EngineInv
<1> QED BY <1>1, EngineInvariant, PTL

-----------------------------------------------------------------------------
(* The life of a pipeline, as the log tells it.                            *)

(* The rest of a handler still follows the runbook once its first effect   *)
(* is in the log.                                                          *)
LEMMA FollowsPersist ==
  ASSUME NEW rb, NEW s \in State, NEW id, NEW n, NEW t \in Seq(Effect), t # <<>>,
         Plan(t, id, n), Justified(s, t, id, n), FollowsRunbook(rb, s, t, id),
         Head(t).effect = "Persist",
         NEW u, u = Apply(s, Head(t).operation)
  PROVE  FollowsRunbook(rb, u, Tail(t), id)
<1>1. /\ Head(t) = t[1] /\ 1 \in DOMAIN t /\ Tail(t) \in Seq(Effect)
      /\ \A k \in DOMAIN Tail(t) : k + 1 \in DOMAIN t /\ Tail(t)[k] = t[k + 1]
                                   /\ k \in Nat /\ k >= 1
  BY TailPlaces
<1>2. /\ Head(t).operation \in Operation /\ Head(t).operation.op = Kind(Head(t))
      /\ Head(t).operation.id = id
  BY PersistHeadOf
<1>3. Kind(t[1]) = "PipelineTransition" =>
        id \in PipelineId /\ u.pipelines[id].phase = t[1].operation.phase
  <2> SUFFICES ASSUME Kind(t[1]) = "PipelineTransition"
               PROVE  id \in PipelineId
                      /\ u.pipelines[id].phase = t[1].operation.phase
    OBVIOUS
  <2>1. Place("PipelineCreate") < Place("PipelineTransition")
    BY DEF Place
  <2>2. ~Has(t, "PipelineCreate")
    BY <1>1, <2>1, PlanRest
  <2>3. Exists(s, id)
    BY <1>1, <2>2 DEF Justified, OnPipeline
  <2>4. /\ id \in PipelineId /\ s.pipelines[id] \in Pipeline
        /\ u.pipelines[id] = [s.pipelines[id] EXCEPT !.phase = t[1].operation.phase,
                                                     !.status = "Pending"]
    <3>1. PICK o : o = Head(t).operation
      OBVIOUS
    <3>2. /\ o \in Operation /\ o.op = "PipelineTransition" /\ o.id = id
          /\ Exists(s, o.id) /\ u = Apply(s, o) /\ o.phase = t[1].operation.phase
      BY <1>1, <1>2, <2>3, <3>1
    <3>3. /\ o.id \in PipelineId /\ s.pipelines[o.id] \in Pipeline
          /\ Apply(s, o).pipelines[o.id] =
               [s.pipelines[o.id] EXCEPT !.phase = o.phase, !.status = "Pending"]
      BY <3>2, ApplyUpdate
    <3> QED BY <3>2, <3>3
  <2> QED BY <2>4 DEF Pipeline
<1>4. ASSUME NEW k \in DOMAIN Tail(t)
      PROVE  PhaseAt(s, t, id, k + 1) = t[k].operation.phase
  BY <1>1, <1>4 DEF PhaseAt
<1>5. ASSUME NEW k \in DOMAIN Tail(t), Kind(t[k]) = "PipelineTransition"
      PROVE  PhaseAt(u, Tail(t), id, k) = t[k].operation.phase
  <2>1. CASE k = 1
    BY <1>3, <1>5, <2>1 DEF PhaseAt
  <2>2. CASE k # 1
    <3>1. k - 1 \in DOMAIN Tail(t)
      BY <1>1, <2>2
    <3>2. Tail(t)[k - 1] = t[k]
      BY <1>1, <3>1
    <3> QED BY <2>2, <3>2 DEF PhaseAt
  <2> QED BY <2>1, <2>2
<1>6. ASSUME NEW k \in DOMAIN Tail(t)
      PROVE  /\ Kind(Tail(t)[k]) = "PipelineCreate" =>
                  /\ rb.defined
                  /\ Tail(t)[k].operation.phase =
                       IF FirstPhase(rb) = Nothing THEN "init" ELSE FirstPhase(rb)
             /\ Kind(Tail(t)[k]) = "PipelineTransition" =>
                  /\ Tail(t)[k].operation.phase \in Leads(rb, PhaseAt(u, Tail(t), id, k))
                  /\ k > 1 => Kind(Tail(t)[k - 1]) = "PipelineTransition"
             /\ Kind(Tail(t)[k]) = "PhaseStatusUpdate"
                  /\ Tail(t)[k].operation.status = "Completed" =>
                  /\ PhaseAt(u, Tail(t), id, k) \in TerminalPhases
                  /\ k > 1 => Kind(Tail(t)[k - 1]) = "PipelineTransition"
  <2>1. /\ k + 1 \in DOMAIN t /\ Tail(t)[k] = t[k + 1] /\ k + 1 > 1 /\ (k + 1) - 1 = k
        /\ k > 1 => k - 1 \in DOMAIN Tail(t) /\ Tail(t)[k - 1] = t[k]
    <3>1. k \in Nat /\ k >= 1 /\ k + 1 \in DOMAIN t /\ Tail(t)[k] = t[k + 1]
      BY <1>1
    <3>2. k > 1 => k - 1 \in DOMAIN Tail(t)
      BY <1>1, <3>1
    <3>3. k > 1 => Tail(t)[k - 1] = t[(k - 1) + 1]
      BY <1>1, <3>2
    <3> QED BY <3>1, <3>2, <3>3
  <2>2. /\ Kind(t[k + 1]) = "PipelineCreate" =>
             /\ rb.defined
             /\ t[k + 1].operation.phase = IF FirstPhase(rb) = Nothing
                                           THEN "init" ELSE FirstPhase(rb)
        /\ Kind(t[k + 1]) = "PipelineTransition" =>
             /\ t[k + 1].operation.phase \in Leads(rb, t[k].operation.phase)
             /\ Kind(t[k]) = "PipelineTransition"
        /\ Kind(t[k + 1]) = "PhaseStatusUpdate"
             /\ t[k + 1].operation.status = "Completed" =>
             /\ t[k].operation.phase \in TerminalPhases
             /\ Kind(t[k]) = "PipelineTransition"
    BY <1>4, <2>1 DEF FollowsRunbook
  <2> QED BY <1>5, <2>1, <2>2
<1> QED BY <1>6 DEF FollowsRunbook

(* Before an effect that is not in the log nothing of the kind was due.    *)
LEMMA FollowsSkip ==
  ASSUME NEW rb, NEW s, NEW id, NEW t \in Seq(Effect), t # <<>>,
         FollowsRunbook(rb, s, t, id), Head(t).effect # "Persist"
  PROVE  FollowsRunbook(rb, s, Tail(t), id)
<1>1. /\ Head(t) = t[1] /\ 1 \in DOMAIN t /\ Tail(t) \in Seq(Effect)
      /\ \A k \in DOMAIN Tail(t) : k + 1 \in DOMAIN t /\ Tail(t)[k] = t[k + 1]
                                   /\ k \in Nat /\ k >= 1
  BY TailPlaces
<1>2. Kind(t[1]) # "PipelineTransition"
  <2>1. t[1].effect # "PipelineTransition"
    BY <1>1 DEF Effect, Abort
  <2> QED BY <1>1, <2>1 DEF Kind
<1>3. ASSUME NEW k \in DOMAIN Tail(t)
      PROVE  /\ k + 1 \in DOMAIN t /\ Tail(t)[k] = t[k + 1] /\ k + 1 > 1
             /\ (k + 1) - 1 = k /\ k \in Nat /\ k >= 1
             /\ k > 1 => k - 1 \in DOMAIN Tail(t) /\ Tail(t)[k - 1] = t[k]
  <2>1. k \in Nat /\ k >= 1 /\ k + 1 \in DOMAIN t /\ Tail(t)[k] = t[k + 1]
    BY <1>1
  <2>2. k > 1 => k - 1 \in DOMAIN Tail(t)
    BY <1>1, <2>1
  <2>3. k > 1 => Tail(t)[k - 1] = t[(k - 1) + 1]
    BY <1>1, <2>2
  <2> QED BY <2>1, <2>2, <2>3
<1>4. ASSUME NEW k \in DOMAIN Tail(t)
      PROVE  /\ Kind(t[k + 1]) = "PipelineTransition" \/
                (Kind(t[k + 1]) = "PhaseStatusUpdate"
                  /\ t[k + 1].operation.status = "Completed") =>
                  k > 1 /\ Kind(t[k]) = "PipelineTransition"
             /\ Kind(t[k + 1]) = "PipelineTransition" =>
                  t[k + 1].operation.phase \in Leads(rb, t[k].operation.phase)
             /\ Kind(t[k + 1]) = "PhaseStatusUpdate"
                  /\ t[k + 1].operation.status = "Completed" =>
                  t[k].operation.phase \in TerminalPhases
             /\ k > 1 => PhaseAt(s, Tail(t), id, k) = t[k].operation.phase
  <2>1. PhaseAt(s, t, id, k + 1) = t[k].operation.phase
    BY <1>3 DEF PhaseAt
  <2>2. k > 1 => PhaseAt(s, Tail(t), id, k) = t[k].operation.phase
    BY <1>3 DEF PhaseAt
  <2>3. Kind(t[k]) = "PipelineTransition" => k > 1
    BY <1>2, <1>3
  <2> QED BY <1>3, <2>1, <2>2, <2>3 DEF FollowsRunbook
<1>5. ASSUME NEW k \in DOMAIN Tail(t), Kind(Tail(t)[k]) = "PipelineCreate"
      PROVE  /\ rb.defined
             /\ Tail(t)[k].operation.phase = IF FirstPhase(rb) = Nothing
                                             THEN "init" ELSE FirstPhase(rb)
  BY <1>3, <1>5 DEF FollowsRunbook
<1> QED BY <1>3, <1>4, <1>5 DEF FollowsRunbook

(* An operation changes the pipelines of a state in one of these ways.     *)
LEMMA ApplyForms ==
  ASSUME NEW s \in State, NEW o \in Operation
  PROVE  /\ o.op = "PipelineCreate" =>
              Apply(s, o).pipelines =
                [s.pipelines EXCEPT ![o.id] = NewPipeline(o.name, o.phase)]
         /\ o.op = "PipelineTransition" /\ Exists(s, o.id) =>
              Apply(s, o).pipelines =
                [s.pipelines EXCEPT ![o.id] =
                   [@ EXCEPT !.phase = o.phase, !.status = "Pending"]]
         /\ o.op = "PhaseStatusUpdate" /\ Exists(s, o.id) =>
              Apply(s, o).pipelines =
                [s.pipelines EXCEPT ![o.id] = [@ EXCEPT !.status = o.status]]
<1>1. CASE o.op = "PipelineCreate"
  <2>1. Apply(s, o) = [s EXCEPT !.pipelines[o.id] = NewPipeline(o.name, o.phase)]
    BY <1>1 DEF Apply
  <2> QED BY <1>1, <2>1 DEF State
<1>2. CASE o.op = "PipelineTransition" /\ Exists(s, o.id)
  <2>1. Apply(s, o) = [s EXCEPT !.pipelines[o.id] =
                         [@ EXCEPT !.phase = o.phase, !.status = "Pending"]]
    BY <1>2 DEF Apply
  <2> QED BY <1>2, <2>1 DEF State
<1>3. CASE o.op = "PhaseStatusUpdate" /\ Exists(s, o.id)
  <2>1. Apply(s, o) = [s EXCEPT !.pipelines[o.id] = [@ EXCEPT !.status = o.status]]
    BY <1>3 DEF Apply
  <2> QED BY <1>3, <2>1 DEF State
<1> QED BY <1>1, <1>2, <1>3

(* LifeInv is kept by every step.                                          *)
LEMMA LifeIdle ==
  ASSUME todo' = <<>>, inflight' = Nothing
  PROVE  LifeInv'
<1>1. Unlogged' = <<>>
  BY DEF Unlogged
<1>2. \A id, n : Plan(<<>>, id, n)
  BY DEF Plan, Has, Ordered, RunsMarked, Moved
<1>3. \A rb, s, id : FollowsRunbook(rb, s, <<>>, id)
  BY DEF FollowsRunbook
<1> QED BY <1>1, <1>2, <1>3 DEF LifeInv

LEMMA LifeKept ==
  ASSUME LifeInv, UNCHANGED <<diverged, todo, inflight, runbook, durable>>
  PROVE  LifeInv'
BY DEF LifeInv, Unlogged

LEMMA DispatchLife ==
  ASSUME TypeOK, EngineInv, LogInv, LifeInv, ~diverged, Dispatch
  PROVE  LifeInv'
<1>1. PICK e \in Event : \E seen :
        /\ e.event \notin {"TmuxExited", "ClaudeExited"}
        /\ todo' = HandleEvent(runbook, memory, e, seen)
  <2>1. PICK e \in IF pending # <<>> THEN {pending[Len(pending)]} ELSE batch :
          \E seen : todo' = HandleEvent(runbook, memory, e, seen)
    BY DEF Dispatch
  <2>2. CASE pending = <<>>
    BY <2>1, <2>2 DEF EngineInv, EventInv, TypeOK
  <2>3. CASE pending # <<>>
    <3>1. pending \in Seq(Event)
      BY DEF TypeOK
    <3>2. Len(pending) \in DOMAIN pending
      BY <2>3, <3>1
    <3>3. pending[Len(pending)] \in Event
      BY <3>1, <3>2
    <3> QED BY <2>1, <2>3, <3>2, <3>3 DEF EngineInv, EventInv
  <2> QED BY <2>2, <2>3
<1>2. /\ runbook \in RunbookType /\ memory \in State /\ Unlinked(memory)
  BY EngineAssumption DEF TypeOK, EngineInv, StateInv, Good, Unlinked
<1>3. /\ UNCHANGED <<durable, diverged, inflight, runbook>> /\ inflight = Nothing
      /\ memory = durable
  <2>1. up /\ ~running /\ UNCHANGED <<durable, diverged, inflight, runbook>>
    BY DEF Dispatch, stateVars
  <2> QED BY <2>1 DEF EngineInv, LoopInv, LogInv, LifeInv
<1>4. PICK id, n : Planned(runbook, memory, e, todo', id, n)
  BY <1>1, <1>2, HandlerPlanned
<1>5. Unlogged' = todo'
  BY <1>3 DEF Unlogged
<1> QED BY <1>3, <1>4, <1>5 DEF LifeInv, Planned, Asks

LEMMA AppendLife ==
  ASSUME TypeOK, EngineInv, LifeInv, ~diverged, AppendToWal
  PROVE  LifeInv'
<1>1. /\ running /\ todo # <<>> /\ Head(todo).effect = "Persist"
      /\ inflight = Nothing /\ inflight' = Head(todo).operation
      /\ durable' = Apply(durable, Head(todo).operation)
      /\ UNCHANGED <<diverged, todo, runbook>>
  BY DEF AppendToWal, NextIs, handlerVars
<1>2. PICK id \in PipelineId \cup {Nothing}, n \in Name \cup {Nothing} :
        Plan(todo, id, n) /\ FollowsRunbook(runbook, durable, todo, id)
  BY <1>1 DEF LifeInv, Unlogged
<1>3. PICK i, m : Plan(todo, i, m) /\ Justified(durable, todo, i, m)
  BY <1>1 DEF EngineInv, PlanInv, Unlogged
<1>4. todo \in Seq(Effect) /\ durable \in State
  BY DEF TypeOK
<1>5. i = id
  <2>1. Head(todo).operation.id = id
    BY <1>1, <1>2, <1>4, PersistHeadOf
  <2>2. Head(todo).operation.id = i
    BY <1>1, <1>3, <1>4, PersistHeadOf
  <2> QED BY <2>1, <2>2
<1>6. FollowsRunbook(runbook, durable', Tail(todo), id)
  BY <1>1, <1>2, <1>3, <1>4, <1>5, FollowsPersist
<1>7. Head(todo).operation # Nothing
  BY <1>1, PersistHead, OperationAssumption DEF NextIs
<1>8. Unlogged' = Tail(todo)
  BY <1>1, <1>7 DEF Unlogged
<1> QED BY <1>1, <1>2, <1>6, <1>8 DEF LifeInv

LEMMA EffectLife ==
  ASSUME TypeOK, EngineInv, LifeInv, ~diverged,
         ApplyToState \/ ChangeWorld \/ RunShell
  PROVE  LifeInv'
<1>1. /\ running /\ todo # <<>> /\ todo' = Tail(todo)
      /\ inflight' = Nothing
      /\ inflight = Nothing => Head(todo).effect # "Persist"
      /\ UNCHANGED <<durable, diverged, runbook>>
  <2>1. CASE ApplyToState
    BY <2>1 DEF ApplyToState, NextIs, EffectDone
  <2>2. CASE ChangeWorld \/ RunShell
    <3>1. /\ running /\ todo # <<>> /\ todo' = Tail(todo)
          /\ inflight' = inflight /\ Head(todo).effect # "Persist"
          /\ UNCHANGED <<durable, diverged, runbook>>
      BY <2>2 DEF ChangeWorld, RunShell, NextIs, EffectDone, stateVars
    <3> QED BY <3>1, EffectDue
  <2> QED BY <2>1, <2>2
<1>2. PICK id \in PipelineId \cup {Nothing}, n \in Name \cup {Nothing} :
        Plan(todo, id, n) /\ FollowsRunbook(runbook, durable, Unlogged, id)
  BY DEF LifeInv
<1>3. todo \in Seq(Effect)
  BY DEF TypeOK
<1>4. Plan(Tail(todo), id, n)
  BY <1>1, <1>2, <1>3, PlanTail
<1>5. FollowsRunbook(runbook, durable, Tail(todo), id)
  BY <1>1, <1>2, <1>3, FollowsSkip DEF Unlogged
<1>6. Unlogged' = Tail(todo)
  BY <1>1 DEF Unlogged
<1> QED BY <1>1, <1>2, <1>4, <1>5, <1>6 DEF LifeInv

LEMMA NextLife ==
  ASSUME TypeOK, EngineInv, LogInv, LifeInv, [Next]_vars
  PROVE  LifeInv'
<1>1. CASE Dispatch
  <2>1. diverged' = diverged
    BY <1>1 DEF Dispatch, stateVars
  <2> QED BY <1>1, <2>1, DispatchLife DEF LifeInv
<1>2. CASE AppendToWal
  <2>1. diverged' = diverged
    BY <1>2 DEF AppendToWal
  <2> QED BY <1>2, <2>1, AppendLife DEF LifeInv
<1>3. CASE ApplyToState \/ ChangeWorld \/ RunShell
  <2>1. diverged' = diverged
    BY <1>3 DEF ApplyToState, ChangeWorld, RunShell, stateVars
  <2> QED BY <1>3, <2>1, EffectLife DEF LifeInv
<1>4. CASE \/ Client \/ Tick \/ CheckSessions \/ Return
           \/ \E id \in PipelineId : AgentExits(id)
  <2>1. UNCHANGED <<diverged, todo, inflight, runbook, durable>>
    BY <1>4 DEF Client, ServeCommand, ServeAgent, ServePipeline, ServeEvent,
                ServeSessionSend, Serve, Tick, CheckSessions, Return, AgentExits,
                stateVars, handlerVars
  <2> QED BY <2>1, LifeKept
<1>5. CASE UNCHANGED vars
  BY <1>5, LifeKept DEF vars, stateVars, handlerVars
<1>6. CASE EffectRefused \/ EffectFails
  <2>1. /\ running /\ todo # <<>> /\ Head(todo).effect # "Persist"
        /\ todo' = <<>> /\ inflight' = inflight
    BY <1>6 DEF EffectRefused, MustFail, EffectFails, Unwind, stateVars
  <2> QED BY <2>1, EffectDue, LifeIdle
<1>7. CASE AppendFails
  BY <1>7, LifeIdle DEF AppendFails, Unwind
<1>8. CASE Crash \/ KilledInAppend \/ Shutdown
  BY <1>8, LifeIdle DEF Crash, KilledInAppend, Shutdown, LoseMemory
<1>9. CASE Startup
  <2>1. ~running /\ todo' = todo /\ inflight' = inflight
    BY <1>9 DEF Startup, handlerVars, EngineInv, LoopInv
  <2> QED BY <2>1, LifeIdle DEF EngineInv, LoopInv
<1> QED BY <1>1, <1>2, <1>3, <1>4, <1>5, <1>6, <1>7, <1>8, <1>9 DEF Next, Work

-----------------------------------------------------------------------------
(* The log refines PipelineLifecycle.                                      *)

(* The abstract specification reads runbooks as the engine does.           *)
LEMMA LifecycleReads ==
  /\ \A rb : Lifecycle!FirstPhase(rb) = FirstPhase(rb)
  /\ \A rb, name : /\ Lifecycle!NextPhaseName(rb, name) = NextPhaseName(rb, name)
                   /\ Lifecycle!OnFail(rb, name) = OnFail(rb, name)
  /\ \A name, phase : Lifecycle!NewPipeline(name, phase) = NewPipeline(name, phase)
  /\ Lifecycle!TerminalPhases = TerminalPhases
<1>1. \A rb, name : Lifecycle!PhaseIndices(rb, name) = PhaseIndices(rb, name)
  BY DEF Lifecycle!PhaseIndices, PhaseIndices
<1>2. \A rb, name : Lifecycle!HasPhase(rb, name) <=> HasPhase(rb, name)
  BY <1>1 DEF Lifecycle!HasPhase, HasPhase
<1>3. \A rb, name : Lifecycle!PhaseIndex(rb, name) = PhaseIndex(rb, name)
  BY DEF Lifecycle!PhaseIndex, PhaseIndex, Lifecycle!PhaseIndices, PhaseIndices
<1>4. \A rb, name : Lifecycle!GetPhase(rb, name) = GetPhase(rb, name)
  BY <1>3 DEF Lifecycle!GetPhase, GetPhase
<1>5. \A rb, name : Lifecycle!PhaseAfter(rb, name) = PhaseAfter(rb, name)
  BY <1>3 DEF Lifecycle!PhaseAfter, PhaseAfter
<1>6. \A rb, name : Lifecycle!NextPhaseName(rb, name) = NextPhaseName(rb, name)
  BY <1>2, <1>4, <1>5 DEF Lifecycle!NextPhaseName, NextPhaseName
<1>7. \A rb, name : Lifecycle!OnFail(rb, name) = OnFail(rb, name)
  BY <1>2, <1>4 DEF Lifecycle!OnFail, OnFail
<1>8. \A rb : Lifecycle!FirstPhase(rb) = FirstPhase(rb)
  BY DEF Lifecycle!FirstPhase, FirstPhase
<1>9. \A name, phase : Lifecycle!NewPipeline(name, phase) = NewPipeline(name, phase)
  BY DEF Lifecycle!NewPipeline, NewPipeline
<1>10. Lifecycle!TerminalPhases = TerminalPhases
  BY DEF Lifecycle!TerminalPhases, TerminalPhases
<1> QED BY <1>6, <1>7, <1>8, <1>9, <1>10

LEMMA LifecycleSuccessors ==
  \A name : Lifecycle!Successors(name) = Leads(runbook, name)
BY LifecycleReads DEF Lifecycle!Successors, Leads

(* A record that reaches the log is one step in the life of its pipeline,  *)
(* or none.                                                                *)
LEMMA RecordRefines ==
  ASSUME TypeOK, EngineInv, LifeInv, ~diverged,
         running, todo # <<>>, Head(todo).effect = "Persist", inflight = Nothing,
         durable' = Apply(durable, Head(todo).operation), runbook' = runbook
  PROVE  [Lifecycle!LNext]_(Lifecycle!lvars)
<1>1. PICK o : o = Head(todo).operation
  OBVIOUS
<1>2. /\ running /\ todo # <<>> /\ Head(todo).effect = "Persist"
      /\ inflight = Nothing
      /\ durable' = Apply(durable, o) /\ runbook' = runbook
  BY <1>1
<1>3. todo \in Seq(Effect) /\ durable \in State
  BY DEF TypeOK
<1>4. PICK id \in PipelineId \cup {Nothing}, n \in Name \cup {Nothing} :
        /\ Plan(todo, id, n) /\ Justified(durable, todo, id, n)
        /\ Claimed(todo, id, n)
  BY <1>2 DEF EngineInv, PlanInv, Unlogged
<1>5. PICK i, m : Plan(todo, i, m) /\ FollowsRunbook(runbook, durable, todo, i)
  BY <1>2 DEF LifeInv, Unlogged
<1>6. /\ o \in Operation /\ o.op = Kind(Head(todo)) /\ o.id = id /\ o.id = i
      /\ o.op \in {"WorkspaceCreate", "PipelineCreate",
                   "PipelineTransition", "PhaseStatusUpdate", "SessionCreate"}
  BY <1>1, <1>2, <1>3, <1>4, <1>5, PersistHeadOf
<1>7. /\ Head(todo) = todo[1] /\ 1 \in DOMAIN todo
      /\ PhaseAt(durable, todo, id, 1) = durable.pipelines[id].phase
  BY <1>2, <1>3, TailPlaces DEF PhaseAt
<1>8. \A kind : Place(kind) < Place(o.op) => ~Has(todo, kind)
  BY <1>2, <1>3, <1>4, <1>6, PlanRest
<1>9. Has(todo, o.op) /\ About(Head(todo), id, n)
  BY <1>2, <1>3, <1>4, <1>6, PlanRest
<1>10. CASE o.op = "WorkspaceCreate"
  <2>1. ~Exists(durable, o.id)
    BY <1>4, <1>6, <1>9, <1>10 DEF Plan, Justified
  <2>2. durable'.pipelines = durable.pipelines
    BY <1>2, <1>3, <1>6, <1>10, <2>1, ApplyCreate
  <2> QED BY <1>2, <2>2 DEF Lifecycle!lvars
<1>11. CASE o.op = "SessionCreate"
  <2>1. durable'.pipelines = durable.pipelines
    BY <1>2, <1>3, <1>6, <1>11, ApplyCreate
  <2> QED BY <1>2, <2>1 DEF Lifecycle!lvars
<1>12. CASE o.op = "PipelineCreate"
  <2>1. o.id \in PipelineId /\ o.name \in Name
    BY <1>6, <1>12 DEF Operation
  <2>2. o.name = n
    BY <1>1, <1>6, <1>9, <1>12 DEF About
  <2>3. ~Exists(durable, o.id)
    BY <1>4, <1>6, <1>9, <1>12 DEF Justified
  <2>4. /\ runbook.defined
        /\ o.phase = IF FirstPhase(runbook) = Nothing THEN "init" ELSE FirstPhase(runbook)
    BY <1>1, <1>5, <1>6, <1>7, <1>12 DEF FollowsRunbook
  <2>5. ~Has(todo, "WorktreeAdd")
    <3>1. Place("WorktreeAdd") < Place("PipelineCreate")
      BY DEF Place
    <3> QED BY <1>8, <1>12, <3>1
  <2>6. \A j \in PipelineId :
          durable.pipelines[j] # Nothing => durable.pipelines[j].name # o.name
    BY <1>4, <1>9, <1>12, <2>2, <2>5 DEF Claimed, Exists
  <2>7. durable'.pipelines =
          [durable.pipelines EXCEPT ![o.id] = NewPipeline(o.name, o.phase)]
    BY <1>2, <1>3, <1>6, <1>12, ApplyForms
  <2>8. Lifecycle!Create(o.id, o.name)
    BY <1>2, <2>3, <2>4, <2>6, <2>7, LifecycleReads DEF Lifecycle!Create, Exists
  <2> QED BY <2>1, <2>8 DEF Lifecycle!LNext
<1>13. CASE o.op \in {"PipelineTransition", "PhaseStatusUpdate"}
  <2>1. Exists(durable, o.id) /\ o.id \in PipelineId
    <3>1. Place("PipelineCreate") < Place(o.op)
      BY <1>13 DEF Place
    <3>2. ~Has(todo, "PipelineCreate")
      BY <1>8, <3>1
    <3> QED BY <1>4, <1>6, <1>7, <1>13, <3>2 DEF Justified, OnPipeline, Operation
  <2>2. CASE o.op = "PipelineTransition"
    <3>1. o.phase \in PhaseName
      BY <1>6, <2>2 DEF Operation
    <3>2. o.phase \in Leads(runbook, durable.pipelines[o.id].phase)
      BY <1>1, <1>5, <1>6, <1>7, <2>2 DEF FollowsRunbook
    <3>3. durable'.pipelines =
            [durable.pipelines EXCEPT ![o.id] =
               [@ EXCEPT !.phase = o.phase, !.status = "Pending"]]
      BY <1>2, <1>3, <1>6, <2>1, <2>2, ApplyForms
    <3>4. Lifecycle!Move(o.id, o.phase)
      BY <1>2, <2>1, <3>2, <3>3, LifecycleSuccessors DEF Lifecycle!Move, Exists
    <3> QED BY <2>1, <3>1, <3>4 DEF Lifecycle!LNext
  <2>3. CASE o.op = "PhaseStatusUpdate"
    <3>1. o.status \in {"Running", "Completed"}
      BY <1>1, <1>6, <1>9, <2>3 DEF About
    <3>2. durable'.pipelines =
            [durable.pipelines EXCEPT ![o.id] = [@ EXCEPT !.status = o.status]]
      BY <1>2, <1>3, <1>6, <2>1, <2>3, ApplyForms
    <3>3. CASE o.status = "Running"
      <4>1. Lifecycle!Run(o.id)
        BY <1>2, <2>1, <3>2, <3>3 DEF Lifecycle!Run, Exists
      <4> QED BY <2>1, <4>1 DEF Lifecycle!LNext
    <3>4. CASE o.status = "Completed"
      <4>1. durable.pipelines[o.id].phase \in TerminalPhases
        BY <1>1, <1>5, <1>6, <1>7, <2>3, <3>4 DEF FollowsRunbook
      <4>2. Lifecycle!Complete(o.id)
        BY <1>2, <2>1, <3>2, <3>4, <4>1, LifecycleReads DEF Lifecycle!Complete, Exists
      <4> QED BY <2>1, <4>2 DEF Lifecycle!LNext
    <3> QED BY <3>1, <3>3, <3>4
  <2> QED BY <1>13, <2>2, <2>3
<1> QED BY <1>6, <1>10, <1>11, <1>12, <1>13

LEMMA NextRefines ==
  ASSUME TypeOK, EngineInv, LifeInv, ~diverged, [Next]_vars
  PROVE  [Lifecycle!LNext]_(Lifecycle!lvars)
<1>1. CASE AppendToWal \/ KilledInAppend \/ (AppendFails /\ durable' # durable)
  BY <1>1, RecordRefines DEF AppendToWal, KilledInAppend, LoseMemory, AppendFails,
                             NextIs
<1>2. CASE Startup
  <2>1. runbook' \in Runbooks /\ durable' = durable
    BY <1>2 DEF Startup
  <2>2. Lifecycle!Reload
    BY <2>1 DEF Lifecycle!Reload
  <2> QED BY <2>2 DEF Lifecycle!LNext
<1>3. CASE AppendFails /\ durable' = durable
  BY <1>3 DEF AppendFails, Lifecycle!lvars
<1>4. CASE ~(AppendToWal \/ KilledInAppend \/ AppendFails \/ Startup)
  <2>1. UNCHANGED <<runbook, durable>>
    <3>1. CASE Client \/ Tick
      BY <3>1 DEF Client, ServeCommand, ServeAgent, ServePipeline, ServeEvent,
                  ServeSessionSend, Serve, Tick, stateVars
    <3>2. CASE Work
      BY <1>4, <3>2 DEF Work, CheckSessions, Dispatch, Return, ApplyToState,
                  ChangeWorld, RunShell, EffectRefused, EffectDone, stateVars
    <3>3. CASE EffectFails
      BY <3>3 DEF EffectFails, stateVars
    <3>4. CASE Crash \/ Shutdown
      BY <3>4 DEF Crash, Shutdown, LoseMemory
    <3>5. CASE \E id \in PipelineId : AgentExits(id)
      BY <3>5 DEF AgentExits, stateVars
    <3>6. CASE UNCHANGED vars
      BY <3>6 DEF vars, stateVars
    <3> QED BY <1>4, <3>1, <3>2, <3>3, <3>4, <3>5, <3>6 DEF Next
  <2> QED BY <2>1 DEF Lifecycle!lvars
<1> QED BY <1>1, <1>2, <1>3, <1>4

LEMMA InitRefines == Init => Lifecycle!LInit
BY DEF Init, Lifecycle!LInit, EmptyState

LEMMA InitLife == Init => LifeInv
<1> SUFFICES ASSUME Init PROVE LifeInv
  OBVIOUS
<1>1. todo = <<>> /\ inflight = Nothing
  BY DEF Init
<1>2. \A id, n : Plan(<<>>, id, n)
  BY DEF Plan, Has, Ordered, RunsMarked, Moved
<1>3. \A rb, s, id : FollowsRunbook(rb, s, <<>>, id)
  BY DEF FollowsRunbook
<1> QED BY <1>1, <1>2, <1>3 DEF LifeInv, Unlogged

(* While the log is not at odds with memory, what is left of a handler     *)
(* moves its pipeline only where the runbook leads.  Every handler.        *)
THEOREM EngineLifeInv == Spec => []LifeInv
<1>1. Init => LogInv /\ LifeInv
  BY InitLife DEF Init, LogInv
<1>2. TypeOK /\ EngineInv /\ LogInv /\ LifeInv /\ [Next]_vars => LogInv' /\ LifeInv'
  BY LogInvNext, NextLife
<1> QED BY <1>1, <1>2, EngineTypeOK, EngineInvariant, PTL DEF Spec

(* Every record of the log is one step in the life of its pipeline that the*)
(* runbook allows, until an append fails whose entry is in the log all the *)
(* same, and again from the next start on: for every runbook, number of    *)
(* pipelines, and whatever faults and crashes there are.  Executor,        *)
(* Persist.                                                                *)
THEOREM EngineRecordsFollow == Spec => RecordsFollowRunbook
<1>1. TypeOK /\ EngineInv /\ LifeInv /\ [Next]_vars =>
        [~diverged => Lifecycle!LNext \/ UNCHANGED Lifecycle!lvars]_vars
  BY NextRefines
<1> QED BY <1>1, EngineTypeOK, EngineInvariant, EngineLifeInv, PTL
        DEF Spec, RecordsFollowRunbook

(* What the log records of pipelines is a life the runbook allows, from    *)
(* the first daemon to the last, if no append fails whose entry is in the  *)
(* log all the same.                                                       *)
THEOREM EngineFollowsRunbook ==
  ASSUME ~SyncFaults
  PROVE  Spec => PhaseFollowsRunbook
<1>1. Init => ~diverged /\ Lifecycle!LInit
  BY InitRefines DEF Init
<1>2. ~diverged /\ [Next]_vars => ~diverged'
  <2> SUFFICES ASSUME ~diverged, [Next]_vars PROVE ~diverged'
    OBVIOUS
  <2>1. CASE Client \/ Tick \/ \E id \in PipelineId : AgentExits(id)
    BY <2>1 DEF Client, ServeCommand, ServeAgent, ServePipeline, ServeEvent,
                ServeSessionSend, Serve, Tick, AgentExits, stateVars
  <2>2. CASE Work
    BY <2>2 DEF Work, CheckSessions, Dispatch, Return, AppendToWal, ApplyToState,
                ChangeWorld, RunShell, EffectRefused, EffectDone, stateVars
  <2>3. CASE EffectFails \/ AppendFails
    BY <2>3 DEF EffectFails, AppendFails, stateVars
  <2>4. CASE Crash \/ KilledInAppend \/ Shutdown
    BY <2>4 DEF Crash, KilledInAppend, Shutdown, LoseMemory
  <2>5. CASE UNCHANGED vars
    BY <2>5 DEF vars, stateVars
  <2>6. CASE Startup
    BY <2>6 DEF Startup
  <2> QED BY <2>1, <2>2, <2>3, <2>4, <2>5, <2>6 DEF Next
<1>3. TypeOK /\ EngineInv /\ LifeInv /\ ~diverged /\ [Next]_vars =>
        [Lifecycle!LNext]_(Lifecycle!lvars)
  BY NextRefines
<1> QED BY <1>1, <1>2, <1>3, EngineTypeOK, EngineInvariant, EngineLifeInv, PTL
        DEF Spec, PhaseFollowsRunbook, Lifecycle!LSpec

-----------------------------------------------------------------------------
(* A client that is told "accepted" finds its pipeline at rest.            *)

(* Settled, of any state.                                                  *)
Rests(rb, s, id) ==
  /\ Exists(s, id)
  /\ \/ s.pipelines[id].status = "Completed"
     \/ s.pipelines[id].phase = "failed" /\ s.pipelines[id].status = "Pending"
     \/ /\ s.pipelines[id].phase = "init" /\ s.pipelines[id].status = "Pending"
        /\ rb.phases = <<>>
     \/ /\ RunsAgent(rb, s.pipelines[id].phase)
        /\ s.pipelines[id].status = "Running" /\ id \in s.sessions

LEMMA SettledRests ==
  \A id : Settled(durable, id) <=> Rests(runbook, durable, id)
BY DEF Settled, Rests, InAgentPhase, RunsAgent

(* The last effect of a plan is the last of what is left of it.            *)
LEMMA TailLast ==
  ASSUME NEW t \in Seq(Effect), t # <<>>
  PROVE  /\ Tail(t) # <<>> => Tail(t)[Len(Tail(t))] = t[Len(t)]
         /\ Tail(t) = <<>> => Head(t) = t[Len(t)] /\ DOMAIN t = {1}
<1>1. /\ Tail(t) \in Seq(Effect) /\ Len(t) \in Nat /\ Len(t) >= 1
      /\ Len(Tail(t)) = Len(t) - 1 /\ Head(t) = t[1] /\ DOMAIN t = 1..Len(t)
  BY TailPlaces, HeadTailProperties
<1>2. CASE Tail(t) # <<>>
  <2>1. Len(Tail(t)) \in DOMAIN Tail(t)
    BY <1>1, <1>2
  <2>2. Tail(t)[Len(Tail(t))] = t[Len(Tail(t)) + 1]
    BY <2>1, TailPlaces
  <2> QED BY <1>1, <1>2, <2>2
<1>3. CASE Tail(t) = <<>>
  <2>1. Len(<<>>) = 0
    OBVIOUS
  <2>2. Len(t) - 1 = 0 /\ Len(t) \in Nat
    BY <1>1, <1>3, <2>1
  <2>3. Len(t) = 1
    BY <2>2
  <2>4. DOMAIN t = {1}
    BY <1>1, <2>3
  <2> QED BY <1>1, <1>3, <2>3, <2>4
<1> QED BY <1>2, <1>3

(* What was done of a plan, the rest of it need not do.                    *)
LEMMA SettlesPersist ==
  ASSUME NEW rb, NEW s \in State, NEW id, NEW n, NEW t \in Seq(Effect),
         Tail(t) # <<>>, t # <<>>,
         Plan(t, id, n), Justified(s, t, id, n), Settles(rb, s, t, id),
         Head(t).effect = "Persist",
         NEW o, o = Head(t).operation, NEW u, u = Apply(s, o)
  PROVE  Settles(rb, u, Tail(t), id)
<1>1. /\ Head(t) = t[1] /\ 1 \in DOMAIN t /\ Tail(t) \in Seq(Effect)
      /\ \A k \in DOMAIN Tail(t) : k + 1 \in DOMAIN t /\ Tail(t)[k] = t[k + 1]
  BY TailPlaces
<1>2. Tail(t)[Len(Tail(t))] = t[Len(t)]
  BY TailLast
<1>3. /\ o \in Operation /\ o.op = Kind(Head(t)) /\ o.id = id
      /\ o.op \in {"WorkspaceCreate", "PipelineCreate", "PipelineTransition",
                   "PhaseStatusUpdate", "SessionCreate"}
  BY PersistHeadOf
<1>4. /\ Has(t, Kind(Head(t)))
      /\ \A kind : /\ Has(Tail(t), kind) => Has(t, kind)
                   /\ Has(t, kind) /\ kind # Kind(Head(t)) => Has(Tail(t), kind)
      /\ \A kind : Place(kind) < Place(Kind(Head(t))) => ~Has(t, kind)
  BY PlanRest
<1> SUFFICES ASSUME Kind(t[Len(t)]) = "SetTimer"
             PROVE  /\ \A k \in DOMAIN Tail(t) : Kind(Tail(t)[k]) \in Moves
                         => RunsAgent(rb, Tail(t)[k].operation.phase)
                    /\ ~Moved(Tail(t)) => RunsAgent(rb, u.pipelines[id].phase)
                    /\ ~Has(Tail(t), "PhaseStatusUpdate") =>
                         u.pipelines[id].status = "Running"
                    /\ ~Has(Tail(t), "SessionCreate") => id \in u.sessions
  BY <1>2 DEF Settles
<1>5. /\ \A k \in DOMAIN t : Kind(t[k]) \in Moves
           => RunsAgent(rb, t[k].operation.phase)
      /\ ~Moved(t) => RunsAgent(rb, s.pipelines[id].phase)
      /\ ~Has(t, "PhaseStatusUpdate") => s.pipelines[id].status = "Running"
      /\ ~Has(t, "SessionCreate") => id \in s.sessions
  BY DEF Settles
<1>6. Has(t, "SetTimer")
  <2>1. Len(t) \in DOMAIN t
    OBVIOUS
  <2> QED BY <2>1 DEF Has
<1>7. /\ Moved(t) => Has(t, "PhaseStatusUpdate")
      /\ \A k \in DOMAIN t : Kind(t[k]) = "PhaseStatusUpdate"
                               => t[k].operation.status = "Running"
  BY <1>6 DEF Plan, RunsMarked
<1>8. Has(t, "WorkspaceCreate") => Moved(t)
  BY DEF Plan, Moved
<1>9. \A k \in DOMAIN Tail(t) : Kind(Tail(t)[k]) \in Moves
        => RunsAgent(rb, Tail(t)[k].operation.phase)
  BY <1>1, <1>5
<1>10. CASE o.op = "WorkspaceCreate"
  <2>1. Moved(Tail(t)) /\ Has(Tail(t), "PhaseStatusUpdate")
    BY <1>3, <1>4, <1>7, <1>8, <1>10 DEF Moved
  <2>2. u.sessions = s.sessions
    <3>1. Has(t, "PipelineCreate") /\ ~Exists(s, o.id)
      BY <1>3, <1>4, <1>10 DEF Plan, Justified
    <3> QED BY <1>3, <1>10, <3>1, ApplyCreate
  <2> QED BY <1>3, <1>4, <1>5, <1>9, <1>10, <2>1, <2>2
<1>11. CASE o.op = "PipelineCreate"
  <2>1. /\ u.sessions = s.sessions /\ id \in PipelineId
        /\ u.pipelines[id] = NewPipeline(o.name, o.phase)
    BY <1>3, <1>11, ApplyCreate
  <2>2. u.pipelines[id].phase = o.phase
    BY <2>1 DEF NewPipeline
  <2>3. RunsAgent(rb, o.phase)
    BY <1>1, <1>3, <1>5, <1>11 DEF Moves
  <2>4. Has(Tail(t), "PhaseStatusUpdate")
    BY <1>3, <1>4, <1>7, <1>11 DEF Moved
  <2> QED BY <1>3, <1>4, <1>5, <1>9, <1>11, <2>1, <2>2, <2>3, <2>4
<1>12. CASE o.op = "SessionCreate"
  <2>1. /\ id \in PipelineId /\ u.pipelines = s.pipelines
        /\ u.sessions = s.sessions \cup {id}
    BY <1>3, <1>12, ApplyCreate
  <2>2. Moved(t) <=> Moved(Tail(t))
    BY <1>3, <1>4, <1>12 DEF Moved
  <2>3. Has(t, "PhaseStatusUpdate") <=> Has(Tail(t), "PhaseStatusUpdate")
    BY <1>3, <1>4, <1>12
  <2> QED BY <1>5, <1>9, <2>1, <2>2, <2>3
<1>13. CASE o.op \in {"PipelineTransition", "PhaseStatusUpdate"}
  <2>1. Exists(s, o.id)
    <3>1. Place("PipelineCreate") < Place(o.op)
      BY <1>13 DEF Place
    <3>2. ~Has(t, "PipelineCreate")
      BY <1>3, <1>4, <3>1
    <3> QED BY <1>1, <1>3, <1>13, <3>2 DEF Justified, OnPipeline
  <2>2. /\ id \in PipelineId /\ u.sessions = s.sessions
        /\ s.pipelines[id] \in Pipeline
        /\ o.op = "PipelineTransition" => u.pipelines[id] =
             [s.pipelines[id] EXCEPT !.phase = o.phase, !.status = "Pending"]
        /\ o.op = "PhaseStatusUpdate" => u.pipelines[id] =
             [s.pipelines[id] EXCEPT !.status = o.status]
    BY <1>3, <1>13, <2>1, ApplyUpdate
  <2>3. ~Has(Tail(t), "SessionCreate") => id \in u.sessions
    BY <1>3, <1>4, <1>5, <1>13, <2>2
  <2>4. CASE o.op = "PipelineTransition"
    <3>1. u.pipelines[id].phase = o.phase
      BY <2>2, <2>4 DEF Pipeline
    <3>2. RunsAgent(rb, o.phase)
      BY <1>1, <1>3, <1>5, <2>4 DEF Moves
    <3>3. Has(Tail(t), "PhaseStatusUpdate")
      BY <1>3, <1>4, <1>7, <2>4 DEF Moved
    <3> QED BY <1>9, <2>3, <3>1, <3>2, <3>3
  <2>5. CASE o.op = "PhaseStatusUpdate"
    <3>1. o.status = "Running"
      BY <1>1, <1>3, <1>7, <2>5
    <3>2. /\ u.pipelines[id].phase = s.pipelines[id].phase
          /\ u.pipelines[id].status = "Running"
      BY <2>2, <2>5, <3>1 DEF Pipeline
    <3>3. Moved(t) <=> Moved(Tail(t))
      BY <1>3, <1>4, <2>5 DEF Moved
    <3> QED BY <1>5, <1>9, <2>3, <3>2, <3>3
  <2> QED BY <1>13, <2>4, <2>5
<1> QED BY <1>3, <1>10, <1>11, <1>12, <1>13

LEMMA SettlesSkip ==
  ASSUME NEW rb, NEW s, NEW id, NEW n, NEW t \in Seq(Effect),
         Tail(t) # <<>>, t # <<>>,
         Plan(t, id, n), Settles(rb, s, t, id), Head(t).effect # "Persist"
  PROVE  Settles(rb, s, Tail(t), id)
<1>1. /\ Head(t) = t[1] /\ 1 \in DOMAIN t /\ Tail(t) \in Seq(Effect)
      /\ \A k \in DOMAIN Tail(t) : k + 1 \in DOMAIN t /\ Tail(t)[k] = t[k + 1]
  BY TailPlaces
<1>2. Tail(t)[Len(Tail(t))] = t[Len(t)]
  BY TailLast
<1>3. Kind(Head(t)) \notin {"PipelineCreate", "PipelineTransition",
                            "PhaseStatusUpdate", "SessionCreate"}
  <2>1. Head(t).effect \notin {"PipelineCreate", "PipelineTransition",
                               "PhaseStatusUpdate", "SessionCreate"}
    BY <1>1 DEF Effect, Abort
  <2> QED BY <2>1 DEF Kind
<1>4. \A kind \in {"PipelineCreate", "PipelineTransition", "PhaseStatusUpdate",
                   "SessionCreate"} : Has(t, kind) <=> Has(Tail(t), kind)
  BY <1>3, PlanRest
<1>5. Moved(t) <=> Moved(Tail(t))
  BY <1>4 DEF Moved
<1>6. Kind(t[Len(t)]) = "SetTimer" => \A k \in DOMAIN Tail(t) :
        Kind(Tail(t)[k]) \in Moves => RunsAgent(rb, Tail(t)[k].operation.phase)
  BY <1>1 DEF Settles
<1> QED BY <1>2, <1>4, <1>5, <1>6 DEF Settles

(* The last effect leaves the pipeline at rest.                            *)
LEMMA RestsPersist ==
  ASSUME NEW rb, NEW s \in State, NEW id, NEW n, NEW t \in Seq(Effect),
         t # <<>>, Tail(t) = <<>>,
         Plan(t, id, n), Justified(s, t, id, n), Settles(rb, s, t, id),
         Head(t).effect = "Persist",
         NEW o, o = Head(t).operation, NEW u, u = Apply(s, o)
  PROVE  Rests(rb, u, id)
<1>1. /\ Head(t) = t[1] /\ Head(t) = t[Len(t)] /\ DOMAIN t = {1}
  BY TailPlaces, TailLast
<1>2. o \in Operation /\ o.op = Kind(Head(t)) /\ o.id = id
  BY PersistHeadOf
<1>3. /\ o.op \in {"PipelineCreate", "PipelineTransition", "PhaseStatusUpdate"}
      /\ o.op = "PipelineCreate" => o.phase = "init" /\ rb.phases = <<>>
      /\ o.op = "PipelineTransition" => o.phase = "failed"
      /\ o.op = "PhaseStatusUpdate" => o.status = "Completed"
  <2>1. o.op \in {"WorkspaceCreate", "PipelineCreate", "PipelineTransition",
                  "PhaseStatusUpdate", "SessionCreate"}
    BY PersistHeadOf
  <2> QED BY <1>1, <1>2, <2>1 DEF Settles
<1>4. CASE o.op = "PipelineCreate"
  <2>1. id \in PipelineId /\ u.pipelines[id] = NewPipeline(o.name, o.phase)
    BY <1>2, <1>4, ApplyCreate
  <2>2. o.name \in Name /\ o.phase \in PhaseName
    BY <1>2, <1>4 DEF Operation
  <2> QED BY <1>3, <1>4, <2>1, <2>2, NewPipelineExists DEF Rests, Exists
<1>5. CASE o.op \in {"PipelineTransition", "PhaseStatusUpdate"}
  <2>1. Exists(s, o.id)
    BY <1>1, <1>2, <1>5 DEF Justified, OnPipeline, Has
  <2>2. /\ Exists(u, id) /\ s.pipelines[id] \in Pipeline
        /\ o.op = "PipelineTransition" => u.pipelines[id] =
             [s.pipelines[id] EXCEPT !.phase = o.phase, !.status = "Pending"]
        /\ o.op = "PhaseStatusUpdate" => u.pipelines[id] =
             [s.pipelines[id] EXCEPT !.status = o.status]
    BY <1>2, <1>5, <2>1, ApplyUpdate
  <2> QED BY <1>3, <1>5, <2>2 DEF Rests, Pipeline
<1> QED BY <1>3, <1>4, <1>5

LEMMA RestsSkip ==
  ASSUME NEW rb, NEW s, NEW id, NEW n, NEW t \in Seq(Effect),
         t # <<>>, Tail(t) = <<>>,
         Justified(s, t, id, n), Settles(rb, s, t, id),
         Head(t).effect \notin {"Persist", "Shell", "Abort"}
  PROVE  Rests(rb, s, id)
<1>1. /\ Head(t) = t[1] /\ Head(t) = t[Len(t)] /\ DOMAIN t = {1} /\ Head(t) \in Effect
  BY TailPlaces, TailLast
<1>2. Kind(t[1]) = "SetTimer"
  <2>1. Kind(t[1]) = t[1].effect
    BY <1>1 DEF Kind
  <2>2. t[1].effect \notin {"PipelineCreate", "PipelineTransition",
                            "PhaseStatusUpdate"}
    BY <1>1 DEF Effect, Abort
  <2> QED BY <1>1, <2>1, <2>2 DEF Settles
<1>3. \A kind : Has(t, kind) => kind = "SetTimer"
  BY <1>1, <1>2 DEF Has
<1>4. ~Moved(t) /\ ~Has(t, "PipelineCreate") /\ ~Has(t, "PhaseStatusUpdate")
      /\ ~Has(t, "SessionCreate")
  BY <1>3 DEF Moved
<1>5. RunsAgent(rb, s.pipelines[id].phase) /\ s.pipelines[id].status = "Running"
      /\ id \in s.sessions
  BY <1>1, <1>2, <1>4 DEF Settles
<1>6. Exists(s, id)
  BY <1>1, <1>2, <1>4 DEF Justified, OnPipeline
<1> QED BY <1>5, <1>6 DEF Rests

(* SettleInv, step by step.                                                *)
LEMMA SettleFree ==
  ASSUME SettleInv, ~Settling', batch' \subseteq batch, source' = source
  PROVE  SettleInv'
BY DEF SettleInv

LEMMA ClientSettles == SettleInv /\ EngineInv /\ Client => SettleInv'
<1> SUFFICES ASSUME SettleInv, EngineInv, Client PROVE SettleInv'
  OBVIOUS
<1>1. ASSUME NEW kind, NEW e, Serve(kind, e) PROVE SettleInv'
  <2>1. /\ ~running' /\ batch' = {} /\ pending' = <<e>> /\ call'.event = e
        /\ results' = results /\ ~running
    BY <1>1 DEF Serve, Waiting, handlerVars
  <2>2. results' = <<>>
    BY <2>1 DEF EngineInv, LoopInv
  <2>3. \A k \in DOMAIN pending' : pending'[k] = e
    BY <2>1
  <2> QED BY <2>1, <2>2, <2>3 DEF SettleInv
<1>2. CASE \E kind, e : Serve(kind, e)
  BY <1>1, <1>2
<1>3. CASE ~\E kind, e : Serve(kind, e)
  <2>1. call'.reply = "error" /\ UNCHANGED <<source, batch>>
    BY <1>3 DEF Client, ServeCommand, ServeAgent, ServePipeline, ServeEvent,
                ServeSessionSend, Answered, loopVars
  <2> QED BY <2>1, SettleFree DEF Settling
<1> QED BY <1>2, <1>3

LEMMA DispatchSettles ==
  ASSUME TypeOK, EngineInv, SettleInv, Dispatch
  PROVE  SettleInv'
<1>1. /\ ~running /\ up /\ batch' \subseteq batch
      /\ UNCHANGED <<source, call, durable, memory, inflight, runbook, results>>
  BY DEF Dispatch, stateVars
<1>2. results = <<>> /\ inflight = Nothing /\ pending \in Seq(Event)
      /\ Len(pending) <= 1
  BY <1>1 DEF EngineInv, LoopInv, TypeOK
<1> SUFFICES ASSUME Settling
             PROVE  SettleInv'
  BY <1>1, SettleFree DEF Settling
<1>3. batch = {}
  BY DEF SettleInv, Settling
<1>4. pending # <<>>
  BY <1>3 DEF Dispatch
<1>5. PICK e, seen : e = pending[Len(pending)]
                     /\ todo' = HandleEvent(runbook, memory, e, seen)
  BY <1>4 DEF Dispatch
<1>6. Len(pending) \in DOMAIN pending /\ e \in Event
  BY <1>2, <1>4, <1>5
<1>7. /\ e.event \in {"CommandInvoked", "AgentDone", "AgentError", "ShellCompleted"}
      /\ e.id = call.event.id
      /\ e.event = "CommandInvoked" => ~Exists(durable, e.id)
  BY <1>5, <1>6 DEF SettleInv, Settling, EngineInv, EventInv
<1>8. e.id \in PipelineId
  BY <1>6, <1>7 DEF Event
<1>9. e.event = "ShellCompleted" =>
        Exists(memory, e.id) /\ memory.pipelines[e.id].phase = e.phase
  <2> SUFFICES ASSUME e.event = "ShellCompleted"
               PROVE  Exists(memory, e.id) /\ memory.pipelines[e.id].phase = e.phase
    OBVIOUS
  <2>1. e # call.event
    BY DEF Settling
  <2> QED BY <1>5, <1>6, <2>1 DEF EngineInv, ShellResultIsFresh
<1>10. /\ runbook \in RunbookType /\ memory \in State /\ Unlinked(memory)
       /\ \A i \in PipelineId : Exists(memory, i) => Exists(durable, i)
  BY EngineAssumption DEF TypeOK, EngineInv, StateInv, Good, Unlinked
<1>11. PICK id, n : Planned(runbook, memory, e, todo', id, n)
  <2>1. e.event \notin {"TmuxExited", "ClaudeExited"}
    BY <1>7
  <2> QED BY <1>5, <1>6, <1>10, <2>1, HandlerPlanned
<1>12. /\ id = call.event.id /\ id = e.id /\ n \in Name \cup {Nothing}
       /\ todo' # <<>> /\ AlwaysSettles(runbook, todo', id)
  BY <1>7, <1>9, <1>11 DEF Planned
<1>13. Plan(todo', id, n) /\ Justified(durable, todo', id, n)
  BY <1>7, <1>8, <1>10, <1>11, <1>12, PlannedJustified
<1>14. Unlogged' = todo'
  BY <1>1, <1>2 DEF Unlogged
<1>15. Settles(runbook, durable, todo', id)
  BY <1>12 DEF AlwaysSettles
<1>16. pending' = <<>>
  <2>1. PICK k : k = Len(pending)
    OBVIOUS
  <2>2. k = 1
    <3>1. k <= 1
      BY <1>2, <2>1
    <3>2. k \in Nat /\ k # 0
      <4>1. pending \in Seq(Event) /\ pending # <<>>
        BY <1>2, <1>4
      <4> QED BY <2>1, <4>1
    <3> QED BY <3>1, <3>2
  <2>3. pending' = SubSeq(pending, 1, 0)
    BY <1>4, <2>1, <2>2 DEF Dispatch
  <2> QED BY <1>2, <2>3, SubSeqProperties
<1> QED BY <1>1, <1>2, <1>3, <1>12, <1>13, <1>14, <1>15, <1>16 DEF SettleInv

LEMMA ReturnSettles ==
  ASSUME TypeOK, EngineInv, SettleInv, Return
  PROVE  SettleInv'
<1>1. /\ running /\ todo = <<>> /\ running' = FALSE /\ results' = <<>>
      /\ UNCHANGED <<source, batch>>
      /\ call'.reply = "pending" => call' = call
      /\ source # "sessions" => pending' = pending \o results
  BY DEF Return, Answered
<1>2. pending = <<>> /\ results \in Seq(Event)
  BY <1>1 DEF EngineInv, LoopInv, TypeOK
<1>3. source # "sessions" => pending' = results
  BY <1>1, <1>2, ConcatEmptySeq
<1>4. Settling' => Settling
  BY <1>1 DEF Settling
<1>5. \A k \in DOMAIN results : results[k].event = "ShellCompleted"
  BY DEF EngineInv, EventInv
<1> QED BY <1>1, <1>3, <1>4, <1>5 DEF SettleInv, Settling

(* What is left of a handler leads to rest.                                *)
Leading(t, id) ==
  IF t = <<>> THEN results # <<>> \/ Settled(durable, id)
              ELSE Settles(runbook, durable, t, id)

LEMMA SettleRuns ==
  ASSUME SettleInv, Settling, running
  PROVE  \E n \in Name \cup {Nothing} :
           /\ Plan(todo, call.event.id, n)
           /\ Justified(durable, Unlogged, call.event.id, n)
           /\ Leading(Unlogged, call.event.id)
BY DEF SettleInv, Leading

LEMMA SettleKeeps ==
  ASSUME SettleInv, Settling, running, UNCHANGED <<source, batch, call, pending>>,
         \A k \in DOMAIN results' : results'[k].id = call.event.id,
         NEW n \in Name \cup {Nothing}, Plan(todo', call.event.id, n),
         Justified(durable', Unlogged', call.event.id, n),
         Leading(Unlogged, call.event.id)'
  PROVE  SettleInv'
BY DEF SettleInv, Leading, Settling

LEMMA AppendSettles ==
  ASSUME TypeOK, EngineInv, SettleInv, AppendToWal
  PROVE  SettleInv'
<1>1. /\ running /\ todo # <<>> /\ Head(todo).effect = "Persist"
      /\ inflight = Nothing /\ inflight' = Head(todo).operation
      /\ durable' = Apply(durable, Head(todo).operation)
      /\ UNCHANGED <<source, batch, call, pending, results, todo, runbook>>
  BY DEF AppendToWal, NextIs, handlerVars, loopVars
<1> SUFFICES ASSUME Settling PROVE SettleInv'
  BY <1>1, SettleFree DEF Settling
<1>2. PICK id : id = call.event.id
  OBVIOUS
<1>3. Unlogged = todo
  BY <1>1 DEF Unlogged
<1>4. PICK n \in Name \cup {Nothing} :
        /\ Plan(todo, id, n) /\ Justified(durable, todo, id, n)
        /\ Settles(runbook, durable, todo, id)
  BY <1>1, <1>2, <1>3, SettleRuns DEF Leading
<1>5. todo \in Seq(Effect) /\ durable \in State
  BY DEF TypeOK
<1>6. Head(todo).operation # Nothing
  BY <1>1, PersistHead, OperationAssumption DEF NextIs
<1>7. Unlogged' = Tail(todo)
  BY <1>1, <1>6 DEF Unlogged
<1>8. Justified(durable', Tail(todo), id, n)
  BY <1>1, <1>4, <1>5, JustifiedPersist
<1>9. Leading(Unlogged, id)'
  <2>1. CASE Tail(todo) # <<>>
    <3>1. Settles(runbook, durable', Tail(todo), id)
      BY <1>1, <1>4, <1>5, <2>1, SettlesPersist
    <3> QED BY <1>1, <1>7, <2>1, <3>1 DEF Leading
  <2>2. CASE Tail(todo) = <<>>
    <3>1. Rests(runbook, durable', id)
      BY <1>1, <1>4, <1>5, <2>2, RestsPersist
    <3>2. Settled(durable, id)'
      BY <1>1, <3>1 DEF Settled, Rests, InAgentPhase, RunsAgent
    <3> QED BY <1>7, <2>2, <3>2 DEF Leading
  <2> QED BY <2>1, <2>2
<1>10. \A k \in DOMAIN results' : results'[k].id = call.event.id
  BY <1>1 DEF SettleInv
<1> QED BY <1>1, <1>2, <1>4, <1>7, <1>8, <1>9, <1>10, SettleKeeps

LEMMA ApplySettles ==
  ASSUME TypeOK, EngineInv, SettleInv, ApplyToState
  PROVE  SettleInv'
<1>1. /\ running /\ todo # <<>> /\ inflight # Nothing /\ inflight' = Nothing
      /\ todo' = Tail(todo)
      /\ UNCHANGED <<source, batch, call, pending, results, runbook, durable>>
  BY DEF ApplyToState, EffectDone, NextIs, loopVars
<1> SUFFICES ASSUME Settling PROVE SettleInv'
  BY <1>1, SettleFree DEF Settling
<1>2. PICK id : id = call.event.id
  OBVIOUS
<1>3. Unlogged = Tail(todo) /\ Unlogged' = Tail(todo)
  BY <1>1 DEF Unlogged
<1>4. PICK n \in Name \cup {Nothing} :
        /\ Plan(todo, id, n) /\ Justified(durable, Unlogged, id, n)
        /\ Leading(Unlogged, id)
  BY <1>1, <1>2, SettleRuns
<1>5. Plan(Tail(todo), id, n)
  BY <1>1, <1>4, PlanTail DEF TypeOK
<1>6. Leading(Unlogged, id)'
  BY <1>1, <1>3, <1>4 DEF Leading, Settled, InAgentPhase
<1>7. \A k \in DOMAIN results' : results'[k].id = call.event.id
  BY <1>1 DEF SettleInv
<1> QED BY <1>1, <1>2, <1>3, <1>4, <1>5, <1>6, <1>7, SettleKeeps

LEMMA WorldSettles ==
  ASSUME TypeOK, EngineInv, SettleInv, ChangeWorld
  PROVE  SettleInv'
<1>1. /\ running /\ todo # <<>>
      /\ Head(todo).effect \notin {"Persist", "Shell", "Abort"}
      /\ todo' = Tail(todo)
      /\ UNCHANGED <<source, batch, call, pending, results, runbook, durable,
                     inflight>>
  BY DEF ChangeWorld, MustFail, EffectDone, loopVars, stateVars
<1> SUFFICES ASSUME Settling PROVE SettleInv'
  BY <1>1, SettleFree DEF Settling
<1>2. PICK id : id = call.event.id
  OBVIOUS
<1>3. inflight = Nothing
  BY <1>1, EffectDue
<1>4. Unlogged = todo /\ Unlogged' = Tail(todo)
  BY <1>1, <1>3 DEF Unlogged
<1>5. PICK n \in Name \cup {Nothing} :
        /\ Plan(todo, id, n) /\ Justified(durable, todo, id, n)
        /\ Settles(runbook, durable, todo, id)
  BY <1>1, <1>2, <1>4, SettleRuns DEF Leading
<1>6. todo \in Seq(Effect)
  BY DEF TypeOK
<1>7. Plan(Tail(todo), id, n) /\ Justified(durable, Tail(todo), id, n)
  BY <1>1, <1>5, <1>6, PlanTail, JustifiedSkip
<1>8. Leading(Unlogged, id)'
  <2>1. CASE Tail(todo) # <<>>
    <3>1. Settles(runbook, durable, Tail(todo), id)
      BY <1>1, <1>5, <1>6, <2>1, SettlesSkip
    <3> QED BY <1>1, <1>4, <2>1, <3>1 DEF Leading
  <2>2. CASE Tail(todo) = <<>>
    <3>1. Rests(runbook, durable, id)
      BY <1>1, <1>5, <1>6, <2>2, RestsSkip
    <3>2. Settled(durable, id)'
      BY <1>1, <3>1 DEF Settled, Rests, InAgentPhase, RunsAgent
    <3> QED BY <1>4, <2>2, <3>2 DEF Leading
  <2> QED BY <2>1, <2>2
<1>9. \A k \in DOMAIN results' : results'[k].id = call.event.id
  BY <1>1 DEF SettleInv
<1> QED BY <1>1, <1>2, <1>4, <1>5, <1>7, <1>8, <1>9, SettleKeeps

LEMMA ShellSettles ==
  ASSUME TypeOK, EngineInv, SettleInv, RunShell
  PROVE  SettleInv'
<1>1. PICK x : x = Head(todo)
  OBVIOUS
<1>2. PICK code \in ExitCodes :
        results' = Append(results, ShellCompleted(x.id, x.phase, code))
  BY <1>1 DEF RunShell
<1>3. /\ running /\ todo # <<>> /\ x.effect = "Shell" /\ todo' = Tail(todo)
      /\ UNCHANGED <<source, batch, call, pending, runbook, durable, inflight>>
  BY <1>1 DEF RunShell, NextIs, EffectDone, loopVars, stateVars
<1> SUFFICES ASSUME Settling PROVE SettleInv'
  BY <1>3, SettleFree DEF Settling
<1>4. inflight = Nothing /\ results = <<>> /\ todo \in Seq(Effect)
  BY <1>1, <1>3, EffectDue
<1>5. Unlogged = todo /\ Unlogged' = Tail(todo)
  BY <1>3, <1>4 DEF Unlogged
<1>6. PICK id : id = call.event.id
  OBVIOUS
<1>7. PICK n \in Name \cup {Nothing} :
        Plan(todo, id, n) /\ Justified(durable, todo, id, n)
  BY <1>3, <1>5, <1>6, SettleRuns
<1>8. x.id = id /\ Tail(todo) = <<>>
  BY <1>1, <1>3, <1>4, <1>7, ShellFresh
<1>9. PICK e : e = ShellCompleted(x.id, x.phase, code)
  OBVIOUS
<1>10. e.id = id /\ results' = << e >>
  BY <1>2, <1>4, <1>8, <1>9 DEF ShellCompleted
<1>11. Plan(Tail(todo), id, n) /\ Justified(durable, Tail(todo), id, n)
  BY <1>1, <1>3, <1>4, <1>7, PlanTail, JustifiedSkip
<1>12. Leading(Unlogged, id)'
  BY <1>5, <1>8, <1>10 DEF Leading
<1>13. \A k \in DOMAIN results' : results'[k].id = call.event.id
  BY <1>6, <1>10
<1> QED BY <1>3, <1>5, <1>6, <1>11, <1>12, <1>13, SettleKeeps

(* The client is told of an error.                                         *)
LEMMA UnwindSettles ==
  ASSUME TypeOK, SettleInv, Unwind, source' = source
  PROVE  SettleInv'
<1>1. batch' \subseteq batch
  BY DEF Unwind
<1>2. ~Settling'
  BY DEF Unwind, Answered, Settling
<1> QED BY <1>1, <1>2, SettleFree

LEMMA NextSettles ==
  ASSUME TypeOK, EngineInv, SettleInv, [Next]_vars
  PROVE  SettleInv'
<1>1. CASE Client
  BY <1>1, ClientSettles
<1>2. CASE Tick \/ CheckSessions
  <2>1. source' # "client"
    BY <1>2 DEF Tick, CheckSessions
  <2> QED BY <2>1 DEF SettleInv, Settling
<1>3. CASE Dispatch \/ Return
  BY <1>3, DispatchSettles, ReturnSettles
<1>4. CASE AppendToWal \/ ApplyToState \/ ChangeWorld \/ RunShell
  BY <1>4, AppendSettles, ApplySettles, WorldSettles, ShellSettles
<1>5. CASE EffectRefused \/ EffectFails \/ AppendFails
  BY <1>5, UnwindSettles DEF EffectRefused, EffectFails, AppendFails
<1>6. CASE Crash \/ KilledInAppend \/ Shutdown
  <2>1. batch' = {} /\ call'.reply # "pending"
    BY <1>6 DEF Crash, KilledInAppend, Shutdown, LoseMemory, Answered
  <2> QED BY <2>1 DEF SettleInv, Settling
<1>7. CASE Startup
  <2>1. ~running /\ UNCHANGED <<source, batch, call, pending, results, running>>
    BY <1>7 DEF Startup, EngineInv, LoopInv, loopVars, handlerVars
  <2> QED BY <2>1 DEF SettleInv, Settling
<1>8. CASE (\E id \in PipelineId : AgentExits(id)) \/ UNCHANGED vars
  <2>1. UNCHANGED <<source, batch, call, pending, results, running, todo,
                    durable, inflight, runbook>>
    BY <1>8 DEF AgentExits, vars, stateVars, loopVars, handlerVars
  <2> QED BY <2>1 DEF SettleInv, Settling, Settled, InAgentPhase, Unlogged
<1> QED BY <1>1, <1>2, <1>3, <1>4, <1>5, <1>6, <1>7, <1>8 DEF Next, Work

(* A request is accepted by the return of the last handler it led to.      *)
LEMMA OkSettles ==
  ASSUME TypeOK, EngineInv, SettleInv, [Next]_vars,
         call.reply = "pending", call'.reply = "ok",
         call.event.event \in {"CommandInvoked", "AgentDone", "AgentError"}
  PROVE  Settled(durable, call.event.id)
<1>1. Return
  <2>1. CASE Client
    BY <2>1 DEF Client, ServeCommand, ServeAgent, ServePipeline, ServeEvent,
                ServeSessionSend, Serve, Answered
  <2>2. CASE Tick \/ CheckSessions \/ Dispatch \/ Startup \/ UNCHANGED vars
             \/ \E id \in PipelineId : AgentExits(id)
    BY <2>2 DEF Tick, CheckSessions, Dispatch, Startup, AgentExits, vars
  <2>3. CASE AppendToWal \/ ApplyToState \/ ChangeWorld \/ RunShell
    BY <2>3 DEF AppendToWal, ApplyToState, ChangeWorld, RunShell, EffectDone
  <2>4. CASE EffectRefused \/ EffectFails \/ AppendFails
    <3>1. Unwind
      BY <2>4 DEF EffectRefused, EffectFails, AppendFails
    <3> QED BY <3>1 DEF Unwind, Answered
  <2>5. CASE Crash \/ KilledInAppend \/ Shutdown
    BY <2>5 DEF Crash, KilledInAppend, Shutdown, LoseMemory, Answered
  <2> QED BY <2>1, <2>2, <2>3, <2>4, <2>5 DEF Next, Work
<1>2. /\ running /\ todo = <<>> /\ source = "client" /\ pending \o results = <<>>
  BY <1>1 DEF Return
<1>3. pending = <<>> /\ inflight = Nothing /\ results \in Seq(Event)
  BY <1>2 DEF EngineInv, LoopInv, TypeOK
<1>4. results = <<>>
  BY <1>2, <1>3, ConcatEmptySeq
<1>5. Unlogged = <<>>
  BY <1>2, <1>3 DEF Unlogged
<1>6. Settling
  BY <1>2 DEF Settling
<1> QED BY <1>2, <1>4, <1>5, <1>6 DEF SettleInv

(* A handler that a waiting client set to work leaves its pipeline at      *)
(* rest, or ends in an error or in a shell command whose result is handled *)
(* next.  DaemonState::process_event.                                      *)
THEOREM EngineSettleInv == Spec => []SettleInv
<1>1. Init => SettleInv
  BY DEF Init, SettleInv, Settling, NoCall, Answered
<1>2. TypeOK /\ EngineInv /\ SettleInv /\ [Next]_vars => SettleInv'
  BY NextSettles
<1> QED BY <1>1, <1>2, EngineTypeOK, EngineInvariant, PTL DEF Spec

(* As long as the log can be read, "accepted" means that all is over, at   *)
(* rest, and what a replay finds: for every runbook, and whatever effects  *)
(* and appends failed before, the append among them whose entry is in the  *)
(* log all the same.  DaemonState::process_event.                          *)
THEOREM EngineOkMeansSettled == Spec => OkMeansSettled
<1>1. TypeOK /\ EngineInv /\ SettleInv /\ [Next]_vars =>
        [call.reply = "pending" /\ call'.reply = "ok"
           /\ call.event.event \in {"CommandInvoked", "AgentDone", "AgentError"}
           /\ Replay # Nothing
             => Settled(Replay, call.event.id)]_vars
  <2>1. Replay # Nothing => Replay = durable
    BY DEF Replay
  <2> QED BY <2>1, OkSettles
<1> QED BY <1>1, EngineTypeOK, EngineInvariant, EngineSettleInv, PTL
        DEF Spec, OkMeansSettled

-----------------------------------------------------------------------------
(* Nothing else is served while a client waits.                            *)

LEMMA WaitingSteps ==
  ASSUME TypeOK, WaitingIsServed, [Next]_vars
  PROVE  WaitingIsServed'
<1> SUFFICES ASSUME call'.reply = "pending"
             PROVE  /\ up' /\ source' = "client" /\ batch' = {} /\ ~checkDue'
                    /\ running' \/ pending' # <<>>
  BY DEF WaitingIsServed
<1>1. CASE Client
  <2>1. PICK kind, e : Serve(kind, e)
    BY <1>1 DEF Client, ServeCommand, ServeAgent, ServePipeline, ServeEvent,
                ServeSessionSend, Answered
  <2> QED BY <2>1 DEF Serve, Waiting
<1>2. ASSUME call.reply = "pending"
      PROVE  /\ up /\ source = "client" /\ batch = {} /\ ~checkDue
             /\ running \/ pending # <<>>
  BY <1>2 DEF WaitingIsServed
<1>3. CASE Tick \/ CheckSessions
  BY <1>2, <1>3 DEF Tick, CheckSessions, Waiting
<1>4. CASE Dispatch
  <2>1. /\ running' /\ UNCHANGED <<up, source, checkDue, call>>
        /\ pending # <<>> => UNCHANGED batch
    BY <1>4 DEF Dispatch
  <2>2. ~running
    BY <1>4 DEF Dispatch
  <2> QED BY <1>2, <2>1, <2>2
<1>5. CASE Return
  <2>1. PICK left : left = IF source = "sessions" THEN pending ELSE pending \o results
    OBVIOUS
  <2>2. /\ pending' = left /\ UNCHANGED <<up, source, batch, checkDue>>
        /\ call' = IF source = "client" /\ left = <<>>
                   THEN Answered("ok") ELSE call
    BY <1>5, <2>1 DEF Return
  <2>3. ~(source = "client" /\ left = <<>>)
    BY <2>2 DEF Answered
  <2> QED BY <1>2, <2>2, <2>3
<1>6. CASE AppendToWal \/ ApplyToState \/ ChangeWorld \/ RunShell
  <2>1. running /\ UNCHANGED <<up, loopVars, running, call>>
    BY <1>6 DEF AppendToWal, ApplyToState, ChangeWorld, RunShell, NextIs,
                EffectDone, handlerVars
  <2> QED BY <1>2, <2>1 DEF loopVars
<1>7. CASE EffectRefused \/ EffectFails \/ AppendFails
  <2>1. Unwind
    BY <1>7 DEF EffectRefused, EffectFails, AppendFails
  <2> QED BY <1>2, <2>1 DEF Unwind, Answered
<1>8. CASE Crash \/ KilledInAppend \/ Shutdown
  BY <1>8 DEF Crash, KilledInAppend, Shutdown, LoseMemory, Answered
<1>9. CASE Startup
  BY <1>2, <1>9 DEF Startup
<1>10. CASE (\E id \in PipelineId : AgentExits(id)) \/ UNCHANGED vars
  <2>1. UNCHANGED <<up, loopVars, running, call>>
    BY <1>10 DEF AgentExits, vars, handlerVars
  <2> QED BY <1>2, <2>1 DEF loopVars
<1> QED BY <1>1, <1>3, <1>4, <1>5, <1>6, <1>7, <1>8, <1>9, <1>10 DEF Next, Work

(* While a client waits the loop is at its event or at one that followed   *)
(* from it: no error path, return or crash leaves the request behind       *)
(* without an answer.  DaemonState::process_event.                         *)
THEOREM EngineWaitingIsServed == Spec => []WaitingIsServed
<1>1. Init => WaitingIsServed
  BY DEF Init, WaitingIsServed, NoCall, Answered
<1>2. TypeOK /\ WaitingIsServed /\ [Next]_vars => WaitingIsServed'
  BY WaitingSteps
<1> QED BY <1>1, <1>2, EngineTypeOK, PTL DEF Spec
=============================================================================
