----------------------------- MODULE EngineProofs -----------------------------
(***************************************************************************)
(* Theorems about the engine, for any runbooks, pipelines, requests and    *)
(* bounds: its type invariant, and that the log is never behind memory.    *)
(***************************************************************************)
EXTENDS EngineProperties, HandlersProofs

(* The parts of TypeOK the steps of a handler change.                      *)
LEMMA EventTypes ==
  /\ \A id \in PipelineId, name \in Name : CommandInvoked(id, name) \in Event
  /\ \A id \in PipelineId :
       /\ AgentDone(id) \in Event /\ AgentError(id) \in Event
       /\ Timer(id) \in Event /\ Resume(id) \in Event
       /\ TmuxExited(id) \in Event /\ ClaudeExited(id) \in Event
  /\ \A sid \in SessionId, code \in ExitCodes :
       SendInput(sid) \in Event /\ SessionExited(sid, code) \in Event
  /\ \A id \in PipelineId, phase \in PhaseName, code \in ExitCodes :
       ShellCompleted(id, phase, code) \in Event
BY DEF Event, CommandInvoked, AgentDone, AgentError, Timer, Resume, TmuxExited,
       ClaudeExited, SendInput, SessionExited, ShellCompleted, ExitCodes

LEMMA EmptyStateType == EmptyState \in State
BY DEF EmptyState, State

LEMMA InitTypeOK == Init => TypeOK
<1> SUFFICES ASSUME Init PROVE TypeOK
  OBVIOUS
<1>1. memory \in State /\ durable \in State
  BY EmptyStateType DEF Init
<1>2. call \in [event : Event \cup {Nothing},
                reply : {"none", "pending", "ok", "error", "lost"}]
  BY DEF Init, NoCall, Answered
<1>3. pending \in Seq(Event) /\ todo \in Seq(Effect) /\ results \in Seq(Event)
  BY DEF Init
<1>4. tmux \in [PipelineId -> {"none", "claude", "shell"}]
  BY DEF Init
<1> QED BY <1>1, <1>2, <1>3, <1>4 DEF Init, TypeOK

(* A request of a client.                                                  *)
LEMMA ServeTypeOK ==
  ASSUME TypeOK, NEW kind, NEW e \in Event, Serve(kind, e),
         issued' \subseteq PipelineId
  PROVE  TypeOK'
<1>1. pending' \in Seq(Event)
  BY DEF Serve
<1>2. call' \in [event : Event \cup {Nothing},
                 reply : {"none", "pending", "ok", "error", "lost"}]
  BY DEF Serve
<1>3. requests' \in Nat
  BY DEF Serve, TypeOK
<1> QED BY <1>1, <1>2, <1>3 DEF Serve, TypeOK, vars, stateVars, handlerVars,
           timerVars, worldVars

LEMMA ClientTypeOK == TypeOK /\ Client => TypeOK'
<1> SUFFICES ASSUME TypeOK, Client PROVE TypeOK'
  OBVIOUS
<1>1. issued \subseteq PipelineId
  BY DEF TypeOK
<1>2. CASE \E id \in PipelineId, name \in Name : ServeCommand(id, name)
  BY <1>1, <1>2, EventTypes, ServeTypeOK DEF ServeCommand
<1>3. CASE \E id \in PipelineId, e \in Event :
             ServeAgent(id, e) \/ ServePipeline(id, e)
  BY <1>1, <1>3, ServeTypeOK DEF ServeAgent, ServePipeline
<1>4. CASE \E id \in PipelineId : ServeSessionSend(id)
  <2> PICK id \in PipelineId : ServeSessionSend(id)
    BY <1>4
  <2> DEFINE sid == IF id \in memory.sessions THEN id
                    ELSE IF Exists(memory, id) THEN memory.pipelines[id].session
                    ELSE Nothing
  <2>1. sid \in SessionId \cup {Nothing}
    <3>1. Exists(memory, id) => memory.pipelines[id] \in Pipeline
      BY FoundType DEF TypeOK
    <3> QED BY <3>1 DEF SessionId, Pipeline
  <2>2. CASE sid # Nothing /\ Serve("SessionSend", SendInput(sid))
    <3> HIDE DEF sid
    <3>1. SendInput(sid) \in Event
      BY <2>1, <2>2, EventTypes DEF ExitCodes
    <3> QED BY <1>1, <2>2, <3>1, ServeTypeOK DEF ServeSessionSend
  <2>3. CASE ~(sid # Nothing /\ Serve("SessionSend", SendInput(sid)))
    <3>1. /\ requests' = requests + 1
          /\ call' = [event |-> Nothing, reply |-> "error"]
          /\ UNCHANGED <<up, runbook, stateVars, loopVars, handlerVars,
                         timerVars, worldVars, faults, stops, issued>>
      BY <2>3 DEF ServeSessionSend, Answered
    <3> QED BY <3>1 DEF TypeOK, stateVars, loopVars, handlerVars, timerVars,
               worldVars
  <2> QED BY <2>2, <2>3
<1>5. CASE \E e \in ClientEvents : ServeEvent(e)
  <2>1. ClientEvents \subseteq Event
    BY <1>1, EventTypes DEF ClientEvents, ExitCodes
  <2> QED BY <1>1, <1>5, <2>1, ServeTypeOK DEF ServeEvent
<1> QED BY <1>2, <1>3, <1>4, <1>5, EventTypes DEF Client

-----------------------------------------------------------------------------
(* The loop and its handlers.                                              *)

LEMMA TickTypeOK == TypeOK /\ Tick => TypeOK'
<1> SUFFICES ASSUME TypeOK, Tick PROVE TypeOK'
  OBVIOUS
<1>1. PICK fired \in SUBSET heartbeats :
        batch' = {Timer(i) : i \in fired} /\ heartbeats' = heartbeats \ fired
  BY DEF Tick
<1>2. batch' \subseteq Event /\ heartbeats' \subseteq PipelineId
  BY <1>1, EventTypes DEF TypeOK
<1> QED BY <1>2 DEF Tick, TypeOK, stateVars, handlerVars, worldVars, boundVars

LEMMA CheckSessionsTypeOK == TypeOK /\ CheckSessions => TypeOK'
<1> SUFFICES ASSUME TypeOK, CheckSessions PROVE TypeOK'
  OBVIOUS
<1>1. ExitedSessions \subseteq Event
  BY EventTypes DEF ExitedSessions
<1> QED BY <1>1 DEF CheckSessions, TypeOK, stateVars, handlerVars, timerVars,
           worldVars, boundVars

LEMMA DispatchTypeOK == TypeOK /\ Dispatch => TypeOK'
<1> SUFFICES ASSUME TypeOK, Dispatch PROVE TypeOK'
  OBVIOUS
<1>1. pending # <<>> => /\ pending[Len(pending)] \in Event
                        /\ SubSeq(pending, 1, Len(pending) - 1) \in Seq(Event)
  <2> SUFFICES ASSUME pending # <<>>
               PROVE  /\ pending[Len(pending)] \in Event
                      /\ SubSeq(pending, 1, Len(pending) - 1) \in Seq(Event)
    OBVIOUS
  <2>1. pending \in Seq(Event)
    BY DEF TypeOK
  <2>2. Len(pending) \in Nat /\ Len(pending) > 0
    BY <2>1
  <2>3. \A i \in 1..Len(pending) : pending[i] \in Event
    BY <2>1
  <2>4. SubSeq(pending, 1, Len(pending) - 1) \in Seq(Event)
    BY <2>2, <2>3, SubSeqProperties
  <2> QED BY <2>2, <2>3, <2>4
<1> DEFINE next == IF pending # <<>> THEN {pending[Len(pending)]} ELSE batch
<1>2. next \subseteq Event
  BY <1>1 DEF TypeOK
<1>3. PICK e \in next :
        /\ \E seen \in IF e.event = "Timer" THEN LogStates ELSE {"missing"} :
             todo' = HandleEvent(runbook, memory, e, seen)
        /\ IF pending # <<>>
           THEN /\ pending' = SubSeq(pending, 1, Len(pending) - 1)
                /\ UNCHANGED batch
           ELSE /\ batch' = batch \ {e}
                /\ UNCHANGED pending
  BY DEF Dispatch
<1> HIDE DEF next
<1>4. runbook \in RunbookType /\ memory \in State
  BY EngineAssumption DEF TypeOK
<1>5. todo' \in Seq(Effect)
  BY <1>2, <1>3, <1>4, HandleEventType
<1>6. pending' \in Seq(Event) /\ batch' \subseteq Event
  BY <1>1, <1>3 DEF TypeOK
<1> QED BY <1>5, <1>6 DEF Dispatch, TypeOK, stateVars, timerVars, worldVars,
           boundVars

LEMMA ReturnTypeOK == TypeOK /\ Return => TypeOK'
<1> SUFFICES ASSUME TypeOK, Return PROVE TypeOK'
  OBVIOUS
<1>1. pending' \in Seq(Event)
  BY ConcatProperties DEF Return, TypeOK
<1>2. call' \in [event : Event \cup {Nothing},
                 reply : {"none", "pending", "ok", "error", "lost"}]
  BY DEF Return, TypeOK, Answered
<1>3. results' \in Seq(Event)
  BY DEF Return
<1> QED BY <1>1, <1>2, <1>3 DEF Return, TypeOK, stateVars, timerVars, worldVars,
           boundVars

(* What Unwind leaves behind has its type.                                 *)
LEMMA UnwindTypes ==
  ASSUME TypeOK, Unwind
  PROVE  /\ running' \in BOOLEAN /\ todo' \in Seq(Effect)
         /\ results' \in Seq(Event) /\ pending' \in Seq(Event)
         /\ batch' \subseteq Event
         /\ call' \in [event : Event \cup {Nothing},
                       reply : {"none", "pending", "ok", "error", "lost"}]
<1>1. call' \in [event : Event \cup {Nothing},
                 reply : {"none", "pending", "ok", "error", "lost"}]
  BY DEF Unwind, TypeOK, Answered
<1>2. <<>> \in Seq(Effect) /\ <<>> \in Seq(Event)
  OBVIOUS
<1> QED BY <1>1, <1>2 DEF Unwind, TypeOK

-----------------------------------------------------------------------------
(* Effects.                                                                *)

(* The effect at hand, and what is left after it.                          *)
LEMMA HeadType ==
  ASSUME TypeOK, todo # <<>>
  PROVE  Head(todo) \in Effect /\ Tail(todo) \in Seq(Effect)
BY HeadTailProperties DEF TypeOK

LEMMA PersistHead ==
  ASSUME TypeOK, NextIs("Persist")
  PROVE  Head(todo).operation \in Operation
BY HeadType DEF NextIs, Effect, Abort

LEMMA AppendToWalTypeOK == TypeOK /\ AppendToWal => TypeOK'
<1> SUFFICES ASSUME TypeOK, AppendToWal PROVE TypeOK'
  OBVIOUS
<1>1. Head(todo).operation \in Operation
  BY PersistHead DEF AppendToWal
<1>2. durable' \in State
  BY <1>1, ApplyType DEF AppendToWal, TypeOK
<1>3. log' \in {"ended", "open", "unreadable"}
  BY DEF AppendToWal, LogWith
<1> QED BY <1>1, <1>2, <1>3 DEF AppendToWal, TypeOK, loopVars, handlerVars, timerVars,
           worldVars, boundVars

LEMMA ApplyToStateTypeOK == TypeOK /\ ApplyToState => TypeOK'
<1> SUFFICES ASSUME TypeOK, ApplyToState PROVE TypeOK'
  OBVIOUS
<1>1. memory' \in State
  BY ApplyType DEF ApplyToState, TypeOK
<1>2. todo' \in Seq(Effect)
  BY HeadType DEF ApplyToState, NextIs, EffectDone
<1> QED BY <1>1, <1>2 DEF ApplyToState, EffectDone, TypeOK, loopVars, timerVars,
           worldVars, boundVars

LEMMA ChangeWorldTypeOK == TypeOK /\ ChangeWorld => TypeOK'
<1> SUFFICES ASSUME TypeOK, ChangeWorld PROVE TypeOK'
  OBVIOUS
<1> DEFINE x == Head(todo)
<1>1. x \in Effect /\ todo' \in Seq(Effect)
  BY HeadType DEF ChangeWorld, EffectDone
<1>2. /\ x.effect \in {"Spawn", "SetTimer", "CancelTimer"} => x.id \in PipelineId
      /\ x.effect \in {"WorktreeAdd", "WorktreeRemove", "PrepareWorkspace"}
           => x.name \in Name
  BY <1>1 DEF Effect, Abort
<1>3. /\ tmux' = TmuxAfter(x) /\ dirs' = DirsAfter(x)
      /\ branches' = BranchesAfter(x) /\ timers' = TimersAfter(x)
  BY DEF ChangeWorld
<1> HIDE DEF x
<1>4. tmux' \in [PipelineId -> {"none", "claude", "shell"}]
  BY <1>2, <1>3 DEF TmuxAfter, TypeOK
<1>5. dirs' \subseteq Name /\ branches' \subseteq Name
  BY <1>2, <1>3 DEF DirsAfter, BranchesAfter, TypeOK
<1>6. timers' \subseteq PipelineId
  BY <1>2, <1>3 DEF TimersAfter, TypeOK
<1> QED BY <1>1, <1>4, <1>5, <1>6 DEF ChangeWorld, EffectDone, TypeOK, stateVars,
           loopVars, boundVars

LEMMA RunShellTypeOK == TypeOK /\ RunShell => TypeOK'
<1> SUFFICES ASSUME TypeOK, RunShell PROVE TypeOK'
  OBVIOUS
<1>1. Head(todo) \in Effect /\ todo' \in Seq(Effect)
  BY HeadType DEF RunShell, NextIs, EffectDone
<1>2. Head(todo).id \in PipelineId /\ Head(todo).phase \in PhaseName
  BY <1>1 DEF RunShell, NextIs, Effect, Abort
<1>3. results' \in Seq(Event)
  BY <1>2, EventTypes DEF RunShell, TypeOK
<1> QED BY <1>1, <1>3 DEF RunShell, EffectDone, TypeOK, stateVars, loopVars,
           timerVars, worldVars, boundVars

LEMMA EffectRefusedTypeOK == TypeOK /\ EffectRefused => TypeOK'
<1> SUFFICES ASSUME TypeOK, EffectRefused PROVE TypeOK'
  OBVIOUS
<1>1. Unwind
  BY DEF EffectRefused
<1>2. UNCHANGED <<up, runbook, memory, durable, log, inflight, diverged, source,
                  checkDue, timers, heartbeats, tmux, dirs, branches, issued,
                  requests, faults, stops>>
  BY DEF EffectRefused, stateVars, timerVars, worldVars, boundVars
<1> QED BY <1>1, <1>2, UnwindTypes DEF TypeOK

LEMMA EffectFailsTypeOK == TypeOK /\ EffectFails => TypeOK'
<1> SUFFICES ASSUME TypeOK, EffectFails PROVE TypeOK'
  OBVIOUS
<1> DEFINE x == Head(todo)
<1>1. x.effect \in {"WorktreeAdd", "WorktreeRemove", "PrepareWorkspace"}
        => x.name \in Name
  BY HeadType DEF EffectFails, Effect, Abort
<1>2. /\ tmux' \in {tmux, [tmux EXCEPT ![x.id] = "none"]}
      /\ branches' \in {branches, BranchesAfter(x)}
      /\ dirs' \in {dirs, DirsAfter(x)}
      /\ faults' = faults + 1
      /\ Unwind
      /\ UNCHANGED <<up, runbook, stateVars, source, checkDue, timerVars,
                     issued, requests, stops>>
  BY DEF EffectFails
<1> HIDE DEF x
<1>3. tmux' \in [PipelineId -> {"none", "claude", "shell"}] /\ faults' \in Nat
  BY <1>2 DEF TypeOK
<1>4. dirs' \subseteq Name /\ branches' \subseteq Name
  BY <1>1, <1>2 DEF DirsAfter, BranchesAfter, TypeOK
<1> QED BY <1>2, <1>3, <1>4, UnwindTypes DEF TypeOK, stateVars, timerVars

LEMMA AppendFailsTypeOK == TypeOK /\ AppendFails => TypeOK'
<1> SUFFICES ASSUME TypeOK, AppendFails PROVE TypeOK'
  OBVIOUS
<1>1. Head(todo).operation \in Operation
  BY PersistHead DEF AppendFails
<1>2. Apply(durable, Head(todo).operation) \in State
  BY <1>1, ApplyType DEF TypeOK
<1>3. /\ durable' \in State /\ diverged' \in BOOLEAN
      /\ log' \in {"ended", "open", "unreadable"}
  BY <1>2 DEF AppendFails, TypeOK, LogWith
<1>4. faults' \in Nat
  BY DEF AppendFails, TypeOK
<1> QED BY <1>3, <1>4, UnwindTypes DEF AppendFails, TypeOK, timerVars, worldVars

-----------------------------------------------------------------------------
(* The daemon's life, and the theorem.                                     *)

LEMMA LifeTypeOK ==
  ASSUME TypeOK, Crash \/ KilledInAppend \/ Shutdown \/ Startup
  PROVE  TypeOK'
<1>1. CASE Crash \/ KilledInAppend \/ Shutdown
  <2>1. LoseMemory
    BY <1>1 DEF Crash, KilledInAppend, Shutdown
  <2>2. memory' \in State /\ stops' \in Nat
    BY <2>1, EmptyStateType DEF LoseMemory, TypeOK
  <2>3. call' \in [event : Event \cup {Nothing},
                   reply : {"none", "pending", "ok", "error", "lost"}]
    BY <2>1 DEF LoseMemory, TypeOK, Answered
  <2>4. pending' \in Seq(Event) /\ todo' \in Seq(Effect) /\ results' \in Seq(Event)
    BY <2>1 DEF LoseMemory
  <2>5. durable' \in State /\ log' \in {"ended", "open", "unreadable"}
    <3>1. CASE UNCHANGED <<durable, log>>
      BY <3>1 DEF TypeOK
    <3>2. CASE KilledInAppend
      <4>1. Head(todo).operation \in Operation
        BY <3>2, PersistHead DEF KilledInAppend
      <4>2. Apply(durable, Head(todo).operation) \in State
        BY <4>1, ApplyType DEF TypeOK
      <4> QED BY <3>2, <4>2 DEF KilledInAppend, LogWith
    <3> QED BY <1>1, <3>1, <3>2 DEF Crash, Shutdown
  <2> QED BY <2>1, <2>2, <2>3, <2>4, <2>5 DEF LoseMemory, TypeOK, worldVars
<1>2. CASE Startup
  BY <1>2 DEF Startup, Replay, TypeOK, loopVars, handlerVars, timerVars,
              worldVars, boundVars
<1> QED BY <1>1, <1>2

LEMMA AgentExitsTypeOK ==
  ASSUME TypeOK, NEW id \in PipelineId, AgentExits(id)
  PROVE  TypeOK'
<1>1. tmux' \in [PipelineId -> {"none", "claude", "shell"}]
  BY DEF AgentExits, TypeOK
<1> QED BY <1>1 DEF AgentExits, TypeOK, stateVars, loopVars, handlerVars, timerVars,
           boundVars

LEMMA NextTypeOK == TypeOK /\ [Next]_vars => TypeOK'
<1> SUFFICES ASSUME TypeOK, [Next]_vars PROVE TypeOK'
  OBVIOUS
<1>1. CASE Client
  BY <1>1, ClientTypeOK
<1>2. CASE Tick
  BY <1>2, TickTypeOK
<1>3. CASE Work
  BY <1>3, CheckSessionsTypeOK, DispatchTypeOK, ReturnTypeOK, AppendToWalTypeOK,
     ApplyToStateTypeOK, ChangeWorldTypeOK, RunShellTypeOK, EffectRefusedTypeOK
     DEF Work
<1>4. CASE EffectFails \/ AppendFails
  BY <1>4, EffectFailsTypeOK, AppendFailsTypeOK
<1>5. CASE Crash \/ KilledInAppend \/ Shutdown \/ Startup
  BY <1>5, LifeTypeOK
<1>6. CASE \E id \in PipelineId : AgentExits(id)
  BY <1>6, AgentExitsTypeOK
<1>7. CASE UNCHANGED vars
  BY <1>7 DEF vars, TypeOK, stateVars, loopVars, handlerVars, timerVars, worldVars,
              boundVars
<1> QED BY <1>1, <1>2, <1>3, <1>4, <1>5, <1>6, <1>7 DEF Next

(* Whatever clients ask, agents do and faults and crashes come between, the*)
(* state of the daemon keeps its type: in particular every handler finds   *)
(* the pipelines, phases and agents it goes on to use.                     *)
THEOREM EngineTypeOK == Spec => []TypeOK
<1>1. Init => TypeOK
  BY InitTypeOK
<1>2. TypeOK /\ [Next]_vars => TypeOK'
  BY NextTypeOK
<1> QED BY <1>1, <1>2, PTL DEF Spec

-----------------------------------------------------------------------------
(* The log and memory.                                                     *)

(* Said of the entries of the log, readable or not, LogAheadOfMemory is    *)
(* inductive, together with the fact that a daemon that is not running runs*)
(* no handler and has no operation on its way.                             *)
LogInv ==
  /\ up /\ ~diverged =>
       durable = IF inflight = Nothing THEN memory ELSE Apply(memory, inflight)
  /\ ~up => ~running /\ inflight = Nothing

(* A step that leaves the log and memory alone.                            *)
LEMMA LogInvUnchanged ==
  ASSUME LogInv, UNCHANGED <<up, stateVars>>, running' => running \/ up
  PROVE  LogInv'
BY DEF LogInv, stateVars

LEMMA LogInvNext == TypeOK /\ LogInv /\ [Next]_vars => LogInv'
<1> SUFFICES ASSUME TypeOK, LogInv, [Next]_vars PROVE LogInv'
  OBVIOUS
<1>1. CASE Client
  <2>1. UNCHANGED <<up, stateVars, running>>
    BY <1>1 DEF Client, ServeCommand, ServeAgent, ServePipeline, ServeEvent,
                ServeSessionSend, Serve, handlerVars
  <2> QED BY <2>1, LogInvUnchanged
<1>2. CASE \/ Tick \/ CheckSessions \/ Dispatch \/ Return \/ ChangeWorld
           \/ RunShell \/ EffectRefused \/ EffectFails
           \/ \E id \in PipelineId : AgentExits(id)
  <2>1. UNCHANGED <<up, stateVars>> /\ (running' => running \/ up)
    BY <1>2 DEF Tick, CheckSessions, Dispatch, Return, ChangeWorld, RunShell,
                EffectDone, EffectRefused, EffectFails, Unwind, AgentExits,
                handlerVars
  <2> QED BY <2>1, LogInvUnchanged
<1>3. CASE AppendToWal
  <2>1. inflight' = Head(todo).operation /\ inflight' # Nothing
    BY <1>3, PersistHead, OperationAssumption DEF AppendToWal
  <2>2. inflight = Nothing /\ durable' = Apply(durable, inflight')
    BY <1>3 DEF AppendToWal
  <2>3. UNCHANGED <<up, memory, diverged, running>>
    BY <1>3 DEF AppendToWal, handlerVars
  <2>4. up
    BY <1>3 DEF AppendToWal, NextIs, LogInv
  <2> QED BY <2>1, <2>2, <2>3, <2>4 DEF LogInv
<1>4. CASE ApplyToState
  BY <1>4 DEF ApplyToState, EffectDone, LogInv
<1>5. CASE AppendFails
  <2>1. inflight = Nothing /\ running' = FALSE /\ UNCHANGED <<up, memory, inflight>>
    BY <1>5 DEF AppendFails, Unwind
  <2>2. UNCHANGED <<durable, diverged>> \/ diverged' = TRUE
    BY <1>5 DEF AppendFails
  <2> QED BY <2>1, <2>2 DEF LogInv
<1>6. CASE Crash \/ KilledInAppend \/ Shutdown
  BY <1>6 DEF Crash, KilledInAppend, Shutdown, LoseMemory, LogInv
<1>7. CASE Startup
  BY <1>7 DEF Startup, Replay, LogInv, handlerVars
<1>8. CASE UNCHANGED vars
  <2>1. UNCHANGED <<up, stateVars, running>>
    BY <1>8 DEF vars, handlerVars
  <2> QED BY <2>1, LogInvUnchanged
<1> QED BY <1>1, <1>2, <1>3, <1>4, <1>5, <1>6, <1>7, <1>8 DEF Next, Work

(* The log is never behind memory, in every behaviour: what a daemon shows *)
(* and acts on is what its successor will find, unless an append failed    *)
(* after its entry was in the log, or left the log unreadable, in which    *)
(* case there is no successor.                                             *)
THEOREM EngineLogAhead == Spec => []LogAheadOfMemory
<1>1. Init => LogInv
  BY DEF Init, LogInv
<1>2. TypeOK /\ LogInv /\ [Next]_vars => LogInv'
  BY LogInvNext
<1>3. LogInv => LogAheadOfMemory
  BY DEF LogInv, LogAheadOfMemory, Replay
<1> QED BY <1>1, <1>2, <1>3, EngineTypeOK, PTL DEF Spec
=============================================================================
