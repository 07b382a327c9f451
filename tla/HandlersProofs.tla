---------------------------- MODULE HandlersProofs ----------------------------
(***************************************************************************)
(* Typing of the operators the engine is built from: every handler asks    *)
(* for a finite sequence of effects, and applying an operation to a state  *)
(* gives a state.                                                          *)
(***************************************************************************)
EXTENDS Handlers, SequenceTheorems, WellFoundedInduction, TLAPS

(* A non-empty set of numbers has a least element.                         *)
LEMMA LeastElement ==
  ASSUME NEW S, S \subseteq Nat, S # {}
  PROVE  \E m \in S : \A n \in S : m <= n
<1>1. PICK m \in S : \A n \in S : <<n, m>> \notin OpToRel(<, Nat)
  BY WFMin, NatLessThanWellFounded
<1>2. \A n \in S : ~(n < m)
  BY <1>1 DEF OpToRel
<1> QED BY <1>2

-----------------------------------------------------------------------------
(* Runbooks.                                                               *)

(* The definition of a phase the runbook has is one of its definitions.    *)
LEMMA GetPhaseType ==
  ASSUME NEW rb \in RunbookType, NEW name, HasPhase(rb, name)
  PROVE  GetPhase(rb, name) \in PhaseDef /\ PhaseIndex(rb, name) \in DOMAIN rb.phases
<1>1. rb.phases \in Seq(PhaseDef)
  BY DEF RunbookType
<1>2. DOMAIN rb.phases = 1..Len(rb.phases) /\ Len(rb.phases) \in Nat
  BY <1>1
<1>3. PhaseIndices(rb, name) \subseteq Nat /\ PhaseIndices(rb, name) # {}
  BY <1>2 DEF HasPhase, PhaseIndices
<1>4. \E i \in PhaseIndices(rb, name) : \A j \in PhaseIndices(rb, name) : i <= j
  BY <1>3, LeastElement
<1>5. PhaseIndex(rb, name) \in PhaseIndices(rb, name)
  BY <1>4 DEF PhaseIndex
<1>6. PhaseIndex(rb, name) \in DOMAIN rb.phases
  BY <1>5 DEF PhaseIndices
<1> QED BY <1>1, <1>2, <1>6 DEF GetPhase

LEMMA NextPhaseNameType ==
  ASSUME NEW rb \in RunbookType, NEW name
  PROVE  NextPhaseName(rb, name) \in PhaseName \cup {Nothing}
<1>1. rb.phases \in Seq(PhaseDef)
  BY DEF RunbookType
<1>2. CASE ~HasPhase(rb, name)
  BY <1>2 DEF NextPhaseName
<1>3. CASE HasPhase(rb, name)
  <2>1. GetPhase(rb, name) \in PhaseDef
    BY <1>3, GetPhaseType
  <2>2. GetPhase(rb, name).next \in PhaseName \cup {Nothing}
    BY <2>1 DEF PhaseDef
  <2>3. PhaseAfter(rb, name) \in PhaseName \cup {Nothing}
    <3>1. CASE PhaseIndex(rb, name) + 1 \in DOMAIN rb.phases
      <4>1. rb.phases[PhaseIndex(rb, name) + 1] \in PhaseDef
        BY <1>1, <3>1
      <4> QED BY <3>1, <4>1 DEF PhaseAfter, PhaseDef
    <3>2. CASE PhaseIndex(rb, name) + 1 \notin DOMAIN rb.phases
      BY <3>2 DEF PhaseAfter
    <3> QED BY <3>1, <3>2
  <2> QED BY <2>2, <2>3 DEF NextPhaseName
<1> QED BY <1>2, <1>3

LEMMA OnFailType ==
  ASSUME NEW rb \in RunbookType, NEW name
  PROVE  OnFail(rb, name) \in PhaseName \cup {Nothing}
BY GetPhaseType DEF OnFail, PhaseDef

LEMMA FirstPhaseType ==
  ASSUME NEW rb \in RunbookType
  PROVE  FirstPhase(rb) \in PhaseName \cup {Nothing}
<1>1. rb.phases \in Seq(PhaseDef)
  BY DEF RunbookType
<1>2. CASE rb.phases = <<>>
  BY <1>2 DEF FirstPhase
<1>3. CASE rb.phases # <<>>
  <2>1. rb.phases[1] \in PhaseDef
    BY <1>1, <1>3
  <2> QED BY <1>3, <2>1 DEF FirstPhase, PhaseDef
<1> QED BY <1>2, <1>3

-----------------------------------------------------------------------------
(* Operations and effects.                                                 *)

LEMMA OperationTypes ==
  ASSUME NEW id \in PipelineId
  PROVE  /\ \A name \in Name, phase \in PhaseName :
              PipelineCreate(id, name, phase) \in Operation
         /\ \A phase \in PhaseName : PipelineTransition(id, phase) \in Operation
         /\ \A status \in Statuses : PhaseStatusUpdate(id, status) \in Operation
         /\ \A name \in Name : WorkspaceCreate(id, name) \in Operation
         /\ SessionCreate(id) \in Operation
         /\ \A sid \in SessionId : SessionDelete(sid) \in Operation
BY DEF Operation, PipelineCreate, PipelineTransition, PhaseStatusUpdate,
       WorkspaceCreate, SessionCreate, SessionDelete

LEMMA EffectTypes ==
  /\ \A o \in Operation : Persist(o) \in Effect
  /\ \A id \in PipelineId :
       Spawn(id) \in Effect /\ SetTimer(id) \in Effect /\ CancelTimer(id) \in Effect
  /\ \A sid \in SessionId : Send(sid) \in Effect /\ Kill(sid) \in Effect
  /\ \A name \in Name : /\ WorktreeAdd(name) \in Effect
                        /\ WorktreeRemove(name) \in Effect
                        /\ PrepareWorkspace(name) \in Effect
  /\ \A id \in PipelineId, phase \in PhaseName, name \in Name :
       Shell(id, phase, name) \in Effect
  /\ Abort \in Effect
BY DEF Effect, Persist, Spawn, SetTimer, CancelTimer, Send, Kill, WorktreeAdd,
       WorktreeRemove, PrepareWorkspace, Shell, Abort

(* The operations handlers persist, as effects.                            *)
LEMMA PersistTypes ==
  ASSUME NEW id \in PipelineId
  PROVE  /\ \A name \in Name, phase \in PhaseName :
              Persist(PipelineCreate(id, name, phase)) \in Effect
         /\ \A phase \in PhaseName :
              Persist(PipelineTransition(id, phase)) \in Effect
         /\ \A status \in Statuses :
              Persist(PhaseStatusUpdate(id, status)) \in Effect
         /\ \A name \in Name : Persist(WorkspaceCreate(id, name)) \in Effect
         /\ Persist(SessionCreate(id)) \in Effect
         /\ \A sid \in SessionId : Persist(SessionDelete(sid)) \in Effect
BY OperationTypes, EffectTypes

(* Applying an operation to a state gives a state.                         *)
LEMMA ApplyType ==
  ASSUME NEW s \in State, NEW o \in Operation
  PROVE  Apply(s, o) \in State
<1>1. CASE o.op = "PipelineCreate"
  <2>1. o.id \in PipelineId /\ o.name \in Name /\ o.phase \in PhaseName
    BY <1>1 DEF Operation
  <2>2. NewPipeline(o.name, o.phase) \in Pipeline
    BY <2>1 DEF NewPipeline, Pipeline, Statuses
  <2> QED BY <1>1, <2>1, <2>2 DEF Apply, State
<1>2. CASE o.op = "PipelineTransition" /\ Exists(s, o.id)
  <2>1. o.id \in PipelineId /\ o.phase \in PhaseName
    BY <1>2 DEF Operation
  <2>2. s.pipelines[o.id] \in Pipeline
    BY <1>2, <2>1 DEF State, Exists
  <2>3. [s.pipelines[o.id] EXCEPT !.phase = o.phase, !.status = "Pending"]
          \in Pipeline
    BY <2>1, <2>2 DEF Pipeline, Statuses
  <2> QED BY <1>2, <2>1, <2>3 DEF Apply, State
<1>3. CASE o.op = "PhaseStatusUpdate" /\ Exists(s, o.id)
  <2>1. o.id \in PipelineId /\ o.status \in Statuses
    BY <1>3 DEF Operation
  <2>2. s.pipelines[o.id] \in Pipeline
    BY <1>3, <2>1 DEF State, Exists
  <2>3. [s.pipelines[o.id] EXCEPT !.status = o.status] \in Pipeline
    BY <2>1, <2>2 DEF Pipeline
  <2> QED BY <1>3, <2>1, <2>3 DEF Apply, State
<1>4. CASE o.op = "PipelineDelete"
  BY <1>4 DEF Apply, State, Operation
<1>5. CASE o.op = "SessionCreate"
  <2>1. o.id \in PipelineId
    BY <1>5 DEF Operation
  <2> QED BY <1>5, <2>1 DEF Apply, State
<1>6. CASE o.op = "SessionDelete"
  BY <1>6 DEF Apply, State
<1>7. CASE o.op = "WorkspaceCreate"
  <2>1. o.id \in PipelineId /\ o.name \in Name
    BY <1>7 DEF Operation
  <2> DEFINE linked == IF Exists(s, o.id)
                       THEN [s.pipelines[o.id] EXCEPT !.workspace = o.name]
                       ELSE s.pipelines[o.id]
  <2>2. linked \in Pipeline \cup {Nothing}
    BY <2>1 DEF State, Exists, Pipeline
  <2> DEFINE pipelines == [s.pipelines EXCEPT ![o.id] = linked]
             workspaces == [s.workspaces EXCEPT ![o.id] = o.name]
  <2>3. Apply(s, o) = [s EXCEPT !.workspaces = workspaces,
                                !.pipelines = pipelines]
    BY <1>7, <2>1 DEF Apply, State
  <2> HIDE DEF linked
  <2>4. /\ pipelines \in [PipelineId -> Pipeline \cup {Nothing}]
        /\ workspaces \in [PipelineId -> Name \cup {Nothing}]
    BY <2>1, <2>2 DEF State
  <2> HIDE DEF pipelines, workspaces
  <2> QED BY <2>3, <2>4 DEF State
<1>8. CASE o.op = "WorkspaceDelete"
  BY <1>8 DEF Apply, State, Operation
<1>9. CASE /\ o.op \in {"PipelineTransition", "PhaseStatusUpdate"}
           /\ ~Exists(s, o.id)
  BY <1>9 DEF Apply
<1> QED BY <1>1, <1>2, <1>3, <1>4, <1>5, <1>6, <1>7, <1>8, <1>9 DEF Operation

-----------------------------------------------------------------------------
(* Handlers.                                                               *)

LEMMA WorkspaceOfType ==
  ASSUME NEW p \in Pipeline
  PROVE  WorkspaceOf(p) \in Name
BY DEF WorkspaceOf, Pipeline

LEMMA AbortType == << Abort >> \in Seq(Effect)
BY EffectTypes

LEMMA SpawnAgentType ==
  ASSUME NEW rb, NEW id \in PipelineId, NEW p \in Pipeline, NEW agent
  PROVE  SpawnAgent(rb, id, p, agent) \in Seq(Effect)
BY WorkspaceOfType, EffectTypes, PersistTypes, AbortType DEF SpawnAgent

LEMMA StartPhaseType ==
  ASSUME NEW rb \in RunbookType, NEW id \in PipelineId, NEW p \in Pipeline,
         NEW phase
  PROVE  StartPhase(rb, id, p, phase) \in Seq(Effect)
<1>1. CASE ~HasPhase(rb, phase)
  BY <1>1, AbortType DEF StartPhase
<1>2. CASE HasPhase(rb, phase)
  <2> DEFINE def == GetPhase(rb, phase)
  <2>1. def.name \in PhaseName /\ def.run \in RunKinds
    BY <1>2, GetPhaseType DEF PhaseDef
  <2> HIDE DEF def
  <2>2. Shell(id, def.name, WorkspaceOf(p)) \in Effect
    BY <2>1, WorkspaceOfType, EffectTypes
  <2>3. RunPhase(rb, id, p, def) \in Seq(Effect)
    BY <2>1, <2>2, SpawnAgentType, AbortType DEF RunPhase, RunKinds
  <2>4. << Persist(PhaseStatusUpdate(id, "Running")) >> \in Seq(Effect)
    BY PersistTypes DEF Statuses
  <2> QED BY <1>2, <2>3, <2>4, ConcatProperties DEF StartPhase, def
<1> QED BY <1>1, <1>2

LEMMA CompletionEffectsType ==
  ASSUME NEW id \in PipelineId, NEW p \in Pipeline
  PROVE  CompletionEffects(id, p) \in Seq(Effect)
<1> DEFINE first  == IF IsTerminal(p) THEN <<>>
                     ELSE << Persist(PipelineTransition(id, "done")) >>
           second == << Persist(PhaseStatusUpdate(id, "Completed")) >>
           third  == IF p.session = Nothing THEN <<>>
                     ELSE << Kill(p.session), Persist(SessionDelete(p.session)) >>
<1>1. first \in Seq(Effect)
  BY PersistTypes, CoreAssumption
<1>2. second \in Seq(Effect)
  BY PersistTypes DEF Statuses
<1>3. third \in Seq(Effect)
  BY PersistTypes, EffectTypes DEF Pipeline
<1> HIDE DEF first, second, third
<1>4. (first \o second) \o third \in Seq(Effect)
  BY <1>1, <1>2, <1>3, ConcatProperties
<1> QED BY <1>4 DEF CompletionEffects, first, second, third

LEMMA AdvancePipelineType ==
  ASSUME NEW rb \in RunbookType, NEW id \in PipelineId, NEW p \in Pipeline
  PROVE  AdvancePipeline(rb, id, p) \in Seq(Effect)
<1> DEFINE next == NextPhaseName(rb, p.phase)
           ends == next \in TerminalPhases /\ ~HasPhase(rb, next)
<1>1. next \in PhaseName \cup {Nothing}
  BY NextPhaseNameType
<1> HIDE DEF next, ends
<1>2. CompletionEffects(id, p) \in Seq(Effect)
  BY CompletionEffectsType
<1>3. << Persist(PipelineTransition(id, "done")) >> \o CompletionEffects(id, p)
        \in Seq(Effect)
  BY <1>2, PersistTypes, CoreAssumption, ConcatProperties
<1>4. ASSUME next # Nothing
      PROVE  << Persist(PipelineTransition(id, next)) >>
             \o (IF ends THEN CompletionEffects(id, p)
                         ELSE StartPhase(rb, id, p, next)) \in Seq(Effect)
  <2>1. << Persist(PipelineTransition(id, next)) >> \in Seq(Effect)
    BY <1>1, <1>4, PersistTypes
  <2> QED BY <1>2, <2>1, StartPhaseType, ConcatProperties
<1> QED BY <1>2, <1>3, <1>4 DEF AdvancePipeline, next, ends

LEMMA FailPipelineType ==
  ASSUME NEW rb \in RunbookType, NEW id \in PipelineId, NEW p \in Pipeline
  PROVE  FailPipeline(rb, id, p) \in Seq(Effect)
<1> DEFINE to == OnFail(rb, p.phase)
<1>1. to \in PhaseName \cup {Nothing}
  BY OnFailType
<1> HIDE DEF to
<1>2. << Persist(PipelineTransition(id, "failed")) >> \in Seq(Effect)
  BY PersistTypes, CoreAssumption
<1>3. ASSUME to # Nothing
      PROVE  << Persist(PipelineTransition(id, to)) >>
             \o StartPhase(rb, id, p, to) \in Seq(Effect)
  <2>1. << Persist(PipelineTransition(id, to)) >> \in Seq(Effect)
    BY <1>1, <1>3, PersistTypes
  <2> QED BY <2>1, StartPhaseType, ConcatProperties
<1> QED BY <1>2, <1>3 DEF FailPipeline, to

LEMMA HandleCommandType ==
  ASSUME NEW rb \in RunbookType, NEW id \in PipelineId, NEW name \in Name
  PROVE  HandleCommand(rb, id, name) \in Seq(Effect)
<1> DEFINE first   == FirstPhase(rb)
           initial == IF first = Nothing THEN "init" ELSE first
           created == << Persist(WorkspaceCreate(id, name)), WorktreeAdd(name),
                         Persist(PipelineCreate(id, name, initial)) >>
           started == IF first = Nothing THEN <<>>
                      ELSE StartPhase(rb, id, NewPipeline(name, first), first)
<1>1. first \in PhaseName \cup {Nothing} /\ initial \in PhaseName
  BY FirstPhaseType, CoreAssumption
<1> HIDE DEF first, initial
<1>2. created \in Seq(Effect)
  BY <1>1, PersistTypes, EffectTypes
<1>3. started \in Seq(Effect)
  <2>1. CASE first = Nothing
    BY <2>1
  <2>2. CASE first # Nothing
    <3>1. NewPipeline(name, first) \in Pipeline
      BY <1>1, <2>2 DEF NewPipeline, Pipeline, Statuses
    <3> QED BY <2>2, <3>1, StartPhaseType
  <2> QED BY <2>1, <2>2
<1>4. created \o started \in Seq(Effect)
  BY <1>2, <1>3, ConcatProperties
<1> QED BY <1>4, AbortType DEF HandleCommand, first, initial

(* The handlers that look a pipeline up: what they find is a pipeline.     *)
LEMMA FoundType ==
  ASSUME NEW s \in State, NEW id \in PipelineId, Exists(s, id)
  PROVE  s.pipelines[id] \in Pipeline
BY DEF State, Exists

LEMMA SimpleHandlersType ==
  ASSUME NEW rb \in RunbookType, NEW s \in State, NEW id \in PipelineId
  PROVE  /\ HandleAgentDone(rb, s, id) \in Seq(Effect)
         /\ HandleAgentError(rb, s, id) \in Seq(Effect)
         /\ HandleTmuxExited(rb, s, id) \in Seq(Effect)
         /\ HandleResume(s, id) \in Seq(Effect)
         /\ \A phase, code : HandleShellCompleted(rb, s, id, phase, code) \in Seq(Effect)
<1>1. Exists(s, id) => /\ AdvancePipeline(rb, id, s.pipelines[id]) \in Seq(Effect)
                       /\ FailPipeline(rb, id, s.pipelines[id]) \in Seq(Effect)
  BY FoundType, AdvancePipelineType, FailPipelineType
<1>2. << Persist(PhaseStatusUpdate(id, "Running")), SetTimer(id) >> \in Seq(Effect)
  BY PersistTypes, EffectTypes DEF Statuses
<1>3. << >> \in Seq(Effect)
  OBVIOUS
<1> QED BY <1>1, <1>2, <1>3, AbortType DEF HandleAgentDone, HandleAgentError,
           HandleTmuxExited, HandleResume, HandleShellCompleted

LEMMA HandleSessionExitType ==
  ASSUME NEW rb \in RunbookType, NEW s \in State, NEW sid, NEW code
  PROVE  HandleSessionExit(rb, s, sid, code) \in Seq(Effect)
<1> DEFINE found == {i \in PipelineId : Exists(s, i)
                                        /\ s.pipelines[i].session = sid}
           id    == CHOOSE i \in found : TRUE
           p     == ExitTransition(s.pipelines[id], code)
           moved == IF p.status = "Completed" THEN AdvancePipeline(rb, id, p)
                                              ELSE <<>>
<1>1. CASE found = {}
  BY <1>1 DEF HandleSessionExit
<1>2. CASE found # {}
  <2>1. id \in found
    BY <1>2
  <2>2. id \in PipelineId /\ Exists(s, id)
    BY <2>1
  <2> HIDE DEF id
  <2>3. s.pipelines[id] \in Pipeline
    BY <2>2, FoundType
  <2>4. p \in Pipeline
    BY <2>3, CoreAssumption DEF ExitTransition, Pipeline, Statuses
  <2> HIDE DEF p
  <2>5. ExitEffects(id, code) \in Seq(Effect)
    BY <2>2, PersistTypes, CoreAssumption DEF ExitEffects
  <2>6. moved \in Seq(Effect)
    BY <2>2, <2>4, AdvancePipelineType
  <2>7. ExitEffects(id, code) \o moved \in Seq(Effect)
    BY <2>5, <2>6, ConcatProperties
  <2> QED BY <1>2, <2>7 DEF HandleSessionExit, id, p
<1> QED BY <1>1, <1>2

-----------------------------------------------------------------------------
(* The session monitor.                                                    *)

(* Whatever the rules of an agent and the error, one of the actions is     *)
(* taken.                                                                  *)
LEMMA ActionForType ==
  ASSUME NEW rules \in Seq(ErrorRule), NEW error
  PROVE  ActionFor(rules, error) \in Actions
<1> DEFINE matching == {i \in DOMAIN rules : rules[i].match \in {error, "any"}}
           least    == CHOOSE i \in matching : \A j \in matching : i <= j
<1>1. CASE matching = {}
  BY <1>1 DEF ActionFor, Actions
<1>2. CASE matching # {}
  <2>1. matching \subseteq Nat /\ matching \subseteq DOMAIN rules
    OBVIOUS
  <2>2. \E i \in matching : \A j \in matching : i <= j
    BY <1>2, <2>1, LeastElement
  <2>3. least \in matching
    BY <2>2
  <2>4. least \in DOMAIN rules
    BY <2>1, <2>3
  <2>5. rules[least] \in ErrorRule
    BY <2>4
  <2>6. ActionFor(rules, error) = rules[least].action
    BY <1>2 DEF ActionFor
  <2> QED BY <2>5, <2>6 DEF ErrorRule
<1> QED BY <1>1, <1>2

LEMMA ActionEffectsType ==
  ASSUME NEW rb \in RunbookType, NEW id \in PipelineId, NEW p \in Pipeline,
         NEW agent, NEW action \in Actions
  PROVE  ActionEffects(rb, id, p, agent, action) \in Seq(Effect)
<1> DEFINE kill == IF p.session = Nothing THEN <<>> ELSE << Kill(p.session) >>
           wipe == IF p.workspace = Nothing THEN <<>>
                                            ELSE << WorktreeRemove(p.workspace) >>
           spawn == SpawnAgent(rb, id, p, agent)
<1>1. kill \in Seq(Effect)
  BY EffectTypes DEF Pipeline
<1>2. wipe \in Seq(Effect)
  BY EffectTypes DEF Pipeline
<1>3. spawn \in Seq(Effect)
  BY SpawnAgentType
<1>4. CASE action = "nudge"
  <2>1. p.session = Nothing
        \/ << Send(p.session), SetTimer(id) >> \in Seq(Effect)
    BY EffectTypes DEF Pipeline
  <2> QED BY <1>4, <2>1, AbortType DEF ActionEffects
<1>5. CASE action = "done"
  BY <1>5, AdvancePipelineType DEF ActionEffects
<1>6. CASE action = "fail"
  BY <1>6, FailPipelineType DEF ActionEffects
<1>7. CASE action = "restart"
  <2> HIDE DEF kill, wipe, spawn
  <2>1. (kill \o wipe) \o spawn \in Seq(Effect)
    BY <1>1, <1>2, <1>3, ConcatProperties
  <2> QED BY <1>7, <2>1 DEF ActionEffects, kill, wipe, spawn
<1>8. CASE action = "recover"
  <2> HIDE DEF kill, spawn
  <2>1. kill \o spawn \in Seq(Effect)
    BY <1>1, <1>3, ConcatProperties
  <2> QED BY <1>8, <2>1 DEF ActionEffects, kill, spawn
<1>9. CASE action = "escalate"
  <2>1. << Persist(PhaseStatusUpdate(id, "Waiting")), CancelTimer(id) >> \in Seq(Effect)
    BY PersistTypes, EffectTypes DEF Statuses
  <2> QED BY <1>9, <2>1 DEF ActionEffects
<1> QED BY <1>4, <1>5, <1>6, <1>7, <1>8, <1>9 DEF Actions

LEMMA AgentOfType ==
  ASSUME NEW rb \in RunbookType, NEW p, InAgentPhase(rb, p)
  PROVE  rb.agents[AgentOf(rb, p)] \in AgentDef
<1>1. GetPhase(rb, p.phase) \in PhaseDef
  BY GetPhaseType DEF InAgentPhase
<1>2. AgentOf(rb, p) \in AgentName
  BY <1>1 DEF AgentOf, PhaseDef
<1> QED BY <1>2 DEF InAgentPhase, HasAgent, RunbookType, AgentOf

LEMMA MonitorType ==
  ASSUME NEW rb \in RunbookType, NEW s \in State, NEW id \in PipelineId
  PROVE  /\ \A seen : HandleTimer(rb, s, id, seen) \in Seq(Effect)
         /\ HandleClaudeExited(rb, s, id) \in Seq(Effect)
<1> DEFINE p     == s.pipelines[id]
           agent == rb.agents[AgentOf(rb, p)]
<1>1. ASSUME Exists(s, id), InAgentPhase(rb, p), NEW action \in Actions
      PROVE  ActionEffects(rb, id, p, AgentOf(rb, p), action) \in Seq(Effect)
  BY <1>1, FoundType, ActionEffectsType
<1>2. InAgentPhase(rb, p) =>
        /\ agent.onIdle \in Actions /\ agent.onExit \in Actions
        /\ \A seen : ActionFor(agent.onError, seen) \in Actions
  BY AgentOfType, ActionForType DEF AgentDef
<1>3. << SetTimer(id) >> \in Seq(Effect) /\ << >> \in Seq(Effect)
  BY EffectTypes
<1>4. ASSUME NEW seen
      PROVE  HandleTimer(rb, s, id, seen) \in Seq(Effect)
  BY <1>1, <1>2, <1>3, AbortType DEF HandleTimer
<1>5. HandleClaudeExited(rb, s, id) \in Seq(Effect)
  BY <1>1, <1>2, <1>3, AbortType DEF HandleClaudeExited
<1> QED BY <1>4, <1>5

-----------------------------------------------------------------------------
(* Every event the runtime is given has a handler that returns a sequence  *)
(* of effects.                                                             *)
LEMMA HandleEventType ==
  ASSUME NEW rb \in RunbookType, NEW s \in State, NEW e \in Event, NEW seen
  PROVE  HandleEvent(rb, s, e, seen) \in Seq(Effect)
<1>1. CASE e.event = "CommandInvoked"
  <2>1. e.id \in PipelineId /\ e.name \in Name
    BY <1>1 DEF Event
  <2> QED BY <1>1, <2>1, HandleCommandType DEF HandleEvent
<1>2. CASE e.event \in {"AgentDone", "AgentError", "Timer", "pipeline:resume",
                        "TmuxExited", "ClaudeExited", "ShellCompleted"}
  <2>1. e.id \in PipelineId
    BY <1>2 DEF Event
  <2> QED BY <1>2, <2>1, SimpleHandlersType, MonitorType DEF HandleEvent
<1>3. CASE e.event = "SessionExited"
  BY <1>3, HandleSessionExitType DEF HandleEvent
<1>4. CASE e.event = "session:send"
  <2>1. << Send(e.session) >> \in Seq(Effect)
    BY <1>4, EffectTypes DEF Event
  <2> QED BY <1>4, <2>1 DEF HandleEvent
<1> QED BY <1>1, <1>2, <1>3, <1>4 DEF Event
=============================================================================
