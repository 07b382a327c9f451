----------------------------- MODULE PlanProofs -----------------------------
(***************************************************************************)
(* What the handlers ask for is a plan in the sense of EnginePlans, and    *)
(* what a plan's step does to a state is what the rest of it relies on.    *)
(***************************************************************************)
EXTENDS EnginePlans, EngineProofs

-----------------------------------------------------------------------------
(* Sequences of effects, piece by piece.                                   *)

LEMMA KindOf ==
  /\ \A o : Kind(Persist(o)) = o.op
  /\ \A id : /\ Kind(Spawn(id)) = "Spawn"
             /\ Kind(SetTimer(id)) = "SetTimer"
  /\ \A sid : Kind(Send(sid)) = "Send"
  /\ \A name : /\ Kind(WorktreeAdd(name)) = "WorktreeAdd"
               /\ Kind(PrepareWorkspace(name)) = "PrepareWorkspace"
  /\ \A id, phase, name : Kind(Shell(id, phase, name)) = "Shell"
  /\ Kind(Abort) = "Abort"
BY DEF Kind, Persist, Spawn, SetTimer, Send, WorktreeAdd, PrepareWorkspace, Shell,
       Abort

LEMMA OpOf ==
  /\ \A id, name, phase : PipelineCreate(id, name, phase).op = "PipelineCreate"
  /\ \A id, phase : PipelineTransition(id, phase).op = "PipelineTransition"
  /\ \A id, status : PhaseStatusUpdate(id, status).op = "PhaseStatusUpdate"
  /\ \A id, name : WorkspaceCreate(id, name).op = "WorkspaceCreate"
  /\ \A id : SessionCreate(id).op = "SessionCreate"
BY DEF PipelineCreate, PipelineTransition, PhaseStatusUpdate, WorkspaceCreate,
       SessionCreate

(* A plan without its first effect.                                        *)
LEMMA TailPlaces ==
  ASSUME NEW t \in Seq(Effect), t # <<>>
  PROVE  /\ Head(t) = t[1] /\ 1 \in DOMAIN t
         /\ Tail(t) \in Seq(Effect)
         /\ \A k \in DOMAIN Tail(t) : k + 1 \in DOMAIN t /\ Tail(t)[k] = t[k + 1]
                                      /\ k \in Nat /\ k >= 1
         /\ \A k \in DOMAIN t : k # 1 => k - 1 \in DOMAIN Tail(t)
                                         /\ Tail(t)[k - 1] = t[k] /\ 1 < k
<1>1. /\ Len(t) \in Nat /\ Len(t) > 0 /\ DOMAIN t = 1..Len(t) /\ Head(t) = t[1]
  OBVIOUS
<1>2. /\ Tail(t) \in Seq(Effect) /\ Len(Tail(t)) = Len(t) - 1
      /\ DOMAIN Tail(t) = 1..(Len(t) - 1)
      /\ \A k \in 1..(Len(t) - 1) : Tail(t)[k] = t[k + 1]
  BY <1>1, HeadTailProperties, LenProperties
<1>3. \A k \in DOMAIN t : k # 1 => /\ k - 1 \in 1..(Len(t) - 1) /\ 1 < k
                                   /\ (k - 1) + 1 = k
  BY <1>1
<1>4. \A k \in 1..(Len(t) - 1) : k + 1 \in 1..Len(t) /\ k \in Nat /\ k >= 1
  BY <1>1
<1> HIDE DEF Effect
<1> QED BY <1>1, <1>2, <1>3, <1>4

LEMMA HasTail ==
  ASSUME NEW t \in Seq(Effect), t # <<>>, NEW kind
  PROVE  /\ Has(Tail(t), kind) => Has(t, kind)
         /\ Has(t, kind) /\ Kind(Head(t)) # kind => Has(Tail(t), kind)
         /\ Ordered(t) /\ Place(kind) < Place(Kind(Head(t))) => ~Has(t, kind)
         /\ Ordered(t) /\ kind = Kind(Head(t))
            /\ kind \notin {"PipelineTransition", "SetTimer"} => ~Has(Tail(t), kind)
<1>1. Has(Tail(t), kind) => Has(t, kind)
  BY TailPlaces DEF Has
<1>2. ASSUME Has(t, kind), Kind(Head(t)) # kind PROVE Has(Tail(t), kind)
  <2>1. PICK k \in DOMAIN t : Kind(t[k]) = kind
    BY <1>2 DEF Has
  <2>2. k # 1
    BY <1>2, <2>1, TailPlaces
  <2>3. k - 1 \in DOMAIN Tail(t) /\ Tail(t)[k - 1] = t[k]
    BY <2>1, <2>2, TailPlaces
  <2> QED BY <2>1, <2>3 DEF Has
<1>3. \A k : Place(k) \in Nat
  BY DEF Place
<1>4. ASSUME Ordered(t), Place(kind) < Place(Kind(Head(t))), Has(t, kind)
      PROVE  FALSE
  <2>1. PICK k \in DOMAIN t : Kind(t[k]) = kind
    BY <1>4 DEF Has
  <2>2. k # 1
    BY <1>3, <1>4, <2>1, TailPlaces
  <2>3. InOrder(t[1], t[k])
    BY <1>4, <2>1, <2>2, TailPlaces DEF Ordered
  <2> QED BY <1>3, <1>4, <2>1, <2>3, TailPlaces DEF InOrder
<1>5. ASSUME Ordered(t), kind = Kind(Head(t)),
             kind \notin {"PipelineTransition", "SetTimer"}, Has(Tail(t), kind)
      PROVE  FALSE
  <2>1. PICK k \in DOMAIN Tail(t) : Kind(Tail(t)[k]) = kind
    BY <1>5 DEF Has
  <2>2. /\ 1 \in DOMAIN t /\ k + 1 \in DOMAIN t /\ 1 < k + 1
        /\ Kind(t[k + 1]) = kind /\ Kind(t[1]) = kind
    BY <1>5, <2>1, TailPlaces
  <2>3. InOrder(t[1], t[k + 1])
    BY <1>5, <2>2 DEF Ordered
  <2> QED BY <1>3, <1>5, <2>2, <2>3 DEF InOrder
<1> QED BY <1>1, <1>2, <1>4, <1>5

(* A plan is still one without its first effect.                           *)
LEMMA PlanTail ==
  ASSUME NEW id, NEW n, NEW t \in Seq(Effect), t # <<>>, Plan(t, id, n)
  PROVE  Plan(Tail(t), id, n)
<1>1. \A k \in DOMAIN Tail(t) : About(Tail(t)[k], id, n)
  BY TailPlaces DEF Plan
<1>2. Ordered(Tail(t))
  <2> SUFFICES ASSUME NEW j \in DOMAIN Tail(t), NEW k \in DOMAIN Tail(t), j < k
               PROVE  InOrder(Tail(t)[j], Tail(t)[k])
    BY DEF Ordered
  <2>1. /\ j + 1 \in DOMAIN t /\ k + 1 \in DOMAIN t /\ j + 1 < k + 1
        /\ Tail(t)[j] = t[j + 1] /\ Tail(t)[k] = t[k + 1]
    BY TailPlaces
  <2> QED BY <2>1 DEF Plan, Ordered
<1>3. Has(Tail(t), "WorkspaceCreate") => Has(Tail(t), "PipelineCreate")
  <2> SUFFICES ASSUME Has(Tail(t), "WorkspaceCreate")
               PROVE  Has(Tail(t), "PipelineCreate")
    OBVIOUS
  <2>1. Has(t, "WorkspaceCreate") /\ Has(t, "PipelineCreate")
    BY HasTail DEF Plan
  <2>2. ~(Place("WorkspaceCreate") < Place(Kind(Head(t))))
    BY <2>1, HasTail DEF Plan
  <2>3. Kind(Head(t)) # "PipelineCreate"
    BY <2>2 DEF Place
  <2> QED BY <2>1, <2>3, HasTail
<1>4. RunsMarked(Tail(t))
  <2>1. ASSUME Has(Tail(t), "Shell") \/ Has(Tail(t), "SetTimer"), Moved(Tail(t))
        PROVE  Has(Tail(t), "PhaseStatusUpdate")
    <3>1. Has(t, "Shell") \/ Has(t, "SetTimer")
      BY <2>1, HasTail
    <3>2. Moved(t) /\ Has(t, "PhaseStatusUpdate")
      BY <2>1, <3>1, HasTail DEF Moved, Plan, RunsMarked
    <3>3. Kind(Head(t)) # "PhaseStatusUpdate"
      <4> SUFFICES ASSUME Kind(Head(t)) = "PhaseStatusUpdate" PROVE FALSE
        OBVIOUS
      <4>1. ~Has(t, "PipelineCreate") /\ ~Has(t, "PipelineTransition")
        BY HasTail DEF Plan, Place
      <4> QED BY <3>2, <4>1 DEF Moved
    <3> QED BY <3>2, <3>3, HasTail
  <2>2. ASSUME Has(Tail(t), "Shell") \/ Has(Tail(t), "SetTimer"),
               NEW k \in DOMAIN Tail(t), Kind(Tail(t)[k]) = "PhaseStatusUpdate"
        PROVE  Tail(t)[k].operation.status = "Running"
    <3>1. Has(t, "Shell") \/ Has(t, "SetTimer")
      BY <2>2, HasTail
    <3> QED BY <2>2, <3>1, TailPlaces DEF Plan, RunsMarked
  <2>3. ASSUME NEW j \in DOMAIN Tail(t), NEW k \in DOMAIN Tail(t),
               Kind(Tail(t)[j]) = "Shell", Kind(Tail(t)[k]) \in Moves
        PROVE  Tail(t)[k].operation.phase = Tail(t)[j].phase
    BY <2>3, TailPlaces DEF Plan, RunsMarked
  <2> QED BY <2>1, <2>2, <2>3 DEF RunsMarked
<1> QED BY <1>1, <1>2, <1>3, <1>4 DEF Plan

-----------------------------------------------------------------------------
(* What an operation does to a state.                                      *)

LEMMA ApplyCreate ==
  ASSUME NEW s \in State, NEW o \in Operation
  PROVE  /\ o.op = "WorkspaceCreate" /\ ~Exists(s, o.id) =>
              /\ o.id \in PipelineId
              /\ Apply(s, o).pipelines = s.pipelines
              /\ Apply(s, o).sessions = s.sessions
              /\ \A i \in PipelineId : Apply(s, o).workspaces[i] =
                   IF i = o.id THEN o.name ELSE s.workspaces[i]
         /\ o.op = "PipelineCreate" =>
              /\ o.id \in PipelineId
              /\ Apply(s, o).workspaces = s.workspaces
              /\ Apply(s, o).sessions = s.sessions
              /\ \A i \in PipelineId : Apply(s, o).pipelines[i] =
                   IF i = o.id THEN NewPipeline(o.name, o.phase) ELSE s.pipelines[i]
         /\ o.op = "SessionCreate" =>
              /\ o.id \in PipelineId
              /\ Apply(s, o).workspaces = s.workspaces
              /\ Apply(s, o).pipelines = s.pipelines
              /\ Apply(s, o).sessions = s.sessions \cup {o.id}
<1>1. o.op \in {"WorkspaceCreate", "PipelineCreate", "SessionCreate"} =>
        o.id \in PipelineId
  BY DEF Operation
<1>2. CASE o.op = "WorkspaceCreate" /\ ~Exists(s, o.id)
  <2>1. Apply(s, o) = [s EXCEPT !.workspaces[o.id] = o.name,
                                !.pipelines[o.id] =
                                  IF Exists(s, o.id) THEN [@ EXCEPT !.workspace = o.name]
                                                     ELSE @]
    BY <1>2 DEF Apply
  <2> QED BY <1>1, <1>2, <2>1 DEF State, Exists
<1>3. CASE o.op = "PipelineCreate"
  <2>1. Apply(s, o) = [s EXCEPT !.pipelines[o.id] = NewPipeline(o.name, o.phase)]
    BY <1>3 DEF Apply
  <2> QED BY <1>1, <1>3, <2>1 DEF State
<1>4. CASE o.op = "SessionCreate"
  <2>1. Apply(s, o) = [s EXCEPT !.sessions = @ \cup {o.id}]
    BY <1>4 DEF Apply
  <2> QED BY <1>1, <1>4, <2>1 DEF State
<1> QED BY <1>2, <1>3, <1>4

LEMMA ApplyUpdate ==
  ASSUME NEW s \in State, NEW o \in Operation, Exists(s, o.id),
         o.op \in {"PipelineTransition", "PhaseStatusUpdate"}
  PROVE  /\ o.id \in PipelineId
         /\ Apply(s, o).workspaces = s.workspaces
         /\ Apply(s, o).sessions = s.sessions
         /\ \A i \in PipelineId :
              i # o.id => Apply(s, o).pipelines[i] = s.pipelines[i]
         /\ Exists(Apply(s, o), o.id)
         /\ o.op = "PipelineTransition" =>
              Apply(s, o).pipelines[o.id] =
                [s.pipelines[o.id] EXCEPT !.phase = o.phase, !.status = "Pending"]
         /\ o.op = "PhaseStatusUpdate" =>
              Apply(s, o).pipelines[o.id] = [s.pipelines[o.id] EXCEPT !.status = o.status]
         /\ s.pipelines[o.id] \in Pipeline
<1>1. o.id \in PipelineId
  BY DEF Operation
<1>2. s.pipelines[o.id] \in Pipeline
  BY <1>1 DEF State, Exists
<1>3. Apply(s, o) \in State
  BY ApplyType
<1>4. CASE o.op = "PipelineTransition"
  <2> DEFINE p == [s.pipelines[o.id] EXCEPT !.phase = o.phase, !.status = "Pending"]
  <2>1. Apply(s, o) = [s EXCEPT !.pipelines[o.id] = p]
    BY <1>4 DEF Apply
  <2>2. p \in Pipeline
    BY <1>2, <1>4 DEF Pipeline, Operation, Statuses
  <2>3. p # Nothing
    BY <2>2, CoreAssumption
  <2> HIDE DEF p
  <2>4. Apply(s, o).pipelines[o.id] = p
    BY <1>1, <2>1 DEF State
  <2>5. /\ Apply(s, o).workspaces = s.workspaces
        /\ Apply(s, o).sessions = s.sessions
        /\ \A i \in PipelineId :
             i # o.id => Apply(s, o).pipelines[i] = s.pipelines[i]
    BY <1>1, <2>1 DEF State
  <2> QED BY <1>1, <1>2, <1>4, <2>3, <2>4, <2>5 DEF Exists, p
<1>5. CASE o.op = "PhaseStatusUpdate"
  <2> DEFINE p == [s.pipelines[o.id] EXCEPT !.status = o.status]
  <2>1. Apply(s, o) = [s EXCEPT !.pipelines[o.id] = p]
    BY <1>5 DEF Apply
  <2>2. p \in Pipeline
    BY <1>2, <1>5 DEF Pipeline, Operation, Statuses
  <2>3. p # Nothing
    BY <2>2, CoreAssumption
  <2> HIDE DEF p
  <2>4. Apply(s, o).pipelines[o.id] = p
    BY <1>1, <2>1 DEF State
  <2>5. /\ Apply(s, o).workspaces = s.workspaces
        /\ Apply(s, o).sessions = s.sessions
        /\ \A i \in PipelineId :
             i # o.id => Apply(s, o).pipelines[i] = s.pipelines[i]
    BY <1>1, <2>1 DEF State
  <2> QED BY <1>1, <1>2, <1>5, <2>3, <2>4, <2>5 DEF Exists, p
<1> QED BY <1>4, <1>5

LEMMA NewPipelineExists ==
  ASSUME NEW name \in Name, NEW phase \in PhaseName
  PROVE  /\ NewPipeline(name, phase) \in Pipeline
         /\ NewPipeline(name, phase) # Nothing
         /\ NewPipeline(name, phase).phase = phase
         /\ NewPipeline(name, phase).name = name
         /\ NewPipeline(name, phase).session = Nothing
         /\ NewPipeline(name, phase).workspace = Nothing
         /\ NewPipeline(name, phase).status = "Pending"
BY CoreAssumption DEF NewPipeline, Pipeline, Statuses

-----------------------------------------------------------------------------
(* What is left of a plan relies on what its first effect has done.        *)

(* The kinds of effects in the rest of a plan.                             *)
LEMMA PlanRest ==
  ASSUME NEW id, NEW n, NEW t \in Seq(Effect), t # <<>>, Plan(t, id, n)
  PROVE  /\ Has(t, Kind(Head(t)))
         /\ \A kind : /\ Has(Tail(t), kind) => Has(t, kind)
                      /\ Has(t, kind) /\ kind # Kind(Head(t)) => Has(Tail(t), kind)
                      /\ Place(kind) < Place(Kind(Head(t))) => ~Has(t, kind)
         /\ Kind(Head(t)) \notin {"PipelineTransition", "SetTimer"} =>
              ~Has(Tail(t), Kind(Head(t)))
         /\ About(Head(t), id, n)
<1>1. Has(t, Kind(Head(t))) /\ About(Head(t), id, n)
  BY TailPlaces DEF Has, Plan
<1> QED BY <1>1, HasTail DEF Plan

LEMMA PersistHeadOf ==
  ASSUME NEW id, NEW n, NEW t \in Seq(Effect), t # <<>>, Plan(t, id, n),
         Head(t).effect = "Persist"
  PROVE  /\ Head(t).operation \in Operation
         /\ Head(t).operation.op = Kind(Head(t))
         /\ Head(t).operation.op \in {"WorkspaceCreate", "PipelineCreate",
              "PipelineTransition", "PhaseStatusUpdate", "SessionCreate"}
         /\ Head(t).operation.id = id
<1>1. Head(t) \in Effect
  BY HeadTailProperties
<1>2. Head(t).operation \in Operation
  BY <1>1 DEF Effect, Abort
<1>3. Kind(Head(t)) = Head(t).operation.op /\ Kind(Head(t)) \in PlanKinds
      /\ Head(t).operation.id = id
  BY PlanRest DEF Kind, About
<1>4. Head(t).operation.op \in {"WorkspaceCreate", "PipelineCreate",
        "PipelineTransition", "PhaseStatusUpdate", "SessionCreate",
        "SessionDelete", "PipelineDelete", "WorkspaceDelete"}
  BY <1>2 DEF Operation
<1> QED BY <1>2, <1>3, <1>4 DEF PlanKinds

LEMMA JustifiedPersist ==
  ASSUME NEW s \in State, NEW id, NEW n, NEW t \in Seq(Effect), t # <<>>,
         Plan(t, id, n), Justified(s, t, id, n), Head(t).effect = "Persist"
  PROVE  Justified(Apply(s, Head(t).operation), Tail(t), id, n)
<1> DEFINE o == Head(t).operation
           u == Apply(s, o)
           r == Tail(t)
           Shells(q) == \A k \in DOMAIN q : Kind(q[k]) = "Shell" =>
                          /\ ~Moved(q) => u.pipelines[id].phase = q[k].phase
                          /\ ~Has(q, "PhaseStatusUpdate")
                               => u.pipelines[id].status = "Running"
<1>1. /\ o \in Operation /\ o.op = Kind(Head(t)) /\ o.id = id
      /\ o.op \in {"WorkspaceCreate", "PipelineCreate", "PipelineTransition",
                   "PhaseStatusUpdate", "SessionCreate"}
  BY PersistHeadOf
<1>2. /\ Has(t, o.op)
      /\ \A kind : /\ Has(r, kind) => Has(t, kind)
                   /\ Has(t, kind) /\ kind # o.op => Has(r, kind)
                   /\ Place(kind) < Place(o.op) => ~Has(t, kind)
      /\ o.op # "PipelineTransition" => ~Has(r, o.op)
      /\ About(Head(t), id, n)
  BY <1>1, PlanRest
<1>3. \A k \in DOMAIN r : k + 1 \in DOMAIN t /\ r[k] = t[k + 1]
  BY TailPlaces
<1>4. (\E k \in DOMAIN r : Kind(r[k]) \in OnPipeline) =>
        \E k \in DOMAIN t : Kind(t[k]) \in OnPipeline
  BY <1>3
<1>5. Has(r, "Shell") /\ Moved(t) => Has(t, "PhaseStatusUpdate")
  BY <1>2 DEF Plan, RunsMarked
<1>6. ASSUME o.op \in Moves, NEW k \in DOMAIN r, Kind(r[k]) = "Shell"
      PROVE  r[k].phase = o.phase
  BY <1>1, <1>3, <1>6, TailPlaces DEF Plan, RunsMarked
<1>7. ASSUME o.op # "SessionCreate", u.sessions = s.sessions,
             Has(r, "Spawn"), ~Has(r, "SessionCreate")
      PROVE  id \in u.sessions
  BY <1>2, <1>7 DEF Justified
<1> SUFFICES Justified(u, r, id, n)
  OBVIOUS
<1> HIDE DEF u, r, o
<1>8. CASE o.op = "WorkspaceCreate"
  <2>1. Has(t, "PipelineCreate") /\ Has(r, "PipelineCreate")
    BY <1>2, <1>8 DEF Plan
  <2>2. ~Exists(s, id)
    BY <2>1 DEF Justified
  <2>3. /\ u.pipelines = s.pipelines /\ u.sessions = s.sessions
        /\ u.workspaces[id] = o.name
    BY <1>1, <1>8, <2>2, ApplyCreate DEF u
  <2>4. o.name = n
    BY <1>1, <1>2, <1>8 DEF About, o
  <2>5. Shells(r)
    BY <1>2, <1>5, <1>8, <2>1 DEF Moved, Has
  <2> QED BY <1>7, <1>8, <2>1, <2>2, <2>3, <2>4, <2>5 DEF Justified, Exists
<1>9. CASE o.op = "PipelineCreate"
  <2>1. ~Has(r, "PipelineCreate") /\ Has(t, "PipelineCreate")
    BY <1>2, <1>9
  <2>2. /\ u.sessions = s.sessions
        /\ u.pipelines[id] = NewPipeline(o.name, o.phase) /\ id \in PipelineId
    BY <1>1, <1>9, ApplyCreate DEF u
  <2>3. o.name \in Name /\ o.phase \in PhaseName
    BY <1>1, <1>9 DEF Operation
  <2>4. u.pipelines[id].phase = o.phase /\ Exists(u, id)
    BY <2>2, <2>3, NewPipelineExists DEF Exists
  <2>5. Shells(r)
    BY <1>2, <1>5, <1>6, <1>9, <2>1, <2>4 DEF Moved, Has, Moves
  <2> QED BY <1>7, <1>9, <2>1, <2>2, <2>4, <2>5 DEF Justified
<1>10. CASE o.op \in {"PipelineTransition", "PhaseStatusUpdate"}
  <2>1. ~Has(t, "PipelineCreate") /\ ~Has(r, "PipelineCreate")
    BY <1>2, <1>10 DEF Place
  <2>2. Exists(s, id)
    BY <1>2, <1>10, <2>1 DEF Justified, Has, OnPipeline
  <2>3. Exists(u, id) /\ u.sessions = s.sessions
    BY <1>1, <1>10, <2>2, ApplyUpdate DEF u
  <2>4. CASE o.op = "PipelineTransition"
    <3>1. u.pipelines[id].phase = o.phase
      <4>1. u.pipelines[id] = [s.pipelines[id] EXCEPT !.phase = o.phase,
                                                      !.status = "Pending"]
            /\ s.pipelines[id] \in Pipeline
        BY <1>1, <2>2, <2>4, ApplyUpdate DEF u
      <4> QED BY <4>1 DEF Pipeline
    <3>2. Shells(r)
      BY <1>2, <1>5, <1>6, <2>4, <3>1 DEF Moved, Has, Moves
    <3> QED BY <1>7, <2>1, <2>3, <2>4, <3>2 DEF Justified
  <2>5. CASE o.op = "PhaseStatusUpdate"
    <3>1. /\ u.pipelines[id].phase = s.pipelines[id].phase
          /\ u.pipelines[id].status = o.status
      <4>1. u.pipelines[id] = [s.pipelines[id] EXCEPT !.status = o.status]
            /\ s.pipelines[id] \in Pipeline
        BY <1>1, <2>2, <2>5, ApplyUpdate DEF u
      <4> QED BY <4>1 DEF Pipeline
    <3>2. ~Moved(t)
      BY <1>2, <2>5 DEF Moved, Place
    <3>3. Has(r, "Shell") => o.status = "Running"
      BY <1>1, <1>2, <2>5, TailPlaces DEF Plan, RunsMarked, o
    <3>4. Shells(r)
      BY <1>3, <3>1, <3>2, <3>3 DEF Justified, Has
    <3> QED BY <1>7, <2>1, <2>3, <2>5, <3>4 DEF Justified
  <2> QED BY <1>10, <2>4, <2>5
<1>11. CASE o.op = "SessionCreate"
  <2>1. ~Has(t, "PipelineCreate") /\ ~Has(r, "PipelineCreate") /\ ~Moved(t)
        /\ ~Has(t, "PhaseStatusUpdate")
    BY <1>2, <1>11 DEF Place, Moved
  <2>2. Exists(s, id)
    BY <1>2, <1>11, <2>1 DEF Justified, Has, OnPipeline
  <2>3. u.pipelines = s.pipelines /\ u.sessions = s.sessions \cup {id}
    BY <1>1, <1>11, ApplyCreate DEF u
  <2>4. Shells(r)
    BY <1>3, <2>1, <2>3 DEF Justified
  <2> QED BY <2>1, <2>2, <2>3, <2>4 DEF Justified, Exists
<1> QED BY <1>1, <1>8, <1>9, <1>10, <1>11

LEMMA JustifiedSkip ==
  ASSUME NEW s, NEW id, NEW n, NEW t \in Seq(Effect), t # <<>>,
         Plan(t, id, n), Justified(s, t, id, n), Head(t).effect # "Persist"
  PROVE  Justified(s, Tail(t), id, n)
<1> DEFINE r == Tail(t)
<1>1. Kind(Head(t)) \notin {"WorkspaceCreate", "PipelineCreate", "SessionCreate",
                            "PipelineTransition", "PhaseStatusUpdate"}
  <2>1. Head(t) \in Effect
    BY HeadTailProperties
  <2> QED BY <2>1 DEF Effect, Abort, Kind
<1>2. /\ \A kind : Has(r, kind) => Has(t, kind)
      /\ \A kind : Has(t, kind) /\ kind # Kind(Head(t)) => Has(r, kind)
  BY PlanRest
<1>3. /\ Has(r, "PipelineCreate") <=> Has(t, "PipelineCreate")
      /\ Has(r, "WorkspaceCreate") <=> Has(t, "WorkspaceCreate")
      /\ Has(r, "SessionCreate") <=> Has(t, "SessionCreate")
      /\ Has(r, "PhaseStatusUpdate") <=> Has(t, "PhaseStatusUpdate")
      /\ Moved(r) <=> Moved(t)
  BY <1>1, <1>2 DEF Moved
<1>4. \A k \in DOMAIN r : k + 1 \in DOMAIN t /\ r[k] = t[k + 1]
  BY TailPlaces
<1>5. (\E k \in DOMAIN r : Kind(r[k]) \in OnPipeline) =>
        \E k \in DOMAIN t : Kind(t[k]) \in OnPipeline
  BY <1>4
<1>6. \A k \in DOMAIN r : Kind(r[k]) = "Shell" =>
        /\ ~Moved(r) => s.pipelines[id].phase = r[k].phase
        /\ ~Has(r, "PhaseStatusUpdate") => s.pipelines[id].status = "Running"
  BY <1>3, <1>4 DEF Justified
<1> HIDE DEF r
<1>7. Justified(s, r, id, n)
  BY <1>2, <1>3, <1>5, <1>6 DEF Justified
<1> QED BY <1>7 DEF r

(* An operation of a plan makes no pipeline but its own, which gets the    *)
(* plan's name, and takes nothing away.                                    *)
LEMMA PlanApply ==
  ASSUME NEW s \in State, NEW id, NEW n, NEW t \in Seq(Effect), t # <<>>,
         Plan(t, id, n), Justified(s, t, id, n), Head(t).effect = "Persist",
         NEW o, o = Head(t).operation, NEW u, u = Apply(s, o)
  PROVE  /\ u \in State
         /\ s.sessions \subseteq u.sessions
         /\ \A i \in PipelineId : Exists(s, i) =>
              /\ Exists(u, i)
              /\ u.pipelines[i].name = s.pipelines[i].name
              /\ u.pipelines[i].session = s.pipelines[i].session
              /\ u.pipelines[i].workspace = s.pipelines[i].workspace
              /\ u.workspaces[i] = s.workspaces[i]
         /\ \A i \in PipelineId : Exists(u, i) /\ ~Exists(s, i) =>
              /\ i = id /\ Kind(Head(t)) = "PipelineCreate"
              /\ u.pipelines[i].name = n /\ u.workspaces[i] = n
              /\ u.pipelines[i].session = Nothing
              /\ u.pipelines[i].workspace = Nothing
         /\ Kind(Head(t)) = "PipelineCreate" => id \in PipelineId /\ Exists(u, id)
         /\ Kind(Head(t)) = "SessionCreate" => id \in u.sessions
<1>1. /\ o \in Operation /\ o.op = Kind(Head(t)) /\ o.id = id
      /\ o.op \in {"WorkspaceCreate", "PipelineCreate", "PipelineTransition",
                   "PhaseStatusUpdate", "SessionCreate"}
  BY PersistHeadOf
<1>2. u \in State
  BY <1>1, ApplyType
<1>3. /\ Has(t, o.op) /\ About(Head(t), id, n)
      /\ \A kind : Place(kind) < Place(o.op) => ~Has(t, kind)
  BY <1>1, PlanRest
<1>4. o.op \in {"WorkspaceCreate", "PipelineCreate"} => o.name = n /\ ~Exists(s, id)
  <2> SUFFICES ASSUME o.op \in {"WorkspaceCreate", "PipelineCreate"}
               PROVE  o.name = n /\ ~Exists(s, id)
    OBVIOUS
  <2>1. Has(t, "PipelineCreate")
    BY <1>3 DEF Plan
  <2>2. o.name = n
    BY <1>1, <1>3 DEF About
  <2> QED BY <2>1, <2>2 DEF Justified
<1>5. CASE o.op = "WorkspaceCreate"
  BY <1>1, <1>2, <1>4, <1>5, ApplyCreate DEF Exists
<1>6. CASE o.op = "PipelineCreate"
  <2>1. /\ u.sessions = s.sessions /\ u.workspaces = s.workspaces
        /\ id \in PipelineId
        /\ \A i \in PipelineId : u.pipelines[i] =
             IF i = id THEN NewPipeline(o.name, o.phase) ELSE s.pipelines[i]
    BY <1>1, <1>6, ApplyCreate
  <2>2. o.name \in Name /\ o.phase \in PhaseName
    BY <1>1, <1>6 DEF Operation
  <2>3. /\ Exists(u, id) /\ u.pipelines[id].name = n
        /\ u.pipelines[id].session = Nothing /\ u.pipelines[id].workspace = Nothing
    BY <1>4, <1>6, <2>1, <2>2, NewPipelineExists DEF Exists
  <2>4. ~Has(t, "WorkspaceCreate") /\ Has(t, "PipelineCreate")
    BY <1>3, <1>6 DEF Place
  <2>5. u.workspaces[id] = n
    BY <2>1, <2>4 DEF Justified
  <2> QED BY <1>1, <1>2, <1>4, <1>6, <2>1, <2>3, <2>5 DEF Exists
<1>7. CASE o.op \in {"PipelineTransition", "PhaseStatusUpdate"}
  <2>1. ~Has(t, "PipelineCreate")
    BY <1>3, <1>7 DEF Place
  <2>2. Exists(s, id)
    BY <1>3, <1>7, <2>1 DEF Justified, Has, OnPipeline
  <2>3. /\ u.workspaces = s.workspaces /\ u.sessions = s.sessions
        /\ \A i \in PipelineId : i # id => u.pipelines[i] = s.pipelines[i]
        /\ Exists(u, id) /\ s.pipelines[id] \in Pipeline /\ id \in PipelineId
    BY <1>1, <1>7, <2>2, ApplyUpdate
  <2>4. \/ u.pipelines[id] = [s.pipelines[id] EXCEPT !.phase = o.phase,
                                                     !.status = "Pending"]
        \/ u.pipelines[id] = [s.pipelines[id] EXCEPT !.status = o.status]
    BY <1>1, <1>7, <2>2, ApplyUpdate
  <2>5. /\ u.pipelines[id].name = s.pipelines[id].name
        /\ u.pipelines[id].session = s.pipelines[id].session
        /\ u.pipelines[id].workspace = s.pipelines[id].workspace
    BY <2>3, <2>4 DEF Pipeline
  <2> QED BY <1>1, <1>2, <1>7, <2>2, <2>3, <2>5 DEF Exists
<1>8. CASE o.op = "SessionCreate"
  BY <1>1, <1>2, <1>8, ApplyCreate DEF Exists
<1> QED BY <1>1, <1>5, <1>6, <1>7, <1>8

-----------------------------------------------------------------------------
(* What the handlers ask for, piece by piece.                              *)

LEMMA ConcatPlaces ==
  ASSUME NEW a \in Seq(Effect), NEW b \in Seq(Effect)
  PROVE  /\ a \o b \in Seq(Effect)
         /\ Len(a \o b) = Len(a) + Len(b)
         /\ \A k \in DOMAIN a : k \in DOMAIN (a \o b) /\ (a \o b)[k] = a[k]
         /\ \A k \in DOMAIN b : Len(a) + k \in DOMAIN (a \o b)
                                /\ (a \o b)[Len(a) + k] = b[k]
         /\ \A k \in DOMAIN (a \o b) :
              \/ k \in DOMAIN a /\ (a \o b)[k] = a[k]
              \/ k - Len(a) \in DOMAIN b /\ (a \o b)[k] = b[k - Len(a)] /\ k > Len(a)
<1>1. /\ Len(a) \in Nat /\ Len(b) \in Nat
      /\ DOMAIN a = 1..Len(a) /\ DOMAIN b = 1..Len(b)
  OBVIOUS
<1>2. /\ a \o b \in Seq(Effect) /\ Len(a \o b) = Len(a) + Len(b)
      /\ \A k \in 1..(Len(a) + Len(b)) : (a \o b)[k] =
           IF k <= Len(a) THEN a[k] ELSE b[k - Len(a)]
  BY ConcatProperties
<1>3. DOMAIN (a \o b) = 1..(Len(a) + Len(b))
  BY <1>2, LenProperties
<1>4. \A k \in 1..Len(b) : /\ Len(a) + k \in 1..(Len(a) + Len(b))
                           /\ ~(Len(a) + k <= Len(a)) /\ Len(a) + k - Len(a) = k
  BY <1>1
<1>5. \A k \in 1..(Len(a) + Len(b)) :
        \/ k \in 1..Len(a) /\ k <= Len(a)
        \/ k - Len(a) \in 1..Len(b) /\ ~(k <= Len(a)) /\ k > Len(a)
  BY <1>1
<1>6. \A k \in 1..Len(a) : k \in 1..(Len(a) + Len(b)) /\ k <= Len(a)
  BY <1>1
<1> HIDE DEF Effect
<1> QED BY <1>1, <1>2, <1>3, <1>4, <1>5, <1>6

LEMMA ConcatHas ==
  ASSUME NEW a \in Seq(Effect), NEW b \in Seq(Effect), NEW kind
  PROVE  Has(a \o b, kind) <=> Has(a, kind) \/ Has(b, kind)
<1>1. ASSUME Has(a \o b, kind) PROVE Has(a, kind) \/ Has(b, kind)
  <2>1. PICK k \in DOMAIN (a \o b) : Kind((a \o b)[k]) = kind
    BY <1>1 DEF Has
  <2> QED BY <2>1, ConcatPlaces DEF Has
<1>2. ASSUME Has(a, kind) PROVE Has(a \o b, kind)
  <2>1. PICK k \in DOMAIN a : Kind(a[k]) = kind
    BY <1>2 DEF Has
  <2> QED BY <2>1, ConcatPlaces DEF Has
<1>3. ASSUME Has(b, kind) PROVE Has(a \o b, kind)
  <2>1. PICK k \in DOMAIN b : Kind(b[k]) = kind
    BY <1>3 DEF Has
  <2>2. Len(a) + k \in DOMAIN (a \o b) /\ (a \o b)[Len(a) + k] = b[k]
    BY ConcatPlaces
  <2> QED BY <2>1, <2>2 DEF Has
<1> QED BY <1>1, <1>2, <1>3

LEMMA ConcatOrdered ==
  ASSUME NEW a \in Seq(Effect), NEW b \in Seq(Effect), Ordered(a), Ordered(b),
         \A j \in DOMAIN a, k \in DOMAIN b : InOrder(a[j], b[k])
  PROVE  Ordered(a \o b)
<1> SUFFICES ASSUME NEW j \in DOMAIN (a \o b), NEW k \in DOMAIN (a \o b), j < k
             PROVE  InOrder((a \o b)[j], (a \o b)[k])
  BY DEF Ordered
<1>1. \/ j \in DOMAIN a /\ (a \o b)[j] = a[j]
      \/ j - Len(a) \in DOMAIN b /\ (a \o b)[j] = b[j - Len(a)] /\ j > Len(a)
  BY ConcatPlaces
<1>2. \/ k \in DOMAIN a /\ (a \o b)[k] = a[k]
      \/ k - Len(a) \in DOMAIN b /\ (a \o b)[k] = b[k - Len(a)] /\ k > Len(a)
  BY ConcatPlaces
<1>3. /\ j \in Int /\ k \in Int /\ Len(a) \in Nat
      /\ DOMAIN a = 1..Len(a) /\ DOMAIN b = 1..Len(b)
  BY ConcatPlaces, LenProperties
<1>4. j - Len(a) < k - Len(a)
  BY <1>3
<1>5. ~(j > Len(a) /\ k \in DOMAIN a)
  BY <1>3
<1> QED BY <1>1, <1>2, <1>4, <1>5 DEF Ordered

LEMMA ConcatLast ==
  ASSUME NEW a \in Seq(Effect), NEW b \in Seq(Effect), b # <<>>
  PROVE  /\ a \o b # <<>>
         /\ (a \o b)[Len(a \o b)] = b[Len(b)]
<1>1. Len(b) \in DOMAIN b /\ Len(b) > 0 /\ Len(a) \in Nat /\ Len(b) \in Nat
  OBVIOUS
<1>2. Len(a \o b) = Len(a) + Len(b) /\ Len(a) + Len(b) > 0
  BY <1>1, ConcatPlaces
<1>3. a \o b # <<>>
  <2> DEFINE c == a \o b
  <2>1. Len(c) > 0
    BY <1>2
  <2>2. c # <<>>
    <3> HIDE DEF c
    <3> QED BY <2>1
  <2> QED BY <2>2
<1> QED BY <1>1, <1>2, <1>3, ConcatPlaces

LEMMA TupleConcat ==
  ASSUME NEW a \in Effect, NEW b \in Effect, NEW c \in Effect
  PROVE  /\ <<a>> \o <<b>> = <<a, b>>
         /\ <<a>> \o <<b, c>> = <<a, b, c>>
<1>1. <<a>> \o <<b>> = <<a, b>>
  <2> DEFINE u == <<a>>
             v == <<b>>
             w == <<a, b>>
  <2>1. /\ u \in Seq(Effect) /\ v \in Seq(Effect) /\ w \in Seq(Effect)
        /\ Len(u) = 1 /\ Len(v) = 1 /\ Len(w) = 2
        /\ u[1] = a /\ v[1] = b /\ w[1] = a /\ w[2] = b
    OBVIOUS
  <2> HIDE DEF u, v, w
  <2>2. /\ u \o v \in Seq(Effect) /\ Len(u \o v) = 2
        /\ (u \o v)[1] = a /\ (u \o v)[2] = b
    BY <2>1, ConcatProperties
  <2>3. u \o v = w
    BY <2>1, <2>2, SeqEqual
  <2> QED BY <2>3 DEF u, v, w
<1>2. <<a>> \o <<b, c>> = <<a, b, c>>
  <2> DEFINE u == <<a>>
             v == <<b, c>>
             w == <<a, b, c>>
  <2>1. /\ u \in Seq(Effect) /\ v \in Seq(Effect) /\ w \in Seq(Effect)
        /\ Len(u) = 1 /\ Len(v) = 2 /\ Len(w) = 3
        /\ u[1] = a /\ v[1] = b /\ v[2] = c /\ w[1] = a /\ w[2] = b /\ w[3] = c
    <3>1. u \in Seq(Effect) /\ Len(u) = 1 /\ u[1] = a
      OBVIOUS
    <3>2. v \in Seq(Effect) /\ Len(v) = 2 /\ v[1] = b /\ v[2] = c
      OBVIOUS
    <3>3. w \in Seq(Effect) /\ Len(w) = 3 /\ w[1] = a /\ w[2] = b /\ w[3] = c
      OBVIOUS
    <3> HIDE DEF u, v, w
    <3> QED BY <3>1, <3>2, <3>3
  <2> HIDE DEF u, v, w
  <2>2. /\ u \o v \in Seq(Effect) /\ Len(u \o v) = 3
        /\ (u \o v)[1] = a /\ (u \o v)[2] = b /\ (u \o v)[3] = c
    <3>1. 1 \in DOMAIN u /\ 1 \in DOMAIN v /\ 2 \in DOMAIN v
      BY <2>1, LenProperties
    <3>2. /\ u \o v \in Seq(Effect) /\ Len(u \o v) = Len(u) + Len(v)
          /\ (u \o v)[1] = u[1]
          /\ (u \o v)[Len(u) + 1] = v[1] /\ (u \o v)[Len(u) + 2] = v[2]
      BY <2>1, <3>1, ConcatPlaces
    <3>3. Len(u) + 1 = 2 /\ Len(u) + 2 = 3 /\ Len(u) + Len(v) = 3
      BY <2>1
    <3> QED BY <2>1, <3>2, <3>3
  <2>3. u \o v = w
    BY <2>1, <2>2, SeqEqual
  <2> QED BY <2>3 DEF u, v, w
<1> QED BY <1>1, <1>2

-----------------------------------------------------------------------------
(* The start of a phase.                                                   *)

StartKinds ==
  {"PhaseStatusUpdate", "PrepareWorkspace", "SessionCreate", "Spawn", "SetTimer",
   "Shell", "Abort"}

(* Of what runs a phase, t is the part after it is marked Running.         *)
Runs(rb, id, phase, t) ==
  /\ t \in Seq(Effect) /\ t # <<>>
  /\ \A k \in DOMAIN t :
       /\ Kind(t[k]) \in StartKinds \ {"PhaseStatusUpdate"}
       /\ \A n : About(t[k], id, n)
       /\ Kind(t[k]) = "Shell" => t[k].phase = phase
  /\ Ordered(t)
  /\ Has(t, "Spawn") => Has(t, "SessionCreate")
  /\ Has(t, "SetTimer") => RunsAgent(rb, phase) /\ Has(t, "SessionCreate")
  /\ Kind(t[Len(t)]) \in {"Shell", "SetTimer", "Abort"}

LEMMA AbortRuns ==
  ASSUME NEW rb, NEW id, NEW phase
  PROVE  Runs(rb, id, phase, << Abort >>)
<1> DEFINE t == << Abort >>
<1>1. t \in Seq(Effect) /\ t # <<>> /\ Len(t) = 1 /\ DOMAIN t = {1} /\ t[1] = Abort
  BY EffectTypes
<1> HIDE DEF t
<1>2. Kind(t[1]) = "Abort" /\ t[1].effect # "Persist"
  BY <1>1, KindOf DEF Abort
<1>3. \A n : About(t[1], id, n)
  BY <1>2 DEF About, PlanKinds
<1>4. Ordered(t)
  BY <1>1 DEF Ordered
<1> QED BY <1>1, <1>2, <1>3, <1>4 DEF Runs, StartKinds, Has, t

LEMMA ShellRuns ==
  ASSUME NEW rb, NEW id \in PipelineId, NEW phase \in PhaseName, NEW name \in Name
  PROVE  Runs(rb, id, phase, << Shell(id, phase, name) >>)
<1> DEFINE t == << Shell(id, phase, name) >>
<1>1. /\ t \in Seq(Effect) /\ t # <<>> /\ Len(t) = 1 /\ DOMAIN t = {1}
      /\ t[1] = Shell(id, phase, name)
  BY EffectTypes
<1> HIDE DEF t
<1>2. /\ Kind(t[1]) = "Shell" /\ t[1].effect # "Persist"
      /\ t[1].phase = phase /\ t[1].id = id
  BY <1>1, KindOf DEF Shell
<1>3. \A n : About(t[1], id, n)
  BY <1>2 DEF About, PlanKinds
<1>4. Ordered(t)
  BY <1>1 DEF Ordered
<1> QED BY <1>1, <1>2, <1>3, <1>4 DEF Runs, StartKinds, Has, t

LEMMA AgentRuns ==
  ASSUME NEW rb, NEW id \in PipelineId, NEW phase, NEW name \in Name,
         RunsAgent(rb, phase)
  PROVE  Runs(rb, id, phase,
              << PrepareWorkspace(name), Persist(SessionCreate(id)), Spawn(id),
                 SetTimer(id), SetTimer(id) >>)
<1> DEFINE t == << PrepareWorkspace(name), Persist(SessionCreate(id)), Spawn(id),
                   SetTimer(id), SetTimer(id) >>
<1>1. /\ t \in Seq(Effect) /\ t # <<>> /\ Len(t) = 5
  BY EffectTypes, PersistTypes
<1>2. /\ DOMAIN t = 1..5
      /\ t[1] = PrepareWorkspace(name) /\ t[2] = Persist(SessionCreate(id))
      /\ t[3] = Spawn(id) /\ t[4] = SetTimer(id) /\ t[5] = SetTimer(id)
  OBVIOUS
<1> HIDE DEF t
<1>3. /\ Kind(t[1]) = "PrepareWorkspace" /\ Kind(t[2]) = "SessionCreate"
      /\ Kind(t[3]) = "Spawn" /\ Kind(t[4]) = "SetTimer" /\ Kind(t[5]) = "SetTimer"
  BY <1>2, KindOf, OpOf
<1>4. /\ t[1].effect # "Persist" /\ t[2].operation.id = id
      /\ t[3].effect # "Persist" /\ t[3].id = id
      /\ t[4].effect # "Persist" /\ t[4].id = id
      /\ t[5].effect # "Persist" /\ t[5].id = id
  BY <1>2 DEF PrepareWorkspace, Persist, SessionCreate, Spawn, SetTimer
<1>5. \A k \in 1..5 : k = 1 \/ k = 2 \/ k = 3 \/ k = 4 \/ k = 5
  OBVIOUS
<1>6. ASSUME NEW k \in DOMAIN t
      PROVE  /\ Kind(t[k]) \in StartKinds \ {"PhaseStatusUpdate"}
             /\ \A n : About(t[k], id, n)
             /\ Kind(t[k]) # "Shell"
  BY <1>2, <1>3, <1>4, <1>5 DEF About, PlanKinds, StartKinds
<1>7. Ordered(t)
  <2>1. /\ Place(Kind(t[1])) = 6 /\ Place(Kind(t[2])) = 7 /\ Place(Kind(t[3])) = 8
        /\ Place(Kind(t[4])) = 9 /\ Place(Kind(t[5])) = 9
    BY <1>3 DEF Place
  <2> SUFFICES ASSUME NEW j \in 1..5, NEW k \in 1..5, j < k
               PROVE  InOrder(t[j], t[k])
    BY <1>2 DEF Ordered
  <2> QED BY <1>3, <1>5, <2>1 DEF InOrder
<1>8. Has(t, "SessionCreate")
  BY <1>2, <1>3 DEF Has
<1>9. Runs(rb, id, phase, t)
  BY <1>1, <1>3, <1>6, <1>7, <1>8 DEF Runs
<1> QED BY <1>9 DEF t

LEMMA GetPhaseName ==
  ASSUME NEW rb \in RunbookType, NEW name, HasPhase(rb, name)
  PROVE  GetPhase(rb, name).name = name
<1>1. rb.phases \in Seq(PhaseDef)
  BY DEF RunbookType
<1>2. PhaseIndices(rb, name) \subseteq Nat /\ PhaseIndices(rb, name) # {}
  BY <1>1 DEF HasPhase, PhaseIndices
<1>3. \E i \in PhaseIndices(rb, name) : \A j \in PhaseIndices(rb, name) : i <= j
  BY <1>2, LeastElement
<1>4. PhaseIndex(rb, name) \in PhaseIndices(rb, name)
  BY <1>3 DEF PhaseIndex
<1> QED BY <1>4 DEF GetPhase, PhaseIndices

LEMMA RunPhaseRuns ==
  ASSUME NEW rb \in RunbookType, NEW id \in PipelineId, NEW p \in Pipeline,
         NEW phase \in PhaseName, HasPhase(rb, phase)
  PROVE  Runs(rb, id, phase, RunPhase(rb, id, p, GetPhase(rb, phase)))
<1> DEFINE def == GetPhase(rb, phase)
<1>1. def \in PhaseDef /\ def.name = phase
  BY GetPhaseType, GetPhaseName
<1>2. WorkspaceOf(p) \in Name
  BY WorkspaceOfType
<1> HIDE DEF def
<1>3. CASE def.run = "shell"
  <2>1. RunPhase(rb, id, p, def) = << Shell(id, phase, WorkspaceOf(p)) >>
    BY <1>1, <1>3 DEF RunPhase
  <2> QED BY <1>2, <2>1, ShellRuns DEF def
<1>4. CASE def.run = "agent" /\ HasAgent(rb, def.agent)
  <2>1. RunPhase(rb, id, p, def) =
          << PrepareWorkspace(WorkspaceOf(p)), Persist(SessionCreate(id)), Spawn(id),
             SetTimer(id), SetTimer(id) >>
    BY <1>4 DEF RunPhase, SpawnAgent
  <2>2. RunsAgent(rb, phase)
    BY <1>4 DEF RunsAgent, def
  <2> QED BY <1>2, <2>1, <2>2, AgentRuns DEF def
<1>5. CASE def.run # "shell" /\ ~(def.run = "agent" /\ HasAgent(rb, def.agent))
  <2>1. RunPhase(rb, id, p, def) = << Abort >>
    BY <1>5 DEF RunPhase, SpawnAgent
  <2> QED BY <2>1, AbortRuns DEF def
<1> QED BY <1>3, <1>4, <1>5

(* What starts a phase.                                                    *)
Starts(rb, id, phase, t) ==
  /\ t \in Seq(Effect) /\ t # <<>>
  /\ \A k \in DOMAIN t :
       /\ Kind(t[k]) \in StartKinds
       /\ \A n : About(t[k], id, n)
       /\ Kind(t[k]) = "PhaseStatusUpdate" => t[k].operation.status = "Running"
       /\ Kind(t[k]) = "Shell" => t[k].phase = phase
  /\ Ordered(t)
  /\ Has(t, "Spawn") => Has(t, "SessionCreate")
  /\ Has(t, "Shell") \/ Has(t, "SetTimer") => Has(t, "PhaseStatusUpdate")
  /\ Has(t, "SetTimer") => RunsAgent(rb, phase) /\ Has(t, "SessionCreate")
  /\ Kind(t[Len(t)]) \in {"Shell", "SetTimer", "Abort"}

LEMMA StartPhaseStarts ==
  ASSUME NEW rb \in RunbookType, NEW id \in PipelineId, NEW p \in Pipeline,
         NEW phase \in PhaseName
  PROVE  Starts(rb, id, phase, StartPhase(rb, id, p, phase))
<1>1. CASE ~HasPhase(rb, phase)
  <2>1. StartPhase(rb, id, p, phase) = << Abort >>
    BY <1>1 DEF StartPhase
  <2>2. Runs(rb, id, phase, << Abort >>)
    BY AbortRuns
  <2>3. ~Has(<< Abort >>, "Shell") /\ ~Has(<< Abort >>, "SetTimer")
    BY KindOf DEF Has
  <2> QED BY <2>1, <2>2, <2>3 DEF Runs, Starts
<1>2. CASE HasPhase(rb, phase)
  <2> DEFINE a == << Persist(PhaseStatusUpdate(id, "Running")) >>
             r == RunPhase(rb, id, p, GetPhase(rb, phase))
             t == a \o r
  <2>1. StartPhase(rb, id, p, phase) = t
    BY <1>2 DEF StartPhase
  <2>2. Runs(rb, id, phase, r)
    BY <1>2, RunPhaseRuns
  <2>3. /\ a \in Seq(Effect) /\ Len(a) = 1 /\ DOMAIN a = {1}
        /\ a[1] = Persist(PhaseStatusUpdate(id, "Running"))
    BY PersistTypes DEF Statuses
  <2> HIDE DEF a, r
  <2>4. /\ Kind(a[1]) = "PhaseStatusUpdate" /\ a[1].operation.status = "Running"
        /\ a[1].effect = "Persist" /\ a[1].operation.id = id
    BY <2>3, KindOf, OpOf DEF Persist, PhaseStatusUpdate
  <2>5. \A n : About(a[1], id, n)
    BY <2>4 DEF About, PlanKinds
  <2>6. r \in Seq(Effect) /\ r # <<>>
    BY <2>2 DEF Runs
  <2>7. t \in Seq(Effect) /\ t # <<>> /\ t[Len(t)] = r[Len(r)]
    BY <2>3, <2>6, ConcatPlaces, ConcatLast
  <2>8. \A kind : Has(t, kind) <=> Has(a, kind) \/ Has(r, kind)
    BY <2>3, <2>6, ConcatHas
  <2>9. \A kind : Has(a, kind) <=> kind = "PhaseStatusUpdate"
    BY <2>3, <2>4 DEF Has
  <2>10. Ordered(t)
    <3>1. Ordered(a)
      BY <2>3 DEF Ordered
    <3>2. \A k \in DOMAIN r : InOrder(a[1], r[k])
      BY <2>2, <2>4 DEF Runs, StartKinds, InOrder, Place
    <3>3. Ordered(r)
      BY <2>2 DEF Runs
    <3> QED BY <2>3, <2>6, <3>1, <3>2, <3>3, ConcatOrdered
  <2>11. ASSUME NEW k \in DOMAIN t
         PROVE  /\ Kind(t[k]) \in StartKinds
                /\ \A n : About(t[k], id, n)
                /\ Kind(t[k]) = "PhaseStatusUpdate" => t[k].operation.status = "Running"
                /\ Kind(t[k]) = "Shell" => t[k].phase = phase
    <3>1. \/ k = 1 /\ t[k] = a[1]
          \/ \E j \in DOMAIN r : t[k] = r[j]
      BY <2>3, <2>6, ConcatPlaces
    <3> QED BY <2>2, <2>4, <2>5, <3>1 DEF Runs, StartKinds
  <2> HIDE DEF t
  <2>12. Starts(rb, id, phase, t)
    BY <2>2, <2>7, <2>8, <2>9, <2>10, <2>11 DEF Starts, Runs
  <2> QED BY <2>1, <2>12
<1> QED BY <1>1, <1>2

-----------------------------------------------------------------------------
(* The plans of the handlers.                                              *)

(* t is what a handler that finds the state s asks for pipeline id.        *)
Asks(rb, s, t, id, n) ==
  /\ t \in Seq(Effect) /\ Plan(t, id, n)
  /\ Has(t, "Spawn") => Has(t, "SessionCreate")
  /\ Has(t, "Shell") => Moved(t)
  /\ FollowsRunbook(rb, s, t, id)

(* Whatever the state it is done to.                                       *)
AlwaysSettles(rb, t, id) == \A s : Settles(rb, s, t, id)

(* A move, or the creation of a pipeline, and the start of its phase.      *)
LEMMA MoveAndStart ==
  ASSUME NEW rb, NEW s, NEW id, NEW n, NEW phase,
         NEW a \in Seq(Effect), NEW b, Starts(rb, id, phase, b),
         \A k \in DOMAIN a : /\ About(a[k], id, n)
                             /\ Kind(a[k]) \in Creating \cup {"PipelineTransition"}
                             /\ Kind(a[k]) \in Moves => a[k].operation.phase = phase,
         Ordered(a), Moved(a),
         Has(a, "WorkspaceCreate") => Has(a, "PipelineCreate"),
         FollowsRunbook(rb, s, a, id)
  PROVE  Asks(rb, s, a \o b, id, n) /\ AlwaysSettles(rb, a \o b, id)
<1> DEFINE t == a \o b
<1>1. b \in Seq(Effect) /\ b # <<>>
  BY DEF Starts
<1>2. t \in Seq(Effect) /\ t # <<>> /\ t[Len(t)] = b[Len(b)]
  BY <1>1, ConcatPlaces, ConcatLast
<1>3. \A kind : Has(t, kind) <=> Has(a, kind) \/ Has(b, kind)
  BY <1>1, ConcatHas
<1>4. \A k \in DOMAIN t : \/ k \in DOMAIN a /\ t[k] = a[k]
                          \/ k - Len(a) \in DOMAIN b /\ t[k] = b[k - Len(a)]
  BY <1>1, ConcatPlaces
<1>5. /\ \A kind : Has(a, kind) => kind \in Creating \cup {"PipelineTransition"}
      /\ \A kind : Has(b, kind) => kind \in StartKinds
  BY DEF Has, Starts
<1>6. Moved(t) /\ (Moved(b) => FALSE)
  BY <1>3, <1>5 DEF Moved, StartKinds
<1>7. Ordered(t)
  <2>1. \A j \in DOMAIN a, k \in DOMAIN b : InOrder(a[j], b[k])
    <3> SUFFICES ASSUME NEW j \in DOMAIN a, NEW k \in DOMAIN b
                 PROVE  Place(Kind(a[j])) < Place(Kind(b[k]))
      BY DEF InOrder
    <3>1. Place(Kind(a[j])) \in {1, 2, 3, 4}
      BY DEF Creating, Place
    <3>2. Place(Kind(b[k])) \in {5, 6, 7, 8, 9, 10}
      BY DEF Starts, StartKinds, Place
    <3> QED BY <3>1, <3>2
  <2> QED BY <1>1, <2>1, ConcatOrdered DEF Starts
<1>8. \A k \in DOMAIN t : About(t[k], id, n)
  BY <1>4 DEF Starts
<1>9. Has(t, "WorkspaceCreate") => Has(t, "PipelineCreate")
  BY <1>3, <1>5 DEF StartKinds
<1>10. RunsMarked(t)
  <2>1. Has(t, "Shell") \/ Has(t, "SetTimer") => Has(t, "PhaseStatusUpdate")
    BY <1>3, <1>5 DEF Starts, Creating
  <2>2. \A k \in DOMAIN t : Kind(t[k]) = "PhaseStatusUpdate"
                              => t[k].operation.status = "Running"
    BY <1>4 DEF Starts, Creating
  <2>3. \A k \in DOMAIN t : Kind(t[k]) = "Shell" => t[k].phase = phase
    BY <1>4 DEF Starts, Creating
  <2>4. \A k \in DOMAIN t : Kind(t[k]) \in Moves => t[k].operation.phase = phase
    BY <1>4 DEF Starts, StartKinds, Moves
  <2> QED BY <2>1, <2>2, <2>3, <2>4 DEF RunsMarked
<1>11. Plan(t, id, n)
  BY <1>7, <1>8, <1>9, <1>10 DEF Plan
<1>12. Has(t, "Spawn") => Has(t, "SessionCreate")
  BY <1>3, <1>5 DEF Starts, Creating
<1>13. FollowsRunbook(rb, s, t, id)
  <2> SUFFICES ASSUME NEW k \in DOMAIN t
      PROVE
      /\ Kind(t[k]) = "PipelineCreate" =>
           /\ rb.defined
           /\ t[k].operation.phase = IF FirstPhase(rb) = Nothing THEN "init"
                                                                ELSE FirstPhase(rb)
      /\ Kind(t[k]) = "PipelineTransition" =>
           /\ t[k].operation.phase \in Leads(rb, PhaseAt(s, t, id, k))
           /\ k > 1 => Kind(t[k - 1]) = "PipelineTransition"
      /\ Kind(t[k]) = "PhaseStatusUpdate" /\ t[k].operation.status = "Completed" =>
           /\ PhaseAt(s, t, id, k) \in TerminalPhases
           /\ k > 1 => Kind(t[k - 1]) = "PipelineTransition"
    BY DEF FollowsRunbook
  <2>1. CASE k \in DOMAIN a /\ t[k] = a[k]
    <3>1. k # 1 => k - 1 \in DOMAIN a /\ k > 1
      BY <2>1, LenProperties
    <3>2. k # 1 => t[k - 1] = a[k - 1]
      BY <1>1, <3>1, ConcatPlaces
    <3>3. PhaseAt(s, t, id, k) = PhaseAt(s, a, id, k)
      BY <3>2 DEF PhaseAt
    <3>4. k > 1 <=> k # 1
      BY <2>1, LenProperties
    <3> QED BY <2>1, <3>2, <3>3, <3>4 DEF FollowsRunbook
  <2>2. CASE k - Len(a) \in DOMAIN b /\ t[k] = b[k - Len(a)]
    BY <2>2 DEF Starts, StartKinds
  <2> QED BY <1>4, <2>1, <2>2
<1>14. AlwaysSettles(rb, t, id)
  <2>1. Kind(t[Len(t)]) \in {"Shell", "SetTimer", "Abort"}
    BY <1>2 DEF Starts
  <2>2. ASSUME Kind(t[Len(t)]) = "SetTimer"
        PROVE  /\ RunsAgent(rb, phase)
               /\ Has(t, "PhaseStatusUpdate") /\ Has(t, "SessionCreate")
    <3>1. Len(b) \in DOMAIN b
      BY <1>1
    <3>2. Has(b, "SetTimer")
      BY <1>2, <2>2, <3>1 DEF Has
    <3> QED BY <1>3, <3>2 DEF Starts
  <2>3. \A k \in DOMAIN t : Kind(t[k]) \in Moves => t[k].operation.phase = phase
    BY <1>4 DEF Starts, StartKinds, Moves
  <2> HIDE DEF t
  <2> QED BY <1>2, <1>6, <2>1, <2>2, <2>3 DEF AlwaysSettles, Settles
<1> HIDE DEF t
<1>15. Asks(rb, s, t, id, n)
  BY <1>2, <1>6, <1>11, <1>12, <1>13 DEF Asks
<1> QED BY <1>14, <1>15 DEF t

(* A plan of moves and one change of the status at most.                   *)
LEMMA UpdatesAsk ==
  ASSUME NEW rb, NEW s, NEW id, NEW n, NEW t \in Seq(Effect),
         \A k \in DOMAIN t :
           /\ Kind(t[k]) \in {"PipelineTransition", "PhaseStatusUpdate", "SetTimer",
                              "Send", "Abort"}
           /\ About(t[k], id, n),
         Ordered(t), Has(t, "SetTimer") => ~Moved(t),
         \A k \in DOMAIN t : Has(t, "SetTimer") /\ Kind(t[k]) = "PhaseStatusUpdate"
                               => t[k].operation.status = "Running",
         FollowsRunbook(rb, s, t, id)
  PROVE  Asks(rb, s, t, id, n)
<1>1. \A kind : Has(t, kind) => kind \in {"PipelineTransition", "PhaseStatusUpdate",
                                          "SetTimer", "Send", "Abort"}
  BY DEF Has
<1>2. /\ ~Has(t, "WorkspaceCreate") /\ ~Has(t, "Spawn") /\ ~Has(t, "Shell")
      /\ ~Has(t, "PipelineCreate")
  BY <1>1
<1>3. \A k \in DOMAIN t : Kind(t[k]) # "Shell"
  BY <1>2 DEF Has
<1>4. RunsMarked(t)
  BY <1>2, <1>3 DEF RunsMarked
<1>5. Plan(t, id, n)
  BY <1>2, <1>4 DEF Plan
<1> QED BY <1>2, <1>5 DEF Asks

LEMMA SmallAsks ==
  ASSUME NEW rb, NEW s, NEW id, NEW n
  PROVE  /\ Asks(rb, s, <<>>, id, n)
         /\ Asks(rb, s, << Abort >>, id, n) /\ AlwaysSettles(rb, << Abort >>, id)
         /\ \A sid \in SessionId : Asks(rb, s, << Send(sid) >>, id, n)
<1>1. Asks(rb, s, <<>>, id, n)
  <2> DEFINE t == <<>>
  <2>1. t \in Seq(Effect) /\ DOMAIN t = {}
    OBVIOUS
  <2> HIDE DEF t
  <2>2. Ordered(t) /\ FollowsRunbook(rb, s, t, id) /\ ~Has(t, "SetTimer")
    BY <2>1 DEF Ordered, FollowsRunbook, Has
  <2>3. Asks(rb, s, t, id, n)
    BY <2>1, <2>2, UpdatesAsk
  <2> QED BY <2>3 DEF t
<1>2. ASSUME NEW x \in Effect, Kind(x) \in {"Send", "Abort"}, x.effect # "Persist"
      PROVE  Asks(rb, s, << x >>, id, n)
  <2> DEFINE t == << x >>
  <2>1. t \in Seq(Effect) /\ DOMAIN t = {1} /\ t[1] = x
    OBVIOUS
  <2> HIDE DEF t
  <2>2. About(x, id, n)
    BY <1>2 DEF About, PlanKinds
  <2>3. Ordered(t) /\ FollowsRunbook(rb, s, t, id) /\ ~Has(t, "SetTimer")
    BY <1>2, <2>1 DEF Ordered, FollowsRunbook, Has
  <2>4. Asks(rb, s, t, id, n)
    BY <1>2, <2>1, <2>2, <2>3, UpdatesAsk
  <2> QED BY <2>4 DEF t
<1>3. Asks(rb, s, << Abort >>, id, n)
  BY <1>2, EffectTypes, KindOf DEF Abort
<1>4. \A sid \in SessionId : Asks(rb, s, << Send(sid) >>, id, n)
  BY <1>2, EffectTypes, KindOf DEF Send
<1>5. AlwaysSettles(rb, << Abort >>, id)
  <2> DEFINE t == << Abort >>
  <2>1. t # <<>> /\ t[Len(t)] = Abort
    OBVIOUS
  <2> HIDE DEF t
  <2>2. AlwaysSettles(rb, t, id)
    BY <2>1, KindOf DEF AlwaysSettles, Settles
  <2> QED BY <2>2 DEF t
<1> QED BY <1>1, <1>3, <1>4, <1>5

(* One transition.                                                         *)
LEMMA TransitionAsks ==
  ASSUME NEW rb, NEW s, NEW id \in PipelineId, NEW n, NEW phase \in PhaseName,
         phase \in Leads(rb, s.pipelines[id].phase),
         NEW t, t = << Persist(PipelineTransition(id, phase)) >>
  PROVE  /\ t \in Seq(Effect) /\ DOMAIN t = {1} /\ t # <<>> /\ Len(t) = 1
         /\ Kind(t[1]) = "PipelineTransition" /\ t[1].operation.phase = phase
         /\ About(t[1], id, n) /\ Ordered(t)
         /\ FollowsRunbook(rb, s, t, id)
         /\ Asks(rb, s, t, id, n)
<1>1. /\ t \in Seq(Effect) /\ DOMAIN t = {1} /\ t # <<>> /\ Len(t) = 1
      /\ t[1] = Persist(PipelineTransition(id, phase))
  BY PersistTypes
<1>2. /\ Kind(t[1]) = "PipelineTransition" /\ t[1].operation.phase = phase
      /\ t[1].operation.id = id /\ t[1].effect = "Persist"
  BY <1>1, KindOf, OpOf DEF Persist, PipelineTransition
<1>3. About(t[1], id, n)
  BY <1>2 DEF About, PlanKinds
<1>4. Ordered(t) /\ FollowsRunbook(rb, s, t, id) /\ ~Has(t, "SetTimer")
  BY <1>1, <1>2 DEF Ordered, FollowsRunbook, Has, PhaseAt
<1>5. Asks(rb, s, t, id, n)
  BY <1>1, <1>2, <1>3, <1>4, UpdatesAsk
<1> QED BY <1>1, <1>2, <1>3, <1>4, <1>5

(* A pipeline that has ended is completed.                                 *)
LEMMA CompletedAsks ==
  ASSUME NEW rb, NEW s, NEW id \in PipelineId, NEW n,
         s.pipelines[id].phase \in TerminalPhases,
         NEW t, t = << Persist(PhaseStatusUpdate(id, "Completed")) >>
  PROVE  Asks(rb, s, t, id, n) /\ AlwaysSettles(rb, t, id)
<1>1. /\ t \in Seq(Effect) /\ DOMAIN t = {1} /\ t # <<>> /\ Len(t) = 1
      /\ t[1] = Persist(PhaseStatusUpdate(id, "Completed"))
  BY PersistTypes DEF Statuses
<1>2. /\ Kind(t[1]) = "PhaseStatusUpdate" /\ t[1].operation.status = "Completed"
      /\ t[1].operation.id = id /\ t[1].effect = "Persist"
  BY <1>1, KindOf, OpOf DEF Persist, PhaseStatusUpdate
<1>3. About(t[1], id, n)
  BY <1>2 DEF About, PlanKinds
<1>4. Ordered(t) /\ FollowsRunbook(rb, s, t, id) /\ ~Has(t, "SetTimer")
  BY <1>1, <1>2 DEF Ordered, FollowsRunbook, Has, PhaseAt
<1>5. Asks(rb, s, t, id, n)
  BY <1>1, <1>2, <1>3, <1>4, UpdatesAsk
<1>6. AlwaysSettles(rb, t, id)
  BY <1>1, <1>2 DEF AlwaysSettles, Settles
<1> QED BY <1>5, <1>6

(* A pipeline that ends moves, is done and is completed.                   *)
LEMMA EndAsks ==
  ASSUME NEW rb, NEW s, NEW id \in PipelineId, NEW n, NEW phase \in PhaseName,
         phase \in Leads(rb, s.pipelines[id].phase), "done" \in Leads(rb, phase),
         NEW t, t = << Persist(PipelineTransition(id, phase)),
                       Persist(PipelineTransition(id, "done")),
                       Persist(PhaseStatusUpdate(id, "Completed")) >>
  PROVE  Asks(rb, s, t, id, n) /\ AlwaysSettles(rb, t, id)
<1>1. /\ t \in Seq(Effect) /\ t # <<>> /\ Len(t) = 3
  BY PersistTypes, CoreAssumption DEF Statuses
<1>2. /\ DOMAIN t = 1..3
      /\ t[1] = Persist(PipelineTransition(id, phase))
      /\ t[2] = Persist(PipelineTransition(id, "done"))
      /\ t[3] = Persist(PhaseStatusUpdate(id, "Completed"))
  OBVIOUS
<1>3. /\ Kind(t[1]) = "PipelineTransition" /\ t[1].operation.phase = phase
      /\ t[1].operation.id = id /\ t[1].effect = "Persist"
      /\ Kind(t[2]) = "PipelineTransition" /\ t[2].operation.phase = "done"
      /\ t[2].operation.id = id /\ t[2].effect = "Persist"
      /\ Kind(t[3]) = "PhaseStatusUpdate" /\ t[3].operation.status = "Completed"
      /\ t[3].operation.id = id /\ t[3].effect = "Persist"
  BY <1>2, KindOf, OpOf DEF Persist, PhaseStatusUpdate, PipelineTransition
<1>4. \A k \in DOMAIN t : k = 1 \/ k = 2 \/ k = 3
  BY <1>2
<1>5. \A k \in DOMAIN t :
        /\ Kind(t[k]) \in {"PipelineTransition", "PhaseStatusUpdate"}
        /\ About(t[k], id, n)
  BY <1>3, <1>4 DEF About, PlanKinds
<1>6. Ordered(t)
  <2>1. Place(Kind(t[1])) = 4 /\ Place(Kind(t[2])) = 4 /\ Place(Kind(t[3])) = 5
    BY <1>3 DEF Place
  <2> SUFFICES ASSUME NEW j \in DOMAIN t, NEW k \in DOMAIN t, j < k
               PROVE  InOrder(t[j], t[k])
    BY DEF Ordered
  <2> QED BY <1>3, <1>4, <2>1 DEF InOrder
<1>7. ~Has(t, "SetTimer")
  BY <1>5 DEF Has
<1>8. FollowsRunbook(rb, s, t, id)
  <2>1. /\ PhaseAt(s, t, id, 1) = s.pipelines[id].phase
        /\ PhaseAt(s, t, id, 2) = phase
        /\ PhaseAt(s, t, id, 3) = "done"
    BY <1>3 DEF PhaseAt
  <2>2. 2 - 1 = 1 /\ 3 - 1 = 2
    OBVIOUS
  <2> QED BY <1>3, <1>4, <2>1, <2>2 DEF FollowsRunbook, TerminalPhases
<1>9. Asks(rb, s, t, id, n)
  BY <1>1, <1>5, <1>6, <1>7, <1>8, UpdatesAsk
<1>10. AlwaysSettles(rb, t, id)
  BY <1>1, <1>3 DEF AlwaysSettles, Settles
<1> QED BY <1>9, <1>10

(* A move into a phase that is then started.                               *)
LEMMA TransitionStarts ==
  ASSUME NEW rb \in RunbookType, NEW s, NEW id \in PipelineId, NEW n,
         NEW p \in Pipeline, NEW phase \in PhaseName,
         phase \in Leads(rb, s.pipelines[id].phase),
         NEW t, t = << Persist(PipelineTransition(id, phase)) >>
                      \o StartPhase(rb, id, p, phase)
  PROVE  Asks(rb, s, t, id, n) /\ AlwaysSettles(rb, t, id)
<1>1. PICK a : a = << Persist(PipelineTransition(id, phase)) >>
  OBVIOUS
<1>2. PICK b : b = StartPhase(rb, id, p, phase)
  OBVIOUS
<1>3. /\ a \in Seq(Effect) /\ DOMAIN a = {1}
      /\ Kind(a[1]) = "PipelineTransition" /\ a[1].operation.phase = phase
      /\ About(a[1], id, n) /\ Ordered(a) /\ FollowsRunbook(rb, s, a, id)
  <2>1. /\ a \in Seq(Effect) /\ DOMAIN a = {1}
        /\ Kind(a[1]) = "PipelineTransition" /\ a[1].operation.phase = phase
    <3>1. /\ a \in Seq(Effect) /\ DOMAIN a = {1}
          /\ a[1] = Persist(PipelineTransition(id, phase))
      BY <1>1, PersistTypes
    <3> QED BY <3>1, KindOf, OpOf DEF Persist, PipelineTransition
  <2>2. Asks(rb, s, a, id, n)
    BY <1>1, TransitionAsks
  <2>3. About(a[1], id, n)
    BY <1>1, TransitionAsks
  <2>4. Ordered(a) /\ FollowsRunbook(rb, s, a, id)
    BY <1>1, TransitionAsks
  <2> QED BY <2>1, <2>2, <2>3, <2>4
<1>4. Starts(rb, id, phase, b)
  BY <1>2, StartPhaseStarts
<1>5. Moved(a) /\ ~Has(a, "WorkspaceCreate")
  BY <1>3 DEF Moved, Has
<1>6. t = a \o b
  BY <1>1, <1>2
<1>7. \A k \in DOMAIN a : /\ About(a[k], id, n)
                           /\ Kind(a[k]) \in Creating \cup {"PipelineTransition"}
                           /\ Kind(a[k]) \in Moves => a[k].operation.phase = phase
  BY <1>3
<1>8. Asks(rb, s, a \o b, id, n) /\ AlwaysSettles(rb, a \o b, id)
  BY <1>3, <1>4, <1>5, <1>7, MoveAndStart
<1> QED BY <1>6, <1>8

(* Runtime::advance_pipeline.                                              *)
LEMMA CompletionForms ==
  ASSUME NEW id \in PipelineId, NEW p, p.session = Nothing
  PROVE  CompletionEffects(id, p) =
           IF IsTerminal(p) THEN << Persist(PhaseStatusUpdate(id, "Completed")) >>
           ELSE << Persist(PipelineTransition(id, "done")),
                   Persist(PhaseStatusUpdate(id, "Completed")) >>
<1> DEFINE d == Persist(PipelineTransition(id, "done"))
           c == Persist(PhaseStatusUpdate(id, "Completed"))
<1>1. d \in Effect /\ c \in Effect
  BY PersistTypes, CoreAssumption DEF Statuses
<1>2. CompletionEffects(id, p) =
        ((IF IsTerminal(p) THEN <<>> ELSE << d >>) \o << c >>) \o <<>>
  BY DEF CompletionEffects
<1> HIDE DEF d, c
<1>3. /\ <<>> \o << c >> = << c >> /\ << c >> \o <<>> = << c >>
      /\ << d >> \o << c >> = << d, c >> /\ << d, c >> \o <<>> = << d, c >>
  <2>1. << c >> \in Seq(Effect) /\ << d, c >> \in Seq(Effect)
    BY <1>1
  <2> QED BY <1>1, <2>1, TupleConcat, ConcatEmptySeq
<1>4. CASE IsTerminal(p)
  <2>1. CompletionEffects(id, p) = (<<>> \o << c >>) \o <<>>
    BY <1>2, <1>4
  <2> QED BY <1>3, <1>4, <2>1 DEF c
<1>5. CASE ~IsTerminal(p)
  <2>1. CompletionEffects(id, p) = (<< d >> \o << c >>) \o <<>>
    BY <1>2, <1>5
  <2> QED BY <1>3, <1>5, <2>1 DEF c, d
<1> QED BY <1>4, <1>5

LEMMA AdvanceAsks ==
  ASSUME NEW rb \in RunbookType, NEW s, NEW id \in PipelineId, NEW n,
         s.pipelines[id] \in Pipeline, s.pipelines[id].session = Nothing,
         NEW t, t = AdvancePipeline(rb, id, s.pipelines[id])
  PROVE  Asks(rb, s, t, id, n) /\ AlwaysSettles(rb, t, id)
<1> DEFINE p    == s.pipelines[id]
           next == NextPhaseName(rb, p.phase)
           ends == next \in TerminalPhases /\ ~HasPhase(rb, next)
<1>1. p \in Pipeline /\ p.session = Nothing
  OBVIOUS
<1>2. next \in PhaseName \cup {Nothing}
  BY NextPhaseNameType
<1>3. \A x \in PhaseName :
        << Persist(PipelineTransition(id, x)) >> \o
          << Persist(PipelineTransition(id, "done")),
             Persist(PhaseStatusUpdate(id, "Completed")) >> =
        << Persist(PipelineTransition(id, x)), Persist(PipelineTransition(id, "done")),
           Persist(PhaseStatusUpdate(id, "Completed")) >>
  BY PersistTypes, CoreAssumption, TupleConcat DEF Statuses
<1>4. CASE IsTerminal(p)
  <2>1. t = << Persist(PhaseStatusUpdate(id, "Completed")) >>
    BY <1>4, CompletionForms DEF AdvancePipeline
  <2>2. s.pipelines[id].phase \in TerminalPhases
    BY <1>4 DEF IsTerminal
  <2> QED BY <2>1, <2>2, CompletedAsks
<1>5. CASE ~IsTerminal(p) /\ next = Nothing
  <2>1. CompletionEffects(id, p) =
          << Persist(PipelineTransition(id, "done")),
             Persist(PhaseStatusUpdate(id, "Completed")) >>
    BY <1>5, CompletionForms
  <2>2. t = << Persist(PipelineTransition(id, "done")) >> \o CompletionEffects(id, p)
    BY <1>5 DEF AdvancePipeline
  <2>3. t = << Persist(PipelineTransition(id, "done")),
               Persist(PipelineTransition(id, "done")),
               Persist(PhaseStatusUpdate(id, "Completed")) >>
    BY <1>3, <2>1, <2>2, CoreAssumption
  <2>4. "done" \in Leads(rb, p.phase) /\ "done" \in Leads(rb, "done")
    BY <1>5 DEF Leads
  <2> QED BY <2>3, <2>4, CoreAssumption, EndAsks
<1>6. CASE ~IsTerminal(p) /\ next # Nothing /\ ends
  <2>1. CompletionEffects(id, p) =
          << Persist(PipelineTransition(id, "done")),
             Persist(PhaseStatusUpdate(id, "Completed")) >>
    BY <1>6, CompletionForms
  <2>2. t = << Persist(PipelineTransition(id, next)) >> \o CompletionEffects(id, p)
    BY <1>6 DEF AdvancePipeline
  <2>3. t = << Persist(PipelineTransition(id, next)),
               Persist(PipelineTransition(id, "done")),
               Persist(PhaseStatusUpdate(id, "Completed")) >>
    BY <1>2, <1>3, <1>6, <2>1, <2>2
  <2>4. next \in Leads(rb, p.phase)
    BY <1>6 DEF Leads, IsTerminal, TerminalPhases
  <2>5. "done" \in Leads(rb, next)
    BY <1>6 DEF Leads, NextPhaseName
  <2> HIDE DEF next
  <2> QED BY <1>2, <1>6, <2>3, <2>4, <2>5, EndAsks
<1>7. CASE ~IsTerminal(p) /\ next # Nothing /\ ~ends
  <2>1. t = << Persist(PipelineTransition(id, next)) >> \o StartPhase(rb, id, p, next)
    BY <1>7 DEF AdvancePipeline
  <2>2. next \in Leads(rb, s.pipelines[id].phase)
    BY <1>7 DEF Leads, IsTerminal, TerminalPhases
  <2>3. next \in PhaseName
    BY <1>2, <1>7
  <2> HIDE DEF next
  <2> QED BY <1>1, <2>1, <2>2, <2>3, TransitionStarts
<1> QED BY <1>4, <1>5, <1>6, <1>7

(* Runtime::fail_pipeline.                                                 *)
LEMMA FailAsks ==
  ASSUME NEW rb \in RunbookType, NEW s, NEW id \in PipelineId, NEW n,
         s.pipelines[id] \in Pipeline,
         NEW t, t = FailPipeline(rb, id, s.pipelines[id])
  PROVE  Asks(rb, s, t, id, n) /\ AlwaysSettles(rb, t, id)
<1> DEFINE p    == s.pipelines[id]
           fail == OnFail(rb, p.phase)
<1>1. fail \in PhaseName \cup {Nothing} /\ p \in Pipeline
  BY OnFailType
<1>2. CASE fail = Nothing
  <2>1. t = << Persist(PipelineTransition(id, "failed")) >>
    BY <1>2 DEF FailPipeline
  <2>2. "failed" \in Leads(rb, s.pipelines[id].phase) /\ "failed" \in PhaseName
    BY <1>2, CoreAssumption DEF Leads
  <2> HIDE DEF fail
  <2>3. Asks(rb, s, t, id, n)
    BY <2>1, <2>2, TransitionAsks
  <2>4. /\ t # <<>> /\ Len(t) = 1
        /\ Kind(t[1]) = "PipelineTransition" /\ t[1].operation.phase = "failed"
    BY <2>1, KindOf, OpOf DEF Persist, PipelineTransition
  <2> QED BY <2>3, <2>4 DEF AlwaysSettles, Settles
<1>3. CASE fail # Nothing
  <2>1. t = << Persist(PipelineTransition(id, fail)) >> \o StartPhase(rb, id, p, fail)
    BY <1>3 DEF FailPipeline
  <2>2. fail \in Leads(rb, s.pipelines[id].phase) /\ fail \in PhaseName
    BY <1>1, <1>3 DEF Leads
  <2> HIDE DEF fail
  <2> QED BY <1>1, <2>1, <2>2, TransitionStarts
<1> QED BY <1>2, <1>3

(* Runtime::handle_command.                                                *)
Creates(rb, s, t, id, n, phase) ==
  /\ t \in Seq(Effect) /\ t # <<>> /\ Len(t) = 3
  /\ \A k \in DOMAIN t :
       /\ About(t[k], id, n)
       /\ Kind(t[k]) \in Creating
       /\ Kind(t[k]) \in Moves => t[k].operation.phase = phase
  /\ Ordered(t) /\ FollowsRunbook(rb, s, t, id)
  /\ Has(t, "WorkspaceCreate") /\ Has(t, "WorktreeAdd")
  /\ Has(t, "PipelineCreate") /\ Moved(t)
  /\ Kind(t[3]) = "PipelineCreate" /\ t[3].operation.phase = phase

LEMMA CreatingCreates ==
  ASSUME NEW rb, rb.defined, NEW s, NEW id \in PipelineId, NEW n \in Name,
         NEW phase \in PhaseName,
         phase = IF FirstPhase(rb) = Nothing THEN "init" ELSE FirstPhase(rb),
         NEW t, t = << Persist(WorkspaceCreate(id, n)), WorktreeAdd(n),
                       Persist(PipelineCreate(id, n, phase)) >>
  PROVE  Creates(rb, s, t, id, n, phase)
<1>1. /\ Persist(WorkspaceCreate(id, n)) \in Effect
      /\ WorktreeAdd(n) \in Effect
      /\ Persist(PipelineCreate(id, n, phase)) \in Effect
  BY PersistTypes, EffectTypes
<1>2. /\ t \in Seq(Effect) /\ DOMAIN t = 1..3 /\ Len(t) = 3 /\ t # <<>>
      /\ t[1] = Persist(WorkspaceCreate(id, n))
      /\ t[2] = WorktreeAdd(n)
      /\ t[3] = Persist(PipelineCreate(id, n, phase))
  BY <1>1
<1>3. /\ Kind(t[1]) = "WorkspaceCreate" /\ Kind(t[2]) = "WorktreeAdd"
      /\ Kind(t[3]) = "PipelineCreate"
  BY <1>2, KindOf, OpOf
<1>4. /\ t[1].effect = "Persist" /\ t[1].operation.id = id /\ t[1].operation.name = n
      /\ t[2].effect = "WorktreeAdd" /\ t[2].name = n
      /\ t[3].effect = "Persist" /\ t[3].operation.id = id /\ t[3].operation.name = n
      /\ t[3].operation.phase = phase
  BY <1>2 DEF Persist, WorkspaceCreate, WorktreeAdd, PipelineCreate
<1>5. \A k \in DOMAIN t : k = 1 \/ k = 2 \/ k = 3
  BY <1>2
<1>6. 1 \in DOMAIN t /\ 2 \in DOMAIN t /\ 3 \in DOMAIN t
  BY <1>2
<1>7. \A k \in DOMAIN t :
        /\ About(t[k], id, n)
        /\ Kind(t[k]) \in Creating
        /\ Kind(t[k]) \in Moves => t[k].operation.phase = phase
  BY <1>3, <1>4, <1>5 DEF About, PlanKinds, Creating, Moves
<1>8. Ordered(t)
  <2>1. InOrder(t[1], t[2]) /\ InOrder(t[1], t[3]) /\ InOrder(t[2], t[3])
    BY <1>3 DEF InOrder, Place
  <2> QED BY <1>5, <2>1 DEF Ordered
<1>9. FollowsRunbook(rb, s, t, id)
  BY <1>3, <1>4, <1>5 DEF FollowsRunbook
<1>10. /\ Has(t, "WorkspaceCreate") /\ Has(t, "WorktreeAdd")
       /\ Has(t, "PipelineCreate") /\ Moved(t)
  BY <1>3, <1>6 DEF Has, Moved
<1> QED BY <1>2, <1>3, <1>4, <1>7, <1>8, <1>9, <1>10 DEF Creates

LEMMA CreateAsks ==
  ASSUME NEW rb \in RunbookType, NEW s, NEW id \in PipelineId, NEW n \in Name,
         NEW t, t = HandleCommand(rb, id, n)
  PROVE  /\ Asks(rb, s, t, id, n) /\ AlwaysSettles(rb, t, id)
         /\ t # << Abort >> =>
              Has(t, "WorkspaceCreate") /\ Has(t, "WorktreeAdd")
              /\ Has(t, "PipelineCreate")
<1>1. CASE ~rb.defined
  BY <1>1, SmallAsks DEF HandleCommand
<1>2. CASE rb.defined
  <2>1. PICK phase : phase = IF FirstPhase(rb) = Nothing THEN "init" ELSE FirstPhase(rb)
    OBVIOUS
  <2>2. phase \in PhaseName
    BY <2>1, FirstPhaseType, CoreAssumption
  <2>3. PICK a : a = << Persist(WorkspaceCreate(id, n)), WorktreeAdd(n),
                        Persist(PipelineCreate(id, n, phase)) >>
    OBVIOUS
  <2>4. Creates(rb, s, a, id, n, phase)
    BY <1>2, <2>1, <2>2, <2>3, CreatingCreates
  <2>5. CASE FirstPhase(rb) # Nothing
    <3>1. PICK b : b = StartPhase(rb, id, NewPipeline(n, phase), phase)
      OBVIOUS
    <3>2. Starts(rb, id, phase, b)
      BY <2>2, <3>1, NewPipelineExists, StartPhaseStarts
    <3>3. t = a \o b
      BY <1>2, <2>1, <2>3, <2>5, <3>1 DEF HandleCommand
    <3>4. Asks(rb, s, a \o b, id, n) /\ AlwaysSettles(rb, a \o b, id)
      BY <2>4, <3>2, MoveAndStart DEF Creates
    <3>5. b \in Seq(Effect)
      BY <3>2 DEF Starts
    <3> QED BY <2>4, <3>3, <3>4, <3>5, ConcatHas DEF Creates
  <2>6. CASE FirstPhase(rb) = Nothing
    <3>1. t = a
      <4>1. t = a \o <<>>
        BY <1>2, <2>1, <2>3, <2>6 DEF HandleCommand
      <4> QED BY <2>4, <4>1, ConcatEmptySeq DEF Creates
    <3>2. \A kind : Has(a, kind) => kind \in Creating
      BY <2>4 DEF Has, Creates
    <3>3. Plan(a, id, n) /\ ~Has(a, "Spawn") /\ ~Has(a, "Shell")
      BY <2>4, <3>2 DEF Plan, RunsMarked, Creating, Has, Creates
    <3>4. Asks(rb, s, a, id, n)
      BY <2>4, <3>3 DEF Asks, Creates
    <3>5. rb.phases = <<>> /\ phase = "init"
      <4>1. rb.phases # <<>> => rb.phases[1].name \in PhaseName
        <5> SUFFICES ASSUME rb.phases # <<>> PROVE rb.phases[1].name \in PhaseName
          OBVIOUS
        <5>1. rb.phases \in Seq(PhaseDef)
          BY DEF RunbookType
        <5>2. rb.phases[1] \in PhaseDef
          BY <5>1
        <5> QED BY <5>2 DEF PhaseDef
      <4> QED BY <2>1, <2>6, <4>1, CoreAssumption DEF FirstPhase
    <3>6. AlwaysSettles(rb, a, id)
      BY <2>4, <3>5 DEF AlwaysSettles, Settles, Creates
    <3> QED BY <2>4, <3>1, <3>4, <3>6 DEF Creates
  <2> QED BY <2>5, <2>6
<1> QED BY <1>1, <1>2

(* The other handlers create no pipeline.                                  *)
LEMMA NamelessPlan ==
  ASSUME NEW t \in Seq(Effect), NEW id, Plan(t, id, Nothing)
  PROVE  \A kind \in Creating : ~Has(t, kind)
<1> SUFFICES ASSUME NEW k \in DOMAIN t, Kind(t[k]) \in Creating PROVE FALSE
  BY DEF Has
<1>1. t[k] \in Effect /\ About(t[k], id, Nothing)
  BY DEF Plan
<1>2. CASE t[k].effect = "Persist"
  <2>1. t[k].operation \in Operation
    BY <1>1, <1>2 DEF Effect, Abort
  <2>2. /\ t[k].operation.op \in {"WorkspaceCreate", "PipelineCreate"} =>
             t[k].operation.name \in Name
        /\ t[k].operation.op # "WorktreeAdd"
    BY <2>1 DEF Operation
  <2> QED BY <1>1, <1>2, <2>2, CoreAssumption DEF About, Kind, Creating
<1>3. CASE t[k].effect # "Persist"
  <2>1. t[k].effect \notin {"WorkspaceCreate", "PipelineCreate"}
    BY <1>1 DEF Effect, Abort
  <2>2. t[k].effect = "WorktreeAdd"
    BY <1>3, <2>1 DEF Kind, Creating
  <2>3. t[k].name \in Name
    BY <1>1, <2>2 DEF Effect, Abort
  <2> QED BY <1>1, <1>3, <2>2, <2>3, CoreAssumption DEF About, Kind
<1> QED BY <1>2, <1>3

(* What the loop may rely on of the effects t of event e.                  *)
Unlinked(s) ==
  \A i \in PipelineId : Exists(s, i) =>
    s.pipelines[i].session = Nothing /\ s.pipelines[i].workspace = Nothing

Planned(rb, s, e, t, id, n) ==
  /\ id \in PipelineId \cup {Nothing} /\ n \in Name \cup {Nothing}
  /\ Asks(rb, s, t, id, n)
  /\ Has(t, "PipelineCreate") =>
       /\ e.event = "CommandInvoked" /\ id = e.id
       /\ Has(t, "WorkspaceCreate") /\ Has(t, "WorktreeAdd")
  /\ ~Has(t, "PipelineCreate") /\ (\E k \in DOMAIN t : Kind(t[k]) \in OnPipeline) =>
       Exists(s, id)
  /\ e.event \in {"CommandInvoked", "AgentDone", "AgentError", "ShellCompleted"} =>
       /\ id = e.id
       /\ t # <<>> => AlwaysSettles(rb, t, id)
       /\ t = <<>> => /\ e.event = "ShellCompleted"
                      /\ Exists(s, e.id) => s.pipelines[e.id].phase # e.phase

(* A handler that looks its pipeline up.                                   *)
LEMMA ExistsPlanned ==
  ASSUME NEW rb, NEW s, NEW e, NEW t, NEW id \in PipelineId,
         Asks(rb, s, t, id, Nothing), Exists(s, id),
         e.event \in {"AgentDone", "AgentError", "ShellCompleted"} =>
           id = e.id /\ t # <<>> /\ AlwaysSettles(rb, t, id),
         e.event # "CommandInvoked"
  PROVE  Planned(rb, s, e, t, id, Nothing)
BY NamelessPlan DEF Planned, Asks, Creating

LEMMA AbortPlanned ==
  ASSUME NEW rb, NEW s, NEW e, NEW id \in PipelineId \cup {Nothing},
         e.event \in {"AgentDone", "AgentError", "ShellCompleted"} => id = e.id,
         e.event # "CommandInvoked"
  PROVE  Planned(rb, s, e, << Abort >>, id, Nothing)
<1>1. Asks(rb, s, << Abort >>, id, Nothing) /\ AlwaysSettles(rb, << Abort >>, id)
  BY SmallAsks
<1>2. \A k \in DOMAIN << Abort >> : Kind(<< Abort >>[k]) = "Abort"
  BY KindOf
<1>3. << Abort >> # <<>>
  OBVIOUS
<1> HIDE DEF Abort
<1> QED BY <1>1, <1>2, <1>3 DEF Planned, OnPipeline, Has

LEMMA NothingPlanned ==
  ASSUME NEW rb, NEW s, NEW e, NEW id \in PipelineId \cup {Nothing},
         e.event = "ShellCompleted" =>
           id = e.id /\ (Exists(s, id) => s.pipelines[id].phase # e.phase),
         e.event \notin {"CommandInvoked", "AgentDone", "AgentError"}
  PROVE  Planned(rb, s, e, <<>>, id, Nothing)
<1>1. Asks(rb, s, <<>>, id, Nothing)
  BY SmallAsks
<1> QED BY <1>1 DEF Planned, Has

(* events::handle_custom_event, pipeline:resume.                           *)
LEMMA ResumeAsks ==
  ASSUME NEW rb, NEW s, NEW id \in PipelineId, NEW n,
         NEW t, t = << Persist(PhaseStatusUpdate(id, "Running")), SetTimer(id) >>
  PROVE  Asks(rb, s, t, id, n)
<1>1. /\ Persist(PhaseStatusUpdate(id, "Running")) \in Effect /\ SetTimer(id) \in Effect
  BY PersistTypes, EffectTypes DEF Statuses
<1>2. /\ t \in Seq(Effect) /\ DOMAIN t = 1..2
      /\ t[1] = Persist(PhaseStatusUpdate(id, "Running")) /\ t[2] = SetTimer(id)
  BY <1>1
<1>3. Kind(t[1]) = "PhaseStatusUpdate" /\ Kind(t[2]) = "SetTimer"
  BY <1>2, KindOf, OpOf
<1>4. /\ t[1].effect = "Persist" /\ t[1].operation.id = id
      /\ t[1].operation.status = "Running"
      /\ t[2].effect = "SetTimer" /\ t[2].id = id
  BY <1>2 DEF Persist, PhaseStatusUpdate, SetTimer
<1>5. \A k \in DOMAIN t : k = 1 \/ k = 2
  BY <1>2
<1> HIDE DEF Persist, PhaseStatusUpdate, SetTimer
<1>6. \A k \in DOMAIN t :
        /\ Kind(t[k]) \in {"PipelineTransition", "PhaseStatusUpdate", "SetTimer",
                           "Send", "Abort"}
        /\ About(t[k], id, n)
        /\ Kind(t[k]) = "PhaseStatusUpdate" => t[k].operation.status = "Running"
  BY <1>3, <1>4, <1>5 DEF About, PlanKinds
<1>7. Ordered(t)
  <2>1. InOrder(t[1], t[2])
    BY <1>3 DEF InOrder, Place
  <2> QED BY <1>5, <2>1 DEF Ordered
<1>8. FollowsRunbook(rb, s, t, id) /\ ~Moved(t)
  BY <1>3, <1>4, <1>5 DEF FollowsRunbook, Moved, Has
<1> QED BY <1>2, <1>6, <1>7, <1>8, UpdatesAsk

LEMMA CommandPlanned ==
  ASSUME NEW rb \in RunbookType, NEW s, NEW e \in Event, NEW seen,
         e.event = "CommandInvoked",
         NEW t, t = HandleEvent(rb, s, e, seen)
  PROVE  \E id, n : Planned(rb, s, e, t, id, n)
<1>1. e.id \in PipelineId /\ e.name \in Name
  BY DEF Event
<1>2. t = HandleCommand(rb, e.id, e.name)
  BY DEF HandleEvent
<1>3. /\ Asks(rb, s, t, e.id, e.name) /\ AlwaysSettles(rb, t, e.id)
      /\ t # << Abort >> =>
           Has(t, "WorkspaceCreate") /\ Has(t, "WorktreeAdd")
           /\ Has(t, "PipelineCreate")
  BY <1>1, <1>2, CreateAsks
<1>4. \A k \in DOMAIN << Abort >> : Kind(<< Abort >>[k]) \notin OnPipeline \cup Creating
  <2>1. \A k \in DOMAIN << Abort >> : Kind(<< Abort >>[k]) = "Abort"
    BY KindOf
  <2> QED BY <2>1 DEF OnPipeline, Creating
<1>5. t # <<>>
  BY <1>3 DEF AlwaysSettles, Settles
<1> HIDE DEF Abort
<1>6. Planned(rb, s, e, t, e.id, e.name)
  BY <1>1, <1>3, <1>4, <1>5 DEF Planned, Has, Creating
<1> QED BY <1>6

LEMMA AgentPlanned ==
  ASSUME NEW rb \in RunbookType, NEW s \in State, Unlinked(s), NEW e \in Event,
         NEW seen,
         e.event \in {"AgentDone", "AgentError", "ShellCompleted"},
         NEW t, t = HandleEvent(rb, s, e, seen)
  PROVE  \E id, n : Planned(rb, s, e, t, id, n)
<1>1. e.id \in PipelineId
  BY DEF Event
<1>2. CASE ~Exists(s, e.id)
  <2>1. t = << Abort >>
    BY <1>2 DEF HandleEvent, HandleAgentDone, HandleAgentError, HandleShellCompleted
  <2>2. Planned(rb, s, e, << Abort >>, e.id, Nothing)
    BY <1>1, AbortPlanned
  <2> QED BY <2>1, <2>2
<1>3. CASE Exists(s, e.id)
  <2>1. s.pipelines[e.id] \in Pipeline /\ s.pipelines[e.id].session = Nothing
    BY <1>1, <1>3, FoundType DEF Unlinked
  <2>2. CASE t = AdvancePipeline(rb, e.id, s.pipelines[e.id])
    <3>1. Asks(rb, s, t, e.id, Nothing) /\ AlwaysSettles(rb, t, e.id)
      BY <1>1, <2>1, <2>2, AdvanceAsks
    <3>2. t # <<>>
      BY <3>1 DEF AlwaysSettles, Settles
    <3>3. Planned(rb, s, e, t, e.id, Nothing)
      BY <1>1, <1>3, <3>1, <3>2, ExistsPlanned
    <3> QED BY <3>3
  <2>3. CASE t = FailPipeline(rb, e.id, s.pipelines[e.id])
    <3>1. Asks(rb, s, t, e.id, Nothing) /\ AlwaysSettles(rb, t, e.id)
      BY <1>1, <2>1, <2>3, FailAsks
    <3>2. t # <<>>
      BY <3>1 DEF AlwaysSettles, Settles
    <3>3. Planned(rb, s, e, t, e.id, Nothing)
      BY <1>1, <1>3, <3>1, <3>2, ExistsPlanned
    <3> QED BY <3>3
  <2>4. CASE e.event = "ShellCompleted" /\ s.pipelines[e.id].phase # e.phase
    <3>1. t = <<>>
      BY <1>3, <2>4 DEF HandleEvent, HandleShellCompleted
    <3>2. Planned(rb, s, e, <<>>, e.id, Nothing)
      BY <1>1, <2>4, NothingPlanned
    <3> QED BY <3>1, <3>2
  <2> QED BY <1>3, <2>2, <2>3, <2>4
        DEF HandleEvent, HandleAgentDone, HandleAgentError, HandleShellCompleted
<1> QED BY <1>2, <1>3

LEMMA OtherPlanned ==
  ASSUME NEW rb \in RunbookType, NEW s \in State, Unlinked(s), NEW e \in Event,
         NEW seen,
         e.event \in {"SessionExited", "Timer", "pipeline:resume", "session:send"},
         NEW t, t = HandleEvent(rb, s, e, seen)
  PROVE  \E id, n : Planned(rb, s, e, t, id, n)
<1>1. CASE t = << Abort >>
  <2>1. Planned(rb, s, e, << Abort >>, Nothing, Nothing)
    BY AbortPlanned
  <2> QED BY <1>1, <2>1
<1>2. CASE t = <<>>
  <2>1. Planned(rb, s, e, <<>>, Nothing, Nothing)
    BY NothingPlanned
  <2> QED BY <1>2, <2>1
<1>3. CASE e.event = "SessionExited"
  <2>1. e.session # Nothing
    BY <1>3, CoreAssumption DEF Event
  <2>2. {i \in PipelineId : Exists(s, i) /\ s.pipelines[i].session = e.session} = {}
    BY <2>1 DEF Unlinked
  <2>3. t = <<>>
    BY <1>3, <2>2 DEF HandleEvent, HandleSessionExit
  <2> QED BY <1>2, <2>3
<1>4. CASE e.event = "Timer"
  <2>1. e.id \in PipelineId
    BY <1>4 DEF Event
  <2>2. Exists(s, e.id) => s.pipelines[e.id].workspace = Nothing
    BY <2>1 DEF Unlinked
  <2>3. t = << Abort >> \/ t = <<>>
    BY <1>4, <2>2 DEF HandleEvent, HandleTimer
  <2> QED BY <1>1, <1>2, <2>3
<1>5. CASE e.event = "pipeline:resume"
  <2>1. e.id \in PipelineId
    BY <1>5 DEF Event
  <2>2. CASE Exists(s, e.id)
    <3>1. t = << Persist(PhaseStatusUpdate(e.id, "Running")), SetTimer(e.id) >>
      BY <1>5, <2>2 DEF HandleEvent, HandleResume
    <3>2. Asks(rb, s, t, e.id, Nothing)
      BY <2>1, <3>1, ResumeAsks
    <3>3. Planned(rb, s, e, t, e.id, Nothing)
      BY <1>5, <2>1, <2>2, <3>2, ExistsPlanned
    <3> QED BY <3>3
  <2>3. CASE ~Exists(s, e.id)
    <3>1. t = << Abort >>
      BY <1>5, <2>3 DEF HandleEvent, HandleResume
    <3> QED BY <1>1, <3>1
  <2> QED BY <2>2, <2>3
<1>6. CASE e.event = "session:send"
  <2>1. e.session \in SessionId
    BY <1>6 DEF Event
  <2>2. t = << Send(e.session) >>
    BY <1>6 DEF HandleEvent
  <2>3. Asks(rb, s, << Send(e.session) >>, Nothing, Nothing)
    BY <2>1, SmallAsks
  <2>4. \A k \in DOMAIN << Send(e.session) >> :
          Kind(<< Send(e.session) >>[k]) = "Send"
    BY KindOf
  <2>5. Planned(rb, s, e, t, Nothing, Nothing)
    BY <1>6, <2>2, <2>3, <2>4 DEF Planned, Has, OnPipeline
  <2> QED BY <2>5
<1> QED BY <1>3, <1>4, <1>5, <1>6

LEMMA HandlerPlanned ==
  ASSUME NEW rb \in RunbookType, NEW s \in State, Unlinked(s), NEW e \in Event,
         NEW seen, e.event \notin {"TmuxExited", "ClaudeExited"},
         NEW t, t = HandleEvent(rb, s, e, seen)
  PROVE  \E id, n : Planned(rb, s, e, t, id, n)
<1>1. e.event \in {"CommandInvoked", "AgentDone", "AgentError", "ShellCompleted",
                   "SessionExited", "Timer", "pipeline:resume", "session:send"}
  BY DEF Event
<1> QED BY <1>1, CommandPlanned, AgentPlanned, OtherPlanned
=============================================================================
