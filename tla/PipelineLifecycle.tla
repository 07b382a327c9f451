-------------------------- MODULE PipelineLifecycle --------------------------
(***************************************************************************)
(* What the engine promises about one record after another in its log: the *)
(* life of a pipeline as the runbook lays it out, with no events, effects, *)
(* crashes or clients.  A pipeline is created in its first phase, moves    *)
(* only where the runbook, or a failure, leads from the phase it is in, is *)
(* marked Completed only in a phase that ends it, and is never forgotten   *)
(* nor given another name.                                                 *)
(***************************************************************************)
EXTENDS Runbook

CONSTANT Runbooks

VARIABLES runbook, pipelines

lvars == <<runbook, pipelines>>

(* Success in a phase leads to the next one, and to "done" where there is  *)
(* none; failure to the on_fail phase, and to "failed" where there is none.*)
(* The move to "done" may be recorded twice.                               *)
Successors(name) ==
  LET next == NextPhaseName(runbook, name)
      fail == OnFail(runbook, name)
  IN  {IF next = Nothing \/ name = "done" THEN "done" ELSE next,
       IF fail = Nothing THEN "failed" ELSE fail}

LInit == /\ runbook \in Runbooks
         /\ pipelines = [i \in PipelineId |-> Nothing]

Create(id, name) ==
  /\ pipelines[id] = Nothing
  /\ runbook.defined
  /\ \A i \in PipelineId : pipelines[i] # Nothing => pipelines[i].name # name
  /\ pipelines' = [pipelines EXCEPT ![id] =
       NewPipeline(name, IF FirstPhase(runbook) = Nothing
                         THEN "init" ELSE FirstPhase(runbook))]
  /\ UNCHANGED runbook

Move(id, phase) ==
  /\ pipelines[id] # Nothing
  /\ phase \in Successors(pipelines[id].phase)
  /\ pipelines' = [pipelines EXCEPT ![id] =
                     [@ EXCEPT !.phase = phase, !.status = "Pending"]]
  /\ UNCHANGED runbook

(* A phase starts, or `oj pipeline resume' says it goes on.                *)
Run(id) ==
  /\ pipelines[id] # Nothing
  /\ pipelines' = [pipelines EXCEPT ![id] = [@ EXCEPT !.status = "Running"]]
  /\ UNCHANGED runbook

Complete(id) ==
  /\ pipelines[id] # Nothing
  /\ pipelines[id].phase \in TerminalPhases
  /\ pipelines' = [pipelines EXCEPT ![id] = [@ EXCEPT !.status = "Completed"]]
  /\ UNCHANGED runbook

(* The daemon starts again, and reads the runbook again.                   *)
Reload == runbook' \in Runbooks /\ UNCHANGED pipelines

LNext ==
  \/ \E id \in PipelineId, name \in Name : Create(id, name)
  \/ \E id \in PipelineId, phase \in PhaseName : Move(id, phase)
  \/ \E id \in PipelineId : Run(id) \/ Complete(id)
  \/ Reload

LSpec == LInit /\ [][LNext]_lvars
=============================================================================
