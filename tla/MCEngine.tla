------------------------------ MODULE MCEngine ------------------------------
(***************************************************************************)
(* Projects for the instances of Engine that TLC checks: their runbooks are*)
(* what the parser makes of their files.                                   *)
(***************************************************************************)
EXTENDS EnginePlans, RunbookParser, TLC

(* Pipelines, and names, are interchangeable.                              *)
Symmetry == Permutations(PipelineId) \cup Permutations(Name)

MCPhaseNames ==
  {"init", "done", "failed", "plan", "check", "repair", "missing"}

(* What the runbook files say.  A phase of a shell command, and one of an  *)
(* agent, written in the old way and in the new.                           *)
Phase(name, run, agent, next, onFail) ==
  [name |-> name, run |-> run, agent |-> agent, next |-> next, onFail |-> onFail]

ShellPhase(name, next, onFail) == Phase(name, RunString, Nothing, next, onFail)
OldAgentPhase(name, next, onFail) == Phase(name, NoRun, "coder", next, onFail)
AgentPhase(name, next, onFail) ==
  Phase(name, RunTable({"agent"}, "coder"), Nothing, next, onFail)

Command(keys) == [run |-> RunTable(keys, "coder"), args |-> TRUE]

Agents ==
  [coder |-> [run |-> RunString, onIdle |-> Nothing, onExit |-> "restart",
              onError |-> << [match |-> "rate_limited", action |-> "restart"],
                             [match |-> "any", action |-> "escalate"] >>]]

(* A project of two files, with the phases under either key.               *)
Pipelines(phases) ==
  [command |-> Command({"pipeline"}), pipeline |-> [phase |-> phases, phases |-> Nothing]]
OldPipelines(phases) ==
  [command |-> Command({"pipeline"}), pipeline |-> [phase |-> Nothing, phases |-> phases]]

(* Shell phases only: the second one's failure is repaired, and the repair *)
(* ends the pipeline.                                                      *)
ShellProject == << Agents, OldPipelines(<<
  ShellPhase("plan", Nothing, Nothing),
  ShellPhase("check", "done", "repair"),
  ShellPhase("repair", "failed", Nothing) >>) >>

(* An agent works, its work is checked, and another repairs it.            *)
AgentProject == << Pipelines(<<
  AgentPhase("plan", Nothing, Nothing),
  ShellPhase("check", "done", "repair"),
  OldAgentPhase("repair", Nothing, Nothing) >>), Agents >>

(* A second version of it, read by a daemon that starts later.             *)
RevisedProject == << Agents, Pipelines(<<
  AgentPhase("plan", "done", "check"),
  ShellPhase("check", Nothing, Nothing) >>) >>

(* Projects the parser accepts and the runtime cannot run to the end: a    *)
(* next that names a phase whose own definition was passed over, and a     *)
(* strategy; an agent nobody defines; no phase at all; and a command whose *)
(* pipeline is not defined.                                                *)
BrokenProjects == {
  << Agents, Pipelines(<<
       ShellPhase("plan", Nothing, "repair"),
       ShellPhase("check", "missing", "repair"),
       Phase("missing", RunTable({"script"}, "coder"), Nothing, Nothing, Nothing),
       Phase("repair", RunTable({"strategy"}, "coder"), Nothing, Nothing, Nothing) >>) >>,
  << Pipelines(<< AgentPhase("plan", Nothing, Nothing) >>) >>,
  << Agents, Pipelines(<<>>) >>,
  << [command |-> Command({"pipeline"})], Agents >> }

(* Projects that start no daemon: an agent without a command, a command    *)
(* that runs nothing, and two files that define one agent.                 *)
RefusedProjects == {
  << [coder |-> [Agents.coder EXCEPT !.run = NoRun]] >>,
  << [command |-> Command({})] >>,
  << Agents, Agents >> }

AgentOnly    == Loaded({AgentProject})
AcyclicBooks == Loaded({ShellProject, AgentProject, RevisedProject})
AllBooks     == Loaded({AgentProject} \cup BrokenProjects \cup RefusedProjects)

AllRequests == RequestKinds
RunOnly     == {"CommandInvoked"}
EndRequests == {"CommandInvoked", "AgentDone", "PipelineFail"}
=============================================================================
