------------------------------ MODULE Runbook ------------------------------
(***************************************************************************)
(* The part of a runbook that decides what a pipeline does next: its       *)
(* ordered phases with their `next' and `on_fail', and the actions an      *)
(* agent definition attaches to an idle, exited or failing agent           *)
(* (crates/runbook/src/pipeline.rs, agent.rs).                             *)
(*                                                                         *)
(* A runbook is a value of the system, not a constant of it: the daemon    *)
(* reads the files again each time it starts, and they may have changed.   *)
(* One pipeline kind is modelled, so a runbook is                          *)
(*   [defined |-> does it define the pipeline kind and its command,        *)
(*    phases  |-> the sequence of its phase definitions,                   *)
(*    agents  |-> the definition of each agent, Nothing if there is none]  *)
(***************************************************************************)
EXTENDS Core

CONSTANT AgentName    \* the agent names phases refer to

RunKinds == {"shell", "agent", "pipeline", "strategy"}

PhaseDef == [name   : PhaseName,
             run    : RunKinds,
             agent  : AgentName,                \* read when run = "agent"
             next   : PhaseName \cup {Nothing},
             onFail : PhaseName \cup {Nothing}]

Actions == {"nudge", "done", "fail", "restart", "recover", "escalate"}

ErrorTypes == {"unauthorized", "out_of_credits", "no_internet", "rate_limited"}

(* An error rule matches one type of error, or every error ("any").        *)
ErrorRule == [match : ErrorTypes \cup {"any"}, action : Actions]

AgentDef == [onIdle : Actions, onExit : Actions, onError : Seq(ErrorRule)]

RunbookType == [defined : BOOLEAN,
                phases  : Seq(PhaseDef),
                agents  : [AgentName -> AgentDef \cup {Nothing}]]

-----------------------------------------------------------------------------
(* Phases of the pipeline definition.                                      *)

PhaseIndices(rb, name) == {i \in DOMAIN rb.phases : rb.phases[i].name = name}

HasPhase(rb, name) == rb.defined /\ PhaseIndices(rb, name) # {}

(* The first definition of that name, as Iterator::find returns it.        *)
PhaseIndex(rb, name) ==
  CHOOSE i \in PhaseIndices(rb, name) :
    \A j \in PhaseIndices(rb, name) : i <= j

GetPhase(rb, name) == rb.phases[PhaseIndex(rb, name)]

FirstPhase(rb) == IF rb.phases = <<>> THEN Nothing ELSE rb.phases[1].name

(* The phase listed after the definition of that name, if there is one.    *)
PhaseAfter(rb, name) ==
  IF PhaseIndex(rb, name) + 1 \in DOMAIN rb.phases
  THEN rb.phases[PhaseIndex(rb, name) + 1].name
  ELSE Nothing

(* Where success in phase `name' leads: the explicit next, whether or not  *)
(* it names a phase of the runbook, else the sequential one, else none.    *)
NextPhaseName(rb, name) ==
  IF ~HasPhase(rb, name) THEN Nothing
  ELSE IF GetPhase(rb, name).next # Nothing THEN GetPhase(rb, name).next
  ELSE PhaseAfter(rb, name)

(* Where failure in phase `name' leads, if the runbook says.               *)
OnFail(rb, name) ==
  IF HasPhase(rb, name) THEN GetPhase(rb, name).onFail ELSE Nothing

-----------------------------------------------------------------------------
(* Agents.                                                                 *)

HasAgent(rb, agent) == rb.agents[agent] # Nothing

(* ErrorActionConfig::action_for: the first rule that matches the type of  *)
(* the error or every error; an error of no known type ("other") matches   *)
(* only a catch-all; no match escalates.                                   *)
ActionFor(rules, error) ==
  LET matching == {i \in DOMAIN rules : rules[i].match \in {error, "any"}}
  IN  IF matching = {} THEN "escalate"
      ELSE rules[CHOOSE i \in matching : \A j \in matching : i <= j].action
=============================================================================
