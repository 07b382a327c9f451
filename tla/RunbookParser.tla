--------------------------- MODULE RunbookParser ---------------------------
(***************************************************************************)
(* How the text of the project's runbooks becomes a Runbook: parse_runbook *)
(* (crates/runbook/src/parser.rs), the directives (command.rs), the        *)
(* defaults of an agent (agent.rs), and load_runbook of the daemon         *)
(* (lifecycle.rs), which reads every .toml file as if they were one.       *)
(*                                                                         *)
(* A file is a function from the tables it has to their contents.  The     *)
(* tables are "command", "pipeline" and the agents' names; there is one    *)
(* command and one kind of pipeline, as in Runbook.  A key that is absent, *)
(* or that the parser reads with as_str and does not find a string, is     *)
(* Nothing.  Left out: workers, and the inputs and defaults of a pipeline, *)
(* which are parsed and used by nobody.                                    *)
(***************************************************************************)
EXTENDS Runbook

(* The value of a `run' key: absent, a string, or a table with some keys,  *)
(* of which `agent' names an agent.                                        *)
NoRun         == [form |-> "absent"]
RunString     == [form |-> "string"]
RunTable(keys, agent) == [form |-> "table", keys |-> keys, agent |-> agent]

(* RunDirective, an untagged enum: the first variant that the value fits,  *)
(* whatever other keys there are.  "refused" if there is none.             *)
Directive(run) ==
  LET keys == IF run.form = "table" THEN run.keys ELSE {}
  IN  IF run.form = "string"      THEN "shell"
      ELSE IF "pipeline" \in keys THEN "pipeline"
      ELSE IF "agent"    \in keys THEN "agent"
      ELSE IF "strategy" \in keys THEN "strategy"
      ELSE "refused"

-----------------------------------------------------------------------------
(* Phases.  A phase that does not parse is passed over without a word:     *)
(* parse_pipeline keeps those that do (filter_map over ok).                *)

(* The legacy key `agent' of a phase counts if there is no `run'.          *)
PhaseRun(raw) ==
  IF raw.run.form = "absent" /\ raw.agent # Nothing THEN "agent"
  ELSE Directive(raw.run)

PhaseParses(raw) == raw.name # Nothing /\ PhaseRun(raw) # "refused"

PhaseAgent(raw) ==
  IF raw.run.form = "table" THEN raw.run.agent
  ELSE IF raw.agent # Nothing THEN raw.agent
  ELSE CHOOSE a \in AgentName : TRUE                          \* never read

ParsePhase(raw) ==
  [name |-> raw.name, run |-> PhaseRun(raw), agent |-> PhaseAgent(raw),
   next |-> raw.next, onFail |-> raw.onFail]

(* The array `phase', or else the array `phases', or no phase at all.      *)
RawPhases(raw) ==
  IF raw.phase # Nothing THEN raw.phase
  ELSE IF raw.phases # Nothing THEN raw.phases ELSE <<>>

ParsePipeline(raw) ==
  LET kept == SelectSeq(RawPhases(raw), PhaseParses)
  IN  [i \in DOMAIN kept |-> ParsePhase(kept[i])]

-----------------------------------------------------------------------------
(* Commands and agents.  One that does not parse fails the whole runbook.  *)

CommandParses(raw) == Directive(raw.run) # "refused" /\ raw.args

(* An agent must have a command to run, and actions that exist; `onError'  *)
(* is a list of rules, a single action being a rule for every error.       *)
AgentParses(raw) ==
  /\ raw.run.form = "string"
  /\ {raw.onIdle, raw.onExit} \subseteq Actions \cup {Nothing}
  /\ raw.onError = Nothing \/ raw.onError \in Seq(ErrorRule)

OrElse(value, default) == IF value = Nothing THEN default ELSE value

ParseAgent(raw) ==
  [onIdle  |-> OrElse(raw.onIdle, "nudge"),
   onExit  |-> OrElse(raw.onExit, "escalate"),
   onError |-> OrElse(raw.onError, <<[match |-> "any", action |-> "escalate"]>>)]

-----------------------------------------------------------------------------
(* The files of a project, in the order the directory gives them.  A table *)
(* that two of them have is an error of the TOML text they make together.  *)

TablesOf(files) == UNION {DOMAIN files[i] : i \in DOMAIN files}

Table(files, key) ==
  files[CHOOSE i \in DOMAIN files : key \in DOMAIN files[i]][key]

Parses(files) ==
  /\ \A i, j \in DOMAIN files : i # j => DOMAIN files[i] \cap DOMAIN files[j] = {}
  /\ \A key \in TablesOf(files) :
       CASE key = "command"   -> CommandParses(Table(files, key))
         [] key = "pipeline"  -> TRUE
         [] key \in AgentName -> AgentParses(Table(files, key))

LoadRunbook(files) ==
  LET tables == TablesOf(files) IN
  [defined |-> /\ {"command", "pipeline"} \subseteq tables
               /\ Directive(Table(files, "command").run) = "pipeline",
   phases  |-> IF "pipeline" \in tables
               THEN ParsePipeline(Table(files, "pipeline")) ELSE <<>>,
   agents  |-> [a \in AgentName |->
                 IF a \in tables THEN ParseAgent(Table(files, a)) ELSE Nothing]]

(* The runbooks that daemons get: a project whose files do not parse keeps *)
(* its daemon from starting.                                               *)
Loaded(projects) == {LoadRunbook(files) : files \in {f \in projects : Parses(f)}}
=============================================================================
