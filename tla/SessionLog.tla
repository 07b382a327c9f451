----------------------------- MODULE SessionLog -----------------------------
(***************************************************************************)
(* What the daemon reads off the log that claude keeps of a session: its   *)
(* last line that is not blank, and nothing before it                      *)
(* (crates/engine/src/session_log.rs, monitor.rs).                         *)
(*                                                                         *)
(* Which file is read is left open: find_session_log looks in a directory  *)
(* named by a hash, and falls back on the newest file there, so that a     *)
(* line may come from any session of the workspace; and there may be none. *)
(***************************************************************************)
EXTENDS Core

(* The texts that detect_error looks for, in the order it looks for them.  *)
Indications == <<"unauthorized", "out_of_credits", "no_internet", "rate_limited">>

(* A line: the indications in its error text, if it has one, whether at    *)
(* the top or in its message; its type; and the stop_reason of its message.*)
LogLine == [json  : BOOLEAN,
            error : SUBSET (1..4) \cup {Nothing},
            type  : {"assistant", "user", "other"},
            stop  : {"end_turn", "tool_use", "other"}]

(* An error text may hold several of them: the first one looked for counts.*)
DetectError(found) ==
  IF found = {} THEN "other"
  ELSE Indications[CHOOSE i \in found : \A j \in found : i <= j]

(* SessionLogWatcher::check_state; Nothing is a file with no line in it.   *)
(* An error counts whatever the type of its line.                          *)
CheckState(line) ==
  IF line = Nothing THEN "unknown"
  ELSE IF ~line.json THEN "unknown"
  ELSE IF line.error # Nothing THEN DetectError(line.error)
  ELSE IF line.type = "assistant" /\ line.stop = "end_turn" THEN "waiting"
  ELSE IF line.type = "assistant" /\ line.stop = "tool_use" THEN "working"
  ELSE IF line.type = "user" THEN "working"
  ELSE "unknown"

(* What handle_session_monitor may see: no log, or the state of one.       *)
LogStates == {"missing"} \cup {CheckState(line) : line \in LogLine \cup {Nothing}}
=============================================================================
