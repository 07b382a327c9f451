------------------------- MODULE LifecycleInvariants -------------------------
(***************************************************************************)
(* The inductive invariants behind the properties of DaemonLifecycle.      *)
(*                                                                         *)
(* LockInv: a daemon has the pid file open from the step that opens it to  *)
(* its end, and has it locked from the step that takes the lock; a file is *)
(* locked once at a time; and until somebody removes a pid file another    *)
(* has open, the open ones are all the one at the path, but for that of a  *)
(* daemon that has removed it as the last but one step of its shutdown.    *)
(*                                                                         *)
(* QuietInv: while nothing interferes with commands run one after another, *)
(* a daemon that could have a hand on the socket or the pid file is alone; *)
(* it is started by a command that watches it, asked to stop by one that   *)
(* awaits its end, or it serves.                                           *)
(***************************************************************************)
EXTENDS DaemonLifecycle

HoldingSteps == LockedSteps \cup {"serving"} \cup ShutdownSteps
OpenSteps    == {"lock"} \cup HoldingSteps

FilesOpen == \A d \in Daemon :
  /\ daemon[d].file # Nobody <=> daemon[d].pc \in OpenSteps
  /\ daemon[d].locked <=> daemon[d].pc \in HoldingSteps

OneLockPerFile == \A d, e \in Daemon :
  daemon[d].locked /\ daemon[e].locked /\ daemon[d].file = daemon[e].file
    => d = e

OpenFilesNamed ==
  ~stolen => \A d \in Daemon :
    daemon[d].pc \in OpenSteps \ {"remove version"} => daemon[d].file = pidFile

LockInv == TypeOK /\ FilesOpen /\ OneLockPerFile /\ OpenFilesNamed

-----------------------------------------------------------------------------

Starting == {"create", "lock"} \cup LockedSteps \cup CleanupSteps
Stopping == {"remove socket", "remove pid"}
Active   == {d \in Daemon : daemon[d].pc \in Starting \cup {"serving"} \cup Stopping}

OneAtATime ==
  /\ \A b, c \in AtWork : b = c
  /\ \A d, e \in Active : d = e

(* The command that starts a daemon found no socket, or starts it by hand. *)
Watches(c, d) ==
  /\ client[c].child = d
  /\ IF client[c].op = "foreground" THEN client[c].pc = "child"
     ELSE client[c].pc \in {"child", "socket"} /\ socket = Nobody

(* The command that stops a daemon waits for the process in the pid file.  *)
Awaits(c, d) ==
  \/ client[c].pc = "pid" /\ client[c].asked
  \/ client[c].pc = "exit" /\ client[c].pid = d

(* A command that talks, does so with the daemon that serves; one that is  *)
(* done talking has no daemon that serves behind its back.                 *)
TalksTo(c, d) ==
  /\ client[c].pc = "reply" => client[c].peer = d
  /\ client[c].pc \notin {"pid", "exit", "kill", "tidy"}

Accounted == \A d \in Active :
  /\ daemon[d].pc \in Starting => \E c \in AtWork : Watches(c, d)
  /\ daemon[d].pc \in Stopping => \E c \in AtWork : Awaits(c, d)
  /\ daemon[d].pc = "serving"  => \A c \in AtWork : TalksTo(c, d)

(* The files of the daemon that is active.                                 *)
HasFiles(d) ==
  /\ daemon[d].pc \in {"lock", "pid"} =>
       pidFile # Nobody /\ daemon[d].file = pidFile
  /\ daemon[d].pc \in (LockedSteps \ {"pid"}) \cup {"serving"} \cup Stopping =>
       pidFile # Nobody /\ text[pidFile] = d
  /\ daemon[d].pc = "serving" => socket = d

(* Undisturbed, one daemon at most has a hand on the files, they are its   *)
(* own, and the command at work started it, awaits its end or talks to it. *)
(* startup_inner, shutdown, start_daemon_background, daemon_stop.          *)
QuietInv ==
  ~disturbed => OneAtATime /\ Accounted /\ \A d \in Active : HasFiles(d)

-----------------------------------------------------------------------------

(* A pid file was made by a daemon that has started.                       *)
MadeByStarted == \A d \in Daemon :
  daemon[d].pc \in {"unborn", "create"} =>
    pidFile # d /\ \A e \in Daemon : daemon[e].file # d

(* A daemon whose pid file is gone has nothing to do with the next one.    *)
TraceGone == \A d \in Daemon :
  daemon[d].pc = "remove version" /\ pidFile # Nobody =>
    text[pidFile] # d /\ daemon[d].file # pidFile

(* Undisturbed, whatever process a command is about to kill is gone; and   *)
(* the daemons on their way out have no part in the pid file at the path.  *)
HarmInv == MadeByStarted /\ TraceGone /\ NobodyHarmed
=============================================================================
