--------------------------- MODULE DaemonLifecycle ---------------------------
(***************************************************************************)
(* Daemons and clients of one project, and the three files they meet over: *)
(* the socket, the pid file, which is also the lock, and the version file  *)
(* (crates/daemon/src/lifecycle.rs and main.rs, crates/cli/src/client.rs   *)
(* and commands/daemon.rs).                                                *)
(*                                                                         *)
(* Nothing but the lock orders the processes: every step below is one      *)
(* access to the files of a process that does not know what the others do. *)
(* A path names the process that made what is there; a pid file that was   *)
(* removed while somebody has it open goes on as a file without a name,    *)
(* and its lock with it.  (A test that a path exists and its removal       *)
(* together, and the write of the version file, are one step.)             *)
(***************************************************************************)
EXTENDS Naturals

CONSTANTS
  Daemon,       \* daemon processes, each started at most once
  Client,       \* users, each of whom runs one command after another
  Nobody,       \* no process; a path at which there is nothing
  Old,          \* a daemon of another release, which may serve first
  Ops,          \* the kinds of command users run
  MaxCommands,  \* bound: commands run
  MaxFaults,    \* bound: steps of a startup that fail
  MaxCrashes,   \* bound: daemons that crash
  MaxSignals,   \* bound: daemons that are sent SIGTERM or SIGINT
  MaxTimeouts   \* bound: time limits of clients that run out

Operations == {"run", "start", "stop", "foreground"}

ASSUME DaemonAssumption ==
  /\ Nobody \notin Daemon /\ Old \in Daemon
  /\ Ops \subseteq Operations
  /\ MaxCommands \in Nat /\ MaxFaults \in Nat
  /\ MaxCrashes \in Nat /\ MaxSignals \in Nat
  /\ MaxTimeouts \in Nat

VARIABLES
  socket,     \* who bound the socket at its path
  pidFile,    \* who created the pid file at its path
  version,    \* who wrote the version file
  text,       \* text[d]: the pid in the file that d created
  daemon,     \* daemon[d]: where it is, the pid file it opened, its lock
  client,     \* client[c]: where its command is, what it knows, how it ended
  stolen,     \* history: was a pid file removed that another daemon had open?
  disturbed,  \* history: did more than one command at a time, a signal, a
              \* time limit or a start by hand interfere?
  commands, faults, crashes, signals, timeouts

files == <<socket, pidFile, version, text>>
boundVars == <<commands, faults, crashes, signals, timeouts>>
vars == <<files, daemon, client, stolen, disturbed, boundVars>>

Process == Daemon \cup {Nobody}

(* A command that begins, but for what it is and where it begins.          *)
NoCommand == [pc |-> "idle", op |-> "none", child |-> Nobody, peer |-> Nobody,
              asked |-> FALSE, pid |-> Nobody, outcome |-> "none"]

(* The steps of startup_inner past the lock, of cleanup_on_failure, and of *)
(* DaemonState::shutdown.                                                  *)
LockedSteps   == {"pid", "version", "load", "unlink", "bind"}
CleanupSteps  == {"cleanup socket", "cleanup version", "cleanup pid"}
ShutdownSteps == {"remove socket", "remove pid", "remove version"}

DaemonPc == {"unborn", "create", "lock", "serving", "dead"}
            \cup LockedSteps \cup CleanupSteps \cup ShutdownSteps

ClientPc == {"idle", "status", "version", "connect", "child", "socket",
             "send", "reply", "pid", "exit", "kill", "tidy"}

Outcomes == {"none", "ok", "panicked", "start failed", "refused", "lost",
             "timeout", "stopped", "not running"}

TypeOK ==
  /\ socket \in Process /\ pidFile \in Process /\ version \in Process
  /\ text \in [Daemon -> Process]
  /\ daemon \in [Daemon -> [pc : DaemonPc, file : Process, locked : BOOLEAN]]
  /\ client \in [Client -> [pc : ClientPc, op : Operations \cup {"none"},
                            child : Process, peer : Process, asked : BOOLEAN,
                            pid : Process, outcome : Outcomes]]
  /\ stolen \in BOOLEAN /\ disturbed \in BOOLEAN
  /\ commands \in Nat /\ faults \in Nat
  /\ crashes \in Nat /\ signals \in Nat /\ timeouts \in Nat

(* Either nothing was ever started, or the old daemon serves.              *)
Init ==
  /\ socket \in {Nobody, Old} /\ pidFile = socket /\ version = socket
  /\ text = [d \in Daemon |-> IF d = socket THEN d ELSE Nobody]
  /\ daemon = [d \in Daemon |->
       IF d = socket THEN [pc |-> "serving", file |-> d, locked |-> TRUE]
       ELSE [pc |-> "unborn", file |-> Nobody, locked |-> FALSE]]
  /\ client = [c \in Client |-> NoCommand]
  /\ stolen = FALSE /\ disturbed = FALSE
  /\ commands = 0 /\ faults = 0 /\ crashes = 0 /\ signals = 0 /\ timeouts = 0

Alive(d) == d \in Daemon /\ daemon[d].pc \notin {"unborn", "dead"}

-----------------------------------------------------------------------------
(* Starting a daemon: startup_inner.                                       *)

At(d, step) == daemon[d].pc = step

Goto(d, step) == daemon' = [daemon EXCEPT ![d].pc = step]

DaemonOnly == UNCHANGED <<client, disturbed, boundVars>>

(* File::create opens the file that is there and empties it, before it is  *)
(* known whether somebody holds its lock, or else makes a new one.         *)
CreatePidFile(d) ==
  /\ At(d, "create")
  /\ LET file == IF pidFile = Nobody THEN d ELSE pidFile
     IN  /\ daemon' = [daemon EXCEPT ![d].pc = "lock", ![d].file = file]
         /\ pidFile' = file
         /\ text' = [text EXCEPT ![file] = Nobody]
  /\ UNCHANGED <<socket, version, stolen>> /\ DaemonOnly

LockHeld(file) == \E d \in Daemon : daemon[d].file = file /\ daemon[d].locked

(* Mutant: the result of try_lock_exclusive is not looked at.              *)
TryLockIgnored(d) ==
  /\ At(d, "lock")
  /\ daemon' = [daemon EXCEPT ![d].locked = ~LockHeld(daemon[d].file),
                              ![d].pc = "pid"]
  /\ UNCHANGED <<files, stolen>> /\ DaemonOnly

(* startup_inner returns an error, which closes the pid file and gives up  *)
(* its lock; cleanup_on_failure follows.                                   *)
FailStartup(d) ==
  daemon' = [daemon EXCEPT ![d] =
              [pc |-> "cleanup socket", file |-> Nobody, locked |-> FALSE]]

(* The lock belongs to the open file, whether or not it still has a name.  *)
TryLock(d) ==
  /\ At(d, "lock")
  /\ IF LockHeld(daemon[d].file)
     THEN FailStartup(d)
     ELSE daemon' = [daemon EXCEPT ![d].locked = TRUE, ![d].pc = "pid"]
  /\ UNCHANGED <<files, stolen>> /\ DaemonOnly

WritePid(d) ==
  /\ At(d, "pid")
  /\ text' = [text EXCEPT ![daemon[d].file] = d]
  /\ Goto(d, "version")
  /\ UNCHANGED <<socket, pidFile, version, stolen>> /\ DaemonOnly

WriteVersion(d) ==
  /\ At(d, "version")
  /\ version' = d
  /\ Goto(d, "load")
  /\ UNCHANGED <<socket, pidFile, text, stolen>> /\ DaemonOnly

(* The runbook is loaded, the log replayed and the warnings logged.        *)
Load(d) ==
  /\ At(d, "load")
  /\ Goto(d, "unlink")
  /\ UNCHANGED <<files, stolen>> /\ DaemonOnly

UnlinkSocket(d) ==
  /\ At(d, "unlink")
  /\ socket' = Nobody
  /\ Goto(d, "bind")
  /\ UNCHANGED <<pidFile, version, text, stolen>> /\ DaemonOnly

(* Binding to a path that exists fails.                                    *)
Bind(d) ==
  /\ At(d, "bind")
  /\ IF socket = Nobody
     THEN socket' = d /\ Goto(d, "serving")
     ELSE FailStartup(d) /\ UNCHANGED socket
  /\ UNCHANGED <<pidFile, version, text, stolen>> /\ DaemonOnly

(* A step fails: a directory cannot be made, the runbook does not parse,   *)
(* the log cannot be read.                                                 *)
StartFails(d) ==
  /\ daemon[d].pc \in {"create"} \cup LockedSteps
  /\ faults < MaxFaults /\ faults' = faults + 1
  /\ FailStartup(d)
  /\ UNCHANGED <<files, client, stolen, disturbed, commands, crashes, signals,
                 timeouts>>

-----------------------------------------------------------------------------
(* The end of a daemon.                                                    *)

(* The lock goes with the process, and the file with it if it had no name. *)
Exited == [pc |-> "dead", file |-> Nobody, locked |-> FALSE]

Dies(d) == daemon' = [daemon EXCEPT ![d] = Exited]

(* Whoever removes the pid file: is it one another daemon has open?        *)
Steals(d) ==
  pidFile # Nobody /\ \E other \in Daemon \ {d} : daemon[other].file = pidFile

(* cleanup_on_failure removes what is at the three paths, and shutdown     *)
(* does, in another order.                                                 *)
RemovalOf(step) ==
  CASE step \in {"cleanup socket", "remove socket"}   -> "socket"
    [] step \in {"cleanup version", "remove version"} -> "version"
    [] step \in {"cleanup pid", "remove pid"}         -> "pid"

After(step) ==
  CASE step = "cleanup socket"  -> "cleanup version"
    [] step = "cleanup version" -> "cleanup pid"
    [] step = "remove socket"   -> "remove pid"
    [] step = "remove pid"      -> "remove version"
    [] step \in {"cleanup pid", "remove version"} -> "dead"

RemoveFile(d) ==
  /\ daemon[d].pc \in CleanupSteps \cup ShutdownSteps
  /\ LET step == daemon[d].pc
         what == RemovalOf(step)
     IN  /\ socket'  = IF what = "socket"  THEN Nobody ELSE socket
         /\ version' = IF what = "version" THEN Nobody ELSE version
         /\ pidFile' = IF what = "pid"     THEN Nobody ELSE pidFile
         /\ stolen'  = (stolen \/ (what = "pid" /\ Steals(d)))
         /\ IF After(step) = "dead" THEN Dies(d) ELSE Goto(d, After(step))
  /\ UNCHANGED text /\ DaemonOnly

(* A crash leaves the files as they are.                                   *)
Crash(d) ==
  /\ Alive(d) /\ crashes < MaxCrashes
  /\ crashes' = crashes + 1
  /\ Dies(d)
  /\ UNCHANGED <<files, client, stolen, disturbed, commands, faults, signals,
                 timeouts>>

Signal(d) ==
  /\ At(d, "serving") /\ signals < MaxSignals
  /\ signals' = signals + 1
  /\ Goto(d, "remove socket")
  /\ disturbed' = TRUE
  /\ UNCHANGED <<files, client, stolen, commands, faults, crashes, timeouts>>

DaemonStep(d) ==
  \/ CreatePidFile(d) \/ TryLock(d) \/ WritePid(d) \/ WriteVersion(d)
  \/ Load(d) \/ UnlinkSocket(d) \/ Bind(d) \/ RemoveFile(d)

-----------------------------------------------------------------------------
(* Clients.                                                                *)

AtWork == {c \in Client : client[c].pc # "idle"}

FirstStep(op) ==
  CASE op = "run"        -> "version"
    [] op = "start"      -> "status"
    [] op = "stop"       -> "connect"
    [] op = "foreground" -> "connect"

Does(c, step) == client[c].pc = step

Turn(c, step) == client' = [client EXCEPT ![c].pc = step]

Ends(c, outcome) ==
  client' = [client EXCEPT ![c] =
    [NoCommand EXCEPT !.op = client[c].op, !.child = client[c].child,
                      !.outcome = outcome]]

ClientOnly == UNCHANGED <<files, daemon, stolen, disturbed, boundVars>>

Begin(c, op) ==
  /\ Does(c, "idle") /\ commands < MaxCommands
  /\ commands' = commands + 1
  /\ client' = [client EXCEPT ![c] =
                  [NoCommand EXCEPT !.pc = FirstStep(op), !.op = op]]
  /\ disturbed' = (disturbed \/ AtWork # {})
  /\ UNCHANGED <<files, daemon, stolen, faults, crashes, signals, timeouts>>

(* `oj daemon start' asks a daemon whose socket is there for its status.   *)
AskStatus(c) ==
  /\ Does(c, "status")
  /\ Turn(c, IF socket = Nobody THEN "version" ELSE "send")
  /\ ClientOnly

(* connect_or_start reads the version file.  On a mismatch it calls        *)
(* block_on from within the runtime, which panics, so that the old daemon  *)
(* is never stopped.                                                       *)
CheckVersion(c) ==
  /\ Does(c, "version")
  /\ IF version = Old
     THEN Ends(c, "panicked") ELSE Turn(c, "connect")
  /\ ClientOnly

Unborn == {d \in Daemon \ {Old} : At(d, "unborn")}

(* start_daemon_background, and `oj daemon start --foreground', which      *)
(* starts one whether or not there is a daemon.                            *)
SpawnDaemon(c) ==
  /\ Does(c, "connect")
  /\ \/ client[c].op \in {"run", "start"} /\ socket = Nobody
     \/ client[c].op = "foreground"
  /\ Unborn # {}
  /\ LET d == CHOOSE d \in Unborn : TRUE
     IN  /\ Goto(d, "create")
         /\ client' = [client EXCEPT ![c].pc = "child", ![c].child = d]
  /\ disturbed' = \/ disturbed
                  \/ client[c].op = "foreground" /\ \E d \in Daemon : Alive(d)
  /\ UNCHANGED <<files, stolen, boundVars>>

(* A client in hand is all `oj daemon start' wants; another command sends. *)
Connected(c) ==
  IF client[c].op = "start" THEN Ends(c, "ok") ELSE Turn(c, "send")

(* DaemonClient::connect only looks whether the socket is there.           *)
Connect(c) ==
  /\ Does(c, "connect") /\ client[c].op # "foreground" /\ socket # Nobody
  /\ Connected(c)
  /\ ClientOnly

(* Mutant: the retry loop does not watch its child.                        *)
WatchChildBlindly(c) ==
  /\ Does(c, "child")
  /\ IF client[c].op = "foreground"
     THEN /\ daemon[client[c].child].pc \in {"serving", "dead"}
          /\ Ends(c, "ok")
     ELSE Turn(c, "socket")
  /\ ClientOnly

(* connect_with_retry looks first at its child, then at the socket.  In    *)
(* the foreground the command waits for its child; the model lets it go    *)
(* once the child serves.                                                  *)
WatchChild(c) ==
  LET pc == daemon[client[c].child].pc
  IN  /\ Does(c, "child")
      /\ IF client[c].op = "foreground"
         THEN pc \in {"serving", "dead"} /\ Ends(c, "ok")
         ELSE IF pc = "dead" THEN Ends(c, "start failed")
         ELSE Turn(c, "socket")
      /\ ClientOnly

LookForSocket(c) ==
  /\ Does(c, "socket")
  /\ IF socket = Nobody THEN Turn(c, "child") ELSE Connected(c)
  /\ ClientOnly

(* An exchange that fails ends a command; `oj daemon start' takes it for   *)
(* no daemon, and `oj daemon stop' goes on without the answer.             *)
Unanswered(c, outcome) ==
  \/ client[c].op = "run"   /\ Ends(c, outcome)
  \/ client[c].op = "start" /\ Turn(c, "version")
  \/ client[c].op = "stop"  /\ Turn(c, "pid")

(* The connection is made to the process that bound the socket; nobody     *)
(* listens at the socket of a dead one.                                    *)
Send(c) ==
  /\ Does(c, "send")
  /\ IF Alive(socket)
     THEN client' = [client EXCEPT ![c].pc = "reply", ![c].peer = socket]
     ELSE Unanswered(c, "refused")
  /\ ClientOnly

(* The loop of the daemon serves the connection.  A shutdown is answered   *)
(* before it begins, and begins before anything else is served.            *)
Answer(c) ==
  /\ Does(c, "reply")
  /\ Alive(client[c].peer) /\ At(client[c].peer, "serving")
  /\ IF client[c].op = "stop"
     THEN /\ client' = [client EXCEPT ![c].pc = "pid", ![c].asked = TRUE]
          /\ Goto(client[c].peer, "remove socket")
     ELSE Ends(c, "ok") /\ UNCHANGED daemon
  /\ UNCHANGED <<files, stolen, disturbed, boundVars>>

(* The daemon is gone, and the connection with it.                         *)
LoseConnection(c) ==
  /\ Does(c, "reply") /\ ~Alive(client[c].peer)
  /\ Unanswered(c, "lost")
  /\ ClientOnly

(* The time limit of an exchange, of the wait for a socket or of the wait  *)
(* for a process to exit.                                                  *)
GiveUp(c) ==
  /\ timeouts < MaxTimeouts /\ timeouts' = timeouts + 1
  /\ \/ Does(c, "reply") /\ Unanswered(c, "timeout")
     \/ Does(c, "child") /\ client[c].op # "foreground" /\ Ends(c, "timeout")
     \/ Does(c, "exit")  /\ Turn(c, "kill")
  /\ disturbed' = TRUE
  /\ UNCHANGED <<files, daemon, stolen, commands, faults, crashes, signals>>

-----------------------------------------------------------------------------
(* `oj daemon stop': daemon_stop.                                          *)

(* cleanup_stale_pid, whoever's file it is.                                *)
RemovePidFile ==
  /\ pidFile' = Nobody
  /\ stolen' = (stolen \/ Steals(Nobody))
  /\ UNCHANGED <<socket, version, text>>

StopNotRunning(c) ==
  /\ Does(c, "connect") /\ client[c].op = "stop" /\ socket = Nobody
  /\ RemovePidFile
  /\ Ends(c, "not running")
  /\ UNCHANGED <<daemon, disturbed, boundVars>>

(* Mutant: the pid is read and the daemon not waited for.                  *)
ReadPidOnly(c) ==
  /\ Does(c, "pid")
  /\ client' = [client EXCEPT
       ![c].pid = IF pidFile = Nobody THEN Nobody ELSE text[pidFile],
       ![c].pc = "tidy"]
  /\ ClientOnly

(* Mutant: the pid is read and the daemon killed without waiting for it.   *)
ReadPidToKill(c) ==
  /\ Does(c, "pid")
  /\ client' = [client EXCEPT
       ![c].pid = IF pidFile = Nobody THEN Nobody ELSE text[pidFile],
       ![c].pc = IF pidFile = Nobody THEN "tidy" ELSE "kill"]
  /\ ClientOnly

(* Mutant: an empty pid file reads as pid 0.                               *)
ReadPidZero(c) ==
  LET pid == IF pidFile = Nobody THEN Nobody
             ELSE IF text[pidFile] = Nobody THEN 0 ELSE text[pidFile]
  IN  /\ Does(c, "pid")
      /\ client' = [client EXCEPT
           ![c].pid = pid,
           ![c].pc = IF pid = Nobody THEN "tidy"
                     ELSE IF client[c].asked THEN "exit" ELSE "kill"]
      /\ ClientOnly

(* read_daemon_pid: no file, or an empty one, is no pid.                   *)
ReadPid(c) ==
  LET pid == IF pidFile = Nobody THEN Nobody ELSE text[pidFile]
  IN  /\ Does(c, "pid")
      /\ client' = [client EXCEPT
           ![c].pid = pid,
           ![c].pc = IF pid = Nobody THEN "tidy"
                     ELSE IF client[c].asked THEN "exit" ELSE "kill"]
      /\ ClientOnly

WaitForExit(c) ==
  /\ Does(c, "exit") /\ ~Alive(client[c].pid)
  /\ Turn(c, "kill")
  /\ ClientOnly

(* process_exists and kill -9.                                             *)
ForceKill(c) ==
  /\ Does(c, "kill")
  /\ Turn(c, "tidy")
  /\ IF Alive(client[c].pid) THEN Dies(client[c].pid) ELSE UNCHANGED daemon
  /\ UNCHANGED <<files, stolen, disturbed, boundVars>>

Tidy(c) ==
  /\ Does(c, "tidy")
  /\ RemovePidFile
  /\ Ends(c, "stopped")
  /\ UNCHANGED <<daemon, disturbed, boundVars>>

ClientStep(c) ==
  \/ AskStatus(c) \/ CheckVersion(c) \/ SpawnDaemon(c) \/ Connect(c)
  \/ WatchChild(c) \/ LookForSocket(c)
  \/ Send(c) \/ Answer(c) \/ LoseConnection(c)
  \/ StopNotRunning(c) \/ ReadPid(c) \/ WaitForExit(c) \/ ForceKill(c)
  \/ Tidy(c)

Next ==
  \/ \E d \in Daemon : DaemonStep(d)
  \/ \E d \in Daemon : StartFails(d) \/ Crash(d) \/ Signal(d)
  \/ \E c \in Client, op \in Ops : Begin(c, op)
  \/ \E c \in Client : ClientStep(c) \/ GiveUp(c)

Spec == Init /\ [][Next]_vars

(* Processes go on; nothing is assumed of users, faults and time limits.   *)
FairSpec ==
  /\ Spec
  /\ \A d \in Daemon : WF_vars(DaemonStep(d))
  /\ \A c \in Client : WF_vars(ClientStep(c))

-----------------------------------------------------------------------------
(* The lock excludes: as long as nobody removes a pid file that another    *)
(* daemon has open, at most one daemon is between the lock and its         *)
(* shutdown, whoever crashes and whatever is started when.  startup_inner, *)
(* step 2.                                                                 *)
LockExcludes ==
  LET elected == {d \in Daemon : daemon[d].pc \in LockedSteps \cup {"serving"}}
  IN  ~stolen => \A d, e \in elected : d = e

(* Commands run one after another always find the daemon that serves: its  *)
(* socket is at its path and the pid file names it, through crashes,       *)
(* failed starts and stops in between.  startup_inner, shutdown,           *)
(* daemon_stop.                                                            *)
ServingIsFindable ==
  ~disturbed =>
    \A d \in Daemon : At(d, "serving") =>
      socket = d /\ pidFile # Nobody /\ text[pidFile] = d

(* Commands run one after another do no harm: `oj daemon stop' kills no    *)
(* daemon that is still on its way out, and nobody removes a pid file that *)
(* another daemon has open.  daemon_stop, cleanup_on_failure, shutdown.    *)
NobodyHarmed ==
  ~disturbed =>
    /\ ~stolen
    /\ \A c \in Client : Does(c, "kill") => ~Alive(client[c].pid)

(* Commands run one after another never have to wait for a time limit: a   *)
(* daemon that fails to start, dies before it answers or is asked to stop  *)
(* is noticed.  connect_with_retry, wait_for_exit.                         *)
NoTimeLimitNeeded ==
  \A c \in Client : c \in AtWork ~> (c \notin AtWork \/ disturbed)

-----------------------------------------------------------------------------
(* What comments and documents say and the code does not do.               *)

(* "Prevent multiple daemons": no two daemons serve one project.           *)
OneDaemonServes ==
  \A d, e \in Daemon : At(d, "serving") /\ At(e, "serving") => d = e

(* "If can connect to socket return connection else start daemon": no      *)
(* command gives up because nobody listens without having started one.     *)
RefusedMeansStarted ==
  \A c \in Client :
    client[c].op = "run" /\ client[c].outcome = "refused"
      => client[c].child # Nobody
=============================================================================
