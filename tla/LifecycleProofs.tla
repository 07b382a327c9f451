--------------------------- MODULE LifecycleProofs ---------------------------
(***************************************************************************)
(* The lock excludes, and commands run one after another find the daemon   *)
(* that serves: for any number of daemons, users and commands, and any     *)
(* bounds.  (The invariants are those of LifecycleInvariants.)             *)
(***************************************************************************)
EXTENDS LifecycleInvariants, TLAPS

-----------------------------------------------------------------------------
(* Types.                                                                  *)

DaemonRecord == [pc : DaemonPc, file : Process, locked : BOOLEAN]

ClientRecord == [pc : ClientPc, op : Operations \cup {"none"},
                 child : Process, peer : Process, asked : BOOLEAN,
                 pid : Process, outcome : Outcomes]

LEMMA InitInv == Init => LockInv
<1> SUFFICES ASSUME Init PROVE LockInv
  OBVIOUS
<1> USE DaemonAssumption
<1>1. TypeOK
  BY DEF Init, TypeOK, Process, DaemonPc, ClientPc, Outcomes, NoCommand
<1>2. FilesOpen
  BY DEF Init, FilesOpen, OpenSteps, HoldingSteps, LockedSteps, ShutdownSteps
<1>3. OneLockPerFile
  BY DEF Init, OneLockPerFile
<1>4. OpenFilesNamed
  BY DEF Init, OpenFilesNamed, OpenSteps, HoldingSteps, LockedSteps,
         ShutdownSteps
<1> QED
  BY <1>1, <1>2, <1>3, <1>4 DEF LockInv

(* A step of a client leaves every record of a client typed, and a change  *)
(* of the record of one client is a change to a typed record.              *)
LEMMA ClientTypes ==
  ASSUME TypeOK, NEW c \in Client
  PROVE  /\ \A step \in ClientPc : Turn(c, step) =>
              client' \in [Client -> ClientRecord]
         /\ \A outcome \in Outcomes : Ends(c, outcome) =>
              client' \in [Client -> ClientRecord]
         /\ \A op \in Operations, step \in ClientPc :
              [NoCommand EXCEPT !.pc = step, !.op = op] \in ClientRecord
<1> USE DEF ClientRecord, TypeOK
<1>1. ASSUME NEW step \in ClientPc, Turn(c, step)
      PROVE  client' \in [Client -> ClientRecord]
  BY <1>1 DEF Turn
<1>2. ASSUME NEW outcome \in Outcomes, Ends(c, outcome)
      PROVE  client' \in [Client -> ClientRecord]
  BY <1>2 DEF Ends, NoCommand, ClientPc, Process
<1>3. ASSUME NEW op \in Operations, NEW step \in ClientPc
      PROVE  [NoCommand EXCEPT !.pc = step, !.op = op] \in ClientRecord
  BY <1>3 DEF NoCommand, Process, Outcomes
<1> QED
  BY <1>1, <1>2, <1>3

(* So does a step of a daemon, for its record.                             *)
LEMMA DaemonTypes ==
  ASSUME TypeOK, NEW d \in Daemon
  PROVE  /\ \A step \in DaemonPc : Goto(d, step) =>
              daemon' \in [Daemon -> DaemonRecord]
         /\ FailStartup(d) => daemon' \in [Daemon -> DaemonRecord]
         /\ Dies(d) => daemon' \in [Daemon -> DaemonRecord]
<1> USE DEF DaemonRecord, TypeOK, Process
<1>1. ASSUME NEW step \in DaemonPc, Goto(d, step)
      PROVE  daemon' \in [Daemon -> DaemonRecord]
  BY <1>1 DEF Goto
<1>2. ASSUME FailStartup(d)
      PROVE  daemon' \in [Daemon -> DaemonRecord]
  BY <1>2 DEF FailStartup, DaemonPc, CleanupSteps
<1>3. ASSUME Dies(d)
      PROVE  daemon' \in [Daemon -> DaemonRecord]
  BY <1>3 DEF Dies, Exited, DaemonPc
<1> QED
  BY <1>1, <1>2, <1>3

(* The steps of daemons.                                                   *)
LEMMA DaemonTypeOK ==
  ASSUME TypeOK, NEW d \in Daemon,
         DaemonStep(d) \/ StartFails(d) \/ Crash(d) \/ Signal(d)
  PROVE  TypeOK'
<1> USE DEF TypeOK, DaemonOnly, files, boundVars
<1>0. /\ \A step \in DaemonPc : Goto(d, step) =>
           daemon' \in [Daemon -> DaemonRecord]
      /\ FailStartup(d) => daemon' \in [Daemon -> DaemonRecord]
      /\ Dies(d) => daemon' \in [Daemon -> DaemonRecord]
  BY DaemonTypes
<1>1. CASE CreatePidFile(d)
  <2> DEFINE file == IF pidFile = Nobody THEN d ELSE pidFile
  <2>1. file \in Daemon
    BY DEF Process
  <2>2. daemon' = [daemon EXCEPT ![d].pc = "lock", ![d].file = file]
    BY <1>1 DEF CreatePidFile
  <2>3. daemon' \in [Daemon -> DaemonRecord]
    <3>1. file \in Process /\ "lock" \in DaemonPc
      BY <2>1 DEF Process, DaemonPc
    <3> HIDE DEF file
    <3> QED
      BY <2>2, <3>1 DEF DaemonRecord
  <2>4. pidFile' = file /\ text' = [text EXCEPT ![file] = Nobody]
    BY <1>1 DEF CreatePidFile
  <2>5. pidFile' \in Process /\ text' \in [Daemon -> Process]
    BY <2>1, <2>4 DEF Process
  <2> QED
    BY <1>1, <2>3, <2>5 DEF CreatePidFile, DaemonRecord
<1>2. CASE TryLock(d)
  <2>1. CASE FailStartup(d)
    BY <1>0, <1>2, <2>1 DEF TryLock, DaemonRecord
  <2>2. CASE daemon' = [daemon EXCEPT ![d].locked = TRUE, ![d].pc = "pid"]
    BY <1>2, <2>2 DEF TryLock, DaemonPc, LockedSteps
  <2> QED
    BY <1>2, <2>1, <2>2 DEF TryLock
<1>3. CASE WritePid(d)
  <2>1. daemon' \in [Daemon -> DaemonRecord]
    BY <1>0, <1>3 DEF WritePid, DaemonPc, LockedSteps
  <2>2. text' \in [Daemon -> Process]
    BY <1>3 DEF WritePid, Process
  <2> QED
    BY <1>3, <2>1, <2>2 DEF WritePid, DaemonRecord
<1>4. CASE WriteVersion(d)
  <2>1. daemon' \in [Daemon -> DaemonRecord]
    BY <1>0, <1>4 DEF WriteVersion, DaemonPc, LockedSteps
  <2> QED
    BY <1>4, <2>1 DEF WriteVersion, DaemonRecord, Process
<1>5. CASE Load(d)
  <2>1. daemon' \in [Daemon -> DaemonRecord]
    BY <1>0, <1>5 DEF Load, DaemonPc, LockedSteps
  <2> QED
    BY <1>5, <2>1 DEF Load, DaemonRecord
<1>6. CASE UnlinkSocket(d)
  <2>1. daemon' \in [Daemon -> DaemonRecord]
    BY <1>0, <1>6 DEF UnlinkSocket, DaemonPc, LockedSteps
  <2> QED
    BY <1>6, <2>1 DEF UnlinkSocket, DaemonRecord, Process
<1>7. CASE Bind(d)
  <2>1. daemon' \in [Daemon -> DaemonRecord]
    BY <1>0, <1>7 DEF Bind, DaemonPc
  <2> QED
    BY <1>7, <2>1 DEF Bind, DaemonRecord, Process
<1>8. CASE RemoveFile(d)
  <2>1. After(daemon[d].pc) \in DaemonPc
    BY <1>8 DEF RemoveFile, After, DaemonPc, CleanupSteps, ShutdownSteps
  <2>2. daemon' \in [Daemon -> DaemonRecord]
    BY <1>0, <1>8, <2>1 DEF RemoveFile
  <2>3. stolen' \in BOOLEAN
    BY <1>8 DEF RemoveFile
  <2> QED
    BY <1>8, <2>2, <2>3 DEF RemoveFile, DaemonRecord, Process
<1>9. CASE StartFails(d)
  BY <1>0, <1>9 DEF StartFails, DaemonRecord
<1>10. CASE Crash(d)
  BY <1>0, <1>10 DEF Crash, DaemonRecord
<1>11. CASE Signal(d)
  <2>1. daemon' \in [Daemon -> DaemonRecord]
    BY <1>0, <1>11 DEF Signal, DaemonPc, ShutdownSteps
  <2>2. disturbed' \in BOOLEAN
    BY <1>11 DEF Signal
  <2>3. signals' \in Nat
    <3>1. signals \in Nat
      OBVIOUS
    <3>2. signals' = signals + 1
      BY <1>11 DEF Signal
    <3> QED
      BY ONLY <3>1, <3>2, SMT
  <2>4. /\ UNCHANGED <<socket, pidFile, version, text, client, stolen>>
        /\ UNCHANGED <<commands, faults, crashes, timeouts>>
    BY <1>11 DEF Signal
  <2> QED
    BY <2>1, <2>2, <2>3, <2>4 DEF DaemonRecord
<1> QED
  BY <1>1, <1>2, <1>3, <1>4, <1>5, <1>6, <1>7, <1>8, <1>9, <1>10, <1>11
     DEF DaemonStep

(* The steps of clients that leave files and daemons alone, but for those  *)
(* counted.                                                                *)
LEMMA ClientTypeOK ==
  ASSUME TypeOK, NEW c \in Client,
         ClientStep(c) \/ GiveUp(c) \/ \E op \in Ops : Begin(c, op)
  PROVE  TypeOK'
<1> USE DEF files, boundVars, ClientOnly
<1>0. /\ \A step \in ClientPc : Turn(c, step) =>
           client' \in [Client -> ClientRecord]
      /\ \A outcome \in Outcomes : Ends(c, outcome) =>
           client' \in [Client -> ClientRecord]
      /\ \A op \in Operations, step \in ClientPc :
           [NoCommand EXCEPT !.pc = step, !.op = op] \in ClientRecord
  BY ClientTypes
<1>1. ASSUME client' \in [Client -> ClientRecord], ClientOnly
      PROVE  TypeOK'
  BY <1>1 DEF TypeOK, ClientRecord
<1>2. ASSUME NEW outcome \in Outcomes, Unanswered(c, outcome)
      PROVE  client' \in [Client -> ClientRecord]
  BY <1>0, <1>2 DEF Unanswered, ClientPc
<1>3. ASSUME Connected(c)
      PROVE  client' \in [Client -> ClientRecord]
  BY <1>0, <1>3 DEF Connected, ClientPc, Outcomes
<1>4. CASE AskStatus(c)
  BY <1>0, <1>1, <1>4 DEF AskStatus, ClientPc
<1>5. CASE CheckVersion(c)
  BY <1>0, <1>1, <1>5 DEF CheckVersion, ClientPc, Outcomes
<1>6. CASE Connect(c)
  BY <1>1, <1>3, <1>6 DEF Connect
<1>7. CASE WatchChild(c)
  BY <1>0, <1>1, <1>7 DEF WatchChild, ClientPc, Outcomes
<1>8. CASE LookForSocket(c)
  BY <1>0, <1>1, <1>3, <1>8 DEF LookForSocket, ClientPc
<1>9. CASE Send(c)
  <2>1. CASE Unanswered(c, "refused")
    BY <1>1, <1>2, <1>9, <2>1 DEF Send, Outcomes
  <2>2. CASE client' = [client EXCEPT ![c].pc = "reply", ![c].peer = socket]
    <3>1. client[c] \in ClientRecord /\ client \in [Client -> ClientRecord]
          /\ socket \in Process
      BY DEF ClientRecord, TypeOK
    <3>2. [client[c] EXCEPT !.pc = "reply", !.peer = socket] \in ClientRecord
      BY <3>1 DEF ClientRecord, ClientPc
    <3>3. client' = [client EXCEPT ![c] =
                       [client[c] EXCEPT !.pc = "reply", !.peer = socket]]
      BY <2>2, <3>1
    <3>4. client' \in [Client -> ClientRecord]
      BY <3>1, <3>2, <3>3
    <3> QED
      BY <1>1, <1>9, <3>4 DEF Send
  <2> QED
    BY <1>9, <2>1, <2>2 DEF Send
<1>10. CASE LoseConnection(c)
  BY <1>1, <1>2, <1>10 DEF LoseConnection, Outcomes
<1>11. CASE ReadPid(c)
  <2> DEFINE pid  == IF pidFile = Nobody THEN Nobody ELSE text[pidFile]
             step == IF pid = Nobody THEN "tidy"
                     ELSE IF client[c].asked THEN "exit" ELSE "kill"
  <2>1. pid \in Process /\ step \in ClientPc
    BY DEF TypeOK, Process, ClientPc
  <2>2. client' = [client EXCEPT ![c].pid = pid, ![c].pc = step]
    BY <1>11 DEF ReadPid
  <2>3. client' \in [Client -> ClientRecord]
    <3> HIDE DEF pid, step
    <3> QED
      BY <2>1, <2>2 DEF TypeOK, ClientRecord
  <2> QED
    BY <1>1, <1>11, <2>3 DEF ReadPid
<1>12. CASE WaitForExit(c)
  BY <1>0, <1>1, <1>12 DEF WaitForExit, ClientPc
<1>13. CASE SpawnDaemon(c)
  <2> DEFINE d == CHOOSE d \in Unborn : TRUE
  <2>1. d \in Daemon
    BY <1>13 DEF SpawnDaemon, Unborn
  <2>2. /\ Goto(d, "create")
        /\ client' = [client EXCEPT ![c].pc = "child", ![c].child = d]
    BY <1>13 DEF SpawnDaemon
  <2> HIDE DEF d
  <2>3. daemon' \in [Daemon -> DaemonRecord]
    BY <2>1, <2>2, DaemonTypes DEF DaemonPc
  <2>4. client' \in [Client -> ClientRecord]
    <3>1. d \in Process /\ "child" \in ClientPc
      BY <2>1 DEF Process, ClientPc
    <3> QED
      BY <2>2, <3>1 DEF TypeOK, ClientRecord
  <2>5. disturbed' \in BOOLEAN
    BY <1>13 DEF SpawnDaemon
  <2> QED
    BY <1>13, <2>3, <2>4, <2>5
       DEF SpawnDaemon, TypeOK, ClientRecord, DaemonRecord
<1>14. CASE Answer(c)
  <2>1. client' \in [Client -> ClientRecord]
    <3>1. CASE client' = [client EXCEPT ![c].pc = "pid", ![c].asked = TRUE]
      BY <3>1 DEF TypeOK, ClientRecord, ClientPc
    <3> QED
      BY <1>0, <1>14, <3>1 DEF Answer, Outcomes
  <2>2. daemon' \in [Daemon -> DaemonRecord]
    <3>1. client[c].peer \in Daemon
      BY <1>14 DEF Answer, Alive
    <3>2. CASE UNCHANGED daemon
      BY <3>2 DEF TypeOK, DaemonRecord
    <3> QED
      BY <1>14, <3>1, <3>2, DaemonTypes
         DEF Answer, DaemonPc, ShutdownSteps
  <2> QED
    BY <1>14, <2>1, <2>2 DEF Answer, TypeOK, ClientRecord, DaemonRecord
<1>15. CASE StopNotRunning(c) \/ Tidy(c)
  <2>1. client' \in [Client -> ClientRecord]
    BY <1>0, <1>15 DEF StopNotRunning, Tidy, Outcomes
  <2>2. stolen' \in BOOLEAN
    BY <1>15 DEF StopNotRunning, Tidy, RemovePidFile, TypeOK
  <2> QED
    BY <1>15, <2>1, <2>2
       DEF StopNotRunning, Tidy, RemovePidFile, TypeOK, ClientRecord, Process
<1>16. CASE ForceKill(c)
  <2>1. daemon' \in [Daemon -> DaemonRecord]
    BY <1>16, DaemonTypes DEF ForceKill, Alive, TypeOK, DaemonRecord
  <2>2. client' \in [Client -> ClientRecord]
    BY <1>0, <1>16 DEF ForceKill, ClientPc
  <2> QED
    BY <1>16, <2>1, <2>2 DEF ForceKill, TypeOK, ClientRecord, DaemonRecord
<1>17. CASE GiveUp(c)
  <2>1. client' \in [Client -> ClientRecord]
    BY <1>0, <1>2, <1>17 DEF GiveUp, ClientPc, Outcomes
  <2>2. disturbed' \in BOOLEAN /\ timeouts' \in Nat
    BY <1>17 DEF GiveUp, TypeOK
  <2> QED
    BY <1>17, <2>1, <2>2 DEF GiveUp, TypeOK, ClientRecord
<1>18. CASE \E op \in Ops : Begin(c, op)
  <2> PICK op \in Ops : Begin(c, op)
    BY <1>18
  <2>1. FirstStep(op) \in ClientPc /\ op \in Operations
    BY DaemonAssumption DEF FirstStep, Operations, ClientPc
  <2>2. client' \in [Client -> ClientRecord]
    BY <1>0, <2>1 DEF Begin, TypeOK, ClientRecord
  <2>3. disturbed' \in BOOLEAN /\ commands' \in Nat
    <3>1. commands \in Nat /\ commands' = commands + 1
      BY DEF Begin, TypeOK
    <3>2. disturbed' \in BOOLEAN
      BY DEF Begin
    <3> QED
      BY ONLY <3>1, <3>2, SMT
  <2> QED
    BY <2>2, <2>3 DEF Begin, TypeOK, ClientRecord
<1> QED
  BY <1>4, <1>5, <1>6, <1>7, <1>8, <1>9, <1>10, <1>11, <1>12, <1>13, <1>14,
     <1>15, <1>16, <1>17, <1>18 DEF ClientStep

-----------------------------------------------------------------------------
(* Steps that leave pid files, locks and daemons alone.                    *)

LEMMA InvUntouched ==
  ASSUME LockInv, UNCHANGED <<pidFile, daemon, stolen>>, TypeOK'
  PROVE  LockInv'
BY DEF LockInv, FilesOpen, OneLockPerFile, OpenFilesNamed

(* The step of a daemon that has the file open, to another where it has it *)
(* open still, with the lock it had.                                       *)
LEMMA InvGoto ==
  ASSUME LockInv, NEW d \in Daemon, NEW step, Goto(d, step),
         \/ daemon[d].pc \in HoldingSteps \ {"remove version"}
            /\ step \in HoldingSteps
         \/ daemon[d].pc \in DaemonPc \ OpenSteps
            /\ step \in DaemonPc \ OpenSteps,
         UNCHANGED <<pidFile, stolen>>, TypeOK'
  PROVE  LockInv'
<1> USE DEF LockInv, Goto
<1>1. \A e \in Daemon :
        /\ daemon'[e].file = daemon[e].file
        /\ daemon'[e].locked = daemon[e].locked
        /\ daemon'[e].pc = IF e = d THEN step ELSE daemon[e].pc
  BY DEF TypeOK
<1>2. FilesOpen'
  <2> SUFFICES ASSUME NEW e \in Daemon
               PROVE  /\ daemon'[e].file # Nobody <=> daemon'[e].pc \in OpenSteps
                      /\ daemon'[e].locked <=> daemon'[e].pc \in HoldingSteps
    BY DEF FilesOpen
  <2>1. /\ daemon[e].file # Nobody <=> daemon[e].pc \in OpenSteps
        /\ daemon[e].locked <=> daemon[e].pc \in HoldingSteps
    BY DEF FilesOpen
  <2>2. daemon'[e].pc \in OpenSteps <=> daemon[e].pc \in OpenSteps
    BY <1>1 DEF OpenSteps
  <2>3. daemon'[e].pc \in HoldingSteps <=> daemon[e].pc \in HoldingSteps
    BY <1>1 DEF OpenSteps
  <2> QED
    BY <1>1, <2>1, <2>2, <2>3
<1>3. OneLockPerFile'
  BY <1>1 DEF OneLockPerFile
<1>4. OpenFilesNamed'
  BY <1>1 DEF OpenFilesNamed, OpenSteps
<1> QED
  BY <1>2, <1>3, <1>4

(* A daemon gives up its file and its lock.                                *)
LEMMA InvGivesUp ==
  ASSUME LockInv, NEW d \in Daemon, NEW step \in DaemonPc \ OpenSteps,
         daemon' = [daemon EXCEPT ![d] =
                     [pc |-> step, file |-> Nobody, locked |-> FALSE]],
         UNCHANGED <<pidFile, stolen>>, TypeOK'
  PROVE  LockInv'
<1> USE DEF LockInv
<1>1. \A e \in Daemon :
        /\ daemon'[e].file = IF e = d THEN Nobody ELSE daemon[e].file
        /\ daemon'[e].locked = IF e = d THEN FALSE ELSE daemon[e].locked
        /\ daemon'[e].pc = IF e = d THEN step ELSE daemon[e].pc
  BY DEF TypeOK
<1>2. FilesOpen'
  BY <1>1 DEF FilesOpen, OpenSteps
<1>3. OneLockPerFile'
  BY <1>1 DEF OneLockPerFile
<1>4. OpenFilesNamed'
  BY <1>1 DEF OpenFilesNamed, OpenSteps
<1> QED
  BY <1>2, <1>3, <1>4

(* Somebody removes the pid file, and no step of a daemon that has it open *)
(* counts for more than before.                                            *)
LEMMA InvRemoved ==
  ASSUME LockInv, NEW d \in Process, pidFile' = Nobody,
         stolen' = (stolen \/ Steals(d)), UNCHANGED daemon, TypeOK',
         d \in Daemon => daemon[d].pc \notin OpenSteps
  PROVE  LockInv'
<1> USE DEF LockInv
<1>1. FilesOpen' /\ OneLockPerFile'
  BY DEF FilesOpen, OneLockPerFile
<1>2. OpenFilesNamed'
  BY DEF OpenFilesNamed, FilesOpen, Steals, OpenSteps
<1> QED
  BY <1>1, <1>2

-----------------------------------------------------------------------------
(* The steps that open, lock and remove the pid file.                      *)

LEMMA CreateInv ==
  ASSUME LockInv, NEW d \in Daemon, CreatePidFile(d), TypeOK'
  PROVE  LockInv'
<1> DEFINE opened == IF pidFile = Nobody THEN d ELSE pidFile
<1>1. opened \in Daemon /\ opened # Nobody
  BY DaemonAssumption DEF LockInv, TypeOK, Process
<1>2. /\ daemon' = [daemon EXCEPT ![d].pc = "lock", ![d].file = opened]
      /\ pidFile' = opened /\ stolen' = stolen /\ daemon[d].pc = "create"
  BY DEF CreatePidFile, At
<1>3. pidFile # Nobody => opened = pidFile
  OBVIOUS
<1> HIDE DEF opened
<1>4. \A e \in Daemon :
        /\ daemon'[e].file = IF e = d THEN opened ELSE daemon[e].file
        /\ daemon'[e].locked = daemon[e].locked
        /\ daemon'[e].pc = IF e = d THEN "lock" ELSE daemon[e].pc
  BY <1>2 DEF LockInv, TypeOK
<1>5. ~daemon[d].locked
  BY <1>2 DEF LockInv, FilesOpen, HoldingSteps, LockedSteps, ShutdownSteps
<1>6. FilesOpen'
  BY <1>1, <1>4, <1>5
     DEF LockInv, FilesOpen, OpenSteps, HoldingSteps, LockedSteps,
         ShutdownSteps
<1>7. OneLockPerFile'
  BY <1>4, <1>5 DEF LockInv, OneLockPerFile
<1>8. OpenFilesNamed'
  <2> SUFFICES ASSUME ~stolen, NEW e \in Daemon, e # d,
                      daemon[e].pc \in OpenSteps \ {"remove version"}
               PROVE  daemon[e].file = opened
    BY <1>2, <1>4 DEF OpenFilesNamed
  <2>1. daemon[e].file = pidFile /\ daemon[e].file # Nobody
    BY DEF LockInv, OpenFilesNamed, FilesOpen
  <2> QED
    BY <1>3, <2>1
<1> QED
  BY <1>6, <1>7, <1>8 DEF LockInv

LEMMA TryLockInv ==
  ASSUME LockInv, NEW d \in Daemon, TryLock(d), TypeOK'
  PROVE  LockInv'
<1>1. CASE FailStartup(d)
  BY <1>1, InvGivesUp
     DEF TryLock, FailStartup, files, DaemonPc, OpenSteps, HoldingSteps,
         LockedSteps, CleanupSteps, ShutdownSteps
<1>2. CASE ~FailStartup(d)
  <2>1. /\ daemon' = [daemon EXCEPT ![d].locked = TRUE, ![d].pc = "pid"]
        /\ UNCHANGED <<pidFile, stolen>> /\ daemon[d].pc = "lock"
    BY <1>2 DEF TryLock, At, files
  <2>2. \A e \in Daemon : daemon[e].locked => daemon[e].file # daemon[d].file
    BY <1>2 DEF TryLock, LockHeld
  <2>3. \A e \in Daemon :
          /\ daemon'[e].file = daemon[e].file
          /\ daemon'[e].locked = IF e = d THEN TRUE ELSE daemon[e].locked
          /\ daemon'[e].pc = IF e = d THEN "pid" ELSE daemon[e].pc
    BY <2>1 DEF LockInv, TypeOK
  <2>4. FilesOpen'
    BY <2>1, <2>3
       DEF LockInv, FilesOpen, OpenSteps, HoldingSteps, LockedSteps
  <2>5. OneLockPerFile'
    <3> SUFFICES ASSUME NEW e \in Daemon, NEW f \in Daemon,
                        daemon'[e].locked, daemon'[f].locked,
                        daemon'[e].file = daemon'[f].file
                 PROVE  e = f
      BY DEF OneLockPerFile
    <3>1. daemon[e].file = daemon[f].file
      BY <2>3
    <3>2. CASE e # d /\ f # d
      <4>1. daemon[e].locked /\ daemon[f].locked
        BY <2>3, <3>2
      <4> QED
        BY <3>1, <4>1 DEF LockInv, OneLockPerFile
    <3>3. CASE e = d /\ f # d
      <4>1. daemon[f].locked
        BY <2>3, <3>3
      <4> QED
        BY <2>2, <3>1, <3>3, <4>1
    <3>4. CASE e # d /\ f = d
      <4>1. daemon[e].locked
        BY <2>3, <3>4
      <4> QED
        BY <2>2, <3>1, <3>4, <4>1
    <3> QED
      BY <3>2, <3>3, <3>4
  <2>6. OpenFilesNamed'
    BY <2>1, <2>3 DEF LockInv, OpenFilesNamed, OpenSteps
  <2> QED
    BY <2>4, <2>5, <2>6 DEF LockInv
<1> QED
  BY <1>1, <1>2

LEMMA RemoveFileInv ==
  ASSUME LockInv, NEW d \in Daemon, RemoveFile(d), TypeOK'
  PROVE  LockInv'
<1> USE DEF OpenSteps, HoldingSteps, LockedSteps, ShutdownSteps, CleanupSteps
<1>1. CASE daemon[d].pc \in {"cleanup socket", "cleanup version"}
  <2>1. /\ Goto(d, After(daemon[d].pc)) /\ UNCHANGED <<pidFile, stolen>>
        /\ After(daemon[d].pc) \in DaemonPc \ OpenSteps
        /\ daemon[d].pc \in DaemonPc \ OpenSteps
    BY <1>1 DEF RemoveFile, RemovalOf, After, DaemonPc, LockInv, TypeOK
  <2> QED
    BY <2>1, InvGoto
<1>2. CASE daemon[d].pc = "remove socket"
  <2>1. /\ Goto(d, "remove pid") /\ UNCHANGED <<pidFile, stolen>>
    BY <1>2 DEF RemoveFile, RemovalOf, After, LockInv, TypeOK
  <2> QED
    BY <1>2, <2>1, InvGoto
<1>3. CASE daemon[d].pc = "remove version"
  <2>1. /\ Dies(d) /\ UNCHANGED <<pidFile, stolen>>
    BY <1>3 DEF RemoveFile, RemovalOf, After, LockInv, TypeOK
  <2> QED
    BY <2>1, InvGivesUp DEF Dies, Exited, DaemonPc
<1>4. CASE daemon[d].pc \in {"cleanup pid", "remove pid"}
  <2>1. pidFile' = Nobody /\ stolen' = (stolen \/ Steals(d))
    BY <1>4 DEF RemoveFile, RemovalOf
  <2>2. ASSUME ~stolen', NEW e \in Daemon, e # d,
               daemon[e].pc \in OpenSteps \ {"remove version"}
        PROVE  FALSE
    <3>1. daemon[e].file = pidFile /\ pidFile # Nobody
      BY <2>1, <2>2 DEF LockInv, OpenFilesNamed, FilesOpen
    <3> QED
      BY <2>1, <2>2, <3>1 DEF Steals
  <2>3. CASE daemon[d].pc = "cleanup pid"
    <3>1. daemon' = [daemon EXCEPT ![d] = Exited]
      BY <2>3 DEF RemoveFile, RemovalOf, After, Dies
    <3>2. \A e \in Daemon :
            /\ daemon'[e].file = IF e = d THEN Nobody ELSE daemon[e].file
            /\ daemon'[e].locked = IF e = d THEN FALSE ELSE daemon[e].locked
            /\ daemon'[e].pc = IF e = d THEN "dead" ELSE daemon[e].pc
      BY <3>1 DEF LockInv, TypeOK, Exited
    <3>3. FilesOpen' /\ OneLockPerFile'
      BY <3>2 DEF LockInv, FilesOpen, OneLockPerFile
    <3>4. OpenFilesNamed'
      BY <2>2, <3>2 DEF OpenFilesNamed
    <3> QED
      BY <3>3, <3>4 DEF LockInv
  <2>4. CASE daemon[d].pc = "remove pid"
    <3>1. daemon' = [daemon EXCEPT ![d].pc = "remove version"]
      BY <2>4 DEF RemoveFile, RemovalOf, After, Goto
    <3>2. \A e \in Daemon :
            /\ daemon'[e].file = daemon[e].file
            /\ daemon'[e].locked = daemon[e].locked
            /\ daemon'[e].pc = IF e = d THEN "remove version"
                               ELSE daemon[e].pc
      BY <3>1 DEF LockInv, TypeOK
    <3>3. FilesOpen'
      BY <2>4, <3>2 DEF LockInv, FilesOpen
    <3>4. OneLockPerFile'
      BY <3>2 DEF LockInv, OneLockPerFile
    <3>5. OpenFilesNamed'
      BY <2>2, <3>2 DEF OpenFilesNamed
    <3> QED
      BY <3>3, <3>4, <3>5 DEF LockInv
  <2> QED
    BY <1>4, <2>3, <2>4
<1> QED
  BY <1>1, <1>2, <1>3, <1>4 DEF RemoveFile

-----------------------------------------------------------------------------
(* Every step.                                                             *)

LEMMA DaemonInv ==
  ASSUME LockInv, NEW d \in Daemon,
         DaemonStep(d) \/ StartFails(d) \/ Crash(d) \/ Signal(d)
  PROVE  LockInv'
<1> USE DEF OpenSteps, HoldingSteps, LockedSteps, ShutdownSteps, CleanupSteps,
            At, files
<1>0. TypeOK'
  BY DaemonTypeOK DEF LockInv
<1>1. ASSUME FailStartup(d) \/ Dies(d), UNCHANGED <<pidFile, stolen>>
      PROVE  LockInv'
  BY <1>0, <1>1, InvGivesUp DEF FailStartup, Dies, Exited, DaemonPc
<1>2. ASSUME daemon[d].pc \in HoldingSteps \ {"remove version"},
             NEW step \in HoldingSteps, Goto(d, step),
             UNCHANGED <<pidFile, stolen>>
      PROVE  LockInv'
  BY <1>0, <1>2, InvGoto
<1>3. CASE CreatePidFile(d)
  BY <1>0, <1>3, CreateInv
<1>4. CASE TryLock(d)
  BY <1>0, <1>4, TryLockInv
<1>5. CASE WritePid(d)
  BY <1>2, <1>5 DEF WritePid
<1>6. CASE WriteVersion(d)
  BY <1>2, <1>6 DEF WriteVersion
<1>7. CASE Load(d)
  BY <1>2, <1>7 DEF Load
<1>8. CASE UnlinkSocket(d)
  BY <1>2, <1>8 DEF UnlinkSocket
<1>9. CASE Bind(d)
  BY <1>1, <1>2, <1>9 DEF Bind
<1>10. CASE RemoveFile(d)
  BY <1>0, <1>10, RemoveFileInv
<1>11. CASE StartFails(d)
  BY <1>1, <1>11 DEF StartFails
<1>12. CASE Crash(d)
  BY <1>1, <1>12 DEF Crash
<1>13. CASE Signal(d)
  BY <1>2, <1>13 DEF Signal
<1> QED
  BY <1>3, <1>4, <1>5, <1>6, <1>7, <1>8, <1>9, <1>10, <1>11, <1>12, <1>13
     DEF DaemonStep

LEMMA ClientInv ==
  ASSUME LockInv, NEW c \in Client,
         ClientStep(c) \/ GiveUp(c) \/ \E op \in Ops : Begin(c, op)
  PROVE  LockInv'
<1> USE DEF OpenSteps, HoldingSteps, LockedSteps, ShutdownSteps, At, files
<1>0. TypeOK'
  BY ClientTypeOK DEF LockInv
<1>1. ASSUME UNCHANGED <<pidFile, daemon, stolen>>
      PROVE  LockInv'
  BY <1>0, <1>1, InvUntouched
<1>2. CASE SpawnDaemon(c)
  <2> DEFINE d == CHOOSE d \in Unborn : TRUE
  <2>1. d \in Daemon /\ daemon[d].pc = "unborn"
    BY <1>2 DEF SpawnDaemon, Unborn
  <2>2. Goto(d, "create") /\ UNCHANGED <<pidFile, stolen>>
    BY <1>2 DEF SpawnDaemon
  <2> HIDE DEF d
  <2>3. {"unborn", "create"} \subseteq DaemonPc \ OpenSteps
    BY DEF DaemonPc
  <2> QED
    BY <1>0, <2>1, <2>2, <2>3, InvGoto
<1>3. CASE Answer(c)
  <2>1. CASE UNCHANGED daemon
    BY <1>1, <1>3, <2>1 DEF Answer
  <2>2. CASE Goto(client[c].peer, "remove socket")
    <3>1. /\ client[c].peer \in Daemon
          /\ daemon[client[c].peer].pc = "serving"
          /\ UNCHANGED <<pidFile, stolen>>
      BY <1>3 DEF Answer, Alive
    <3> QED
      BY <1>0, <2>2, <3>1, InvGoto
  <2> QED
    BY <1>3, <2>1, <2>2 DEF Answer
<1>4. CASE StopNotRunning(c) \/ Tidy(c)
  <2>1. /\ pidFile' = Nobody /\ stolen' = (stolen \/ Steals(Nobody))
        /\ UNCHANGED daemon
    BY <1>4 DEF StopNotRunning, Tidy, RemovePidFile
  <2> QED
    BY <1>0, <2>1, InvRemoved, DaemonAssumption DEF Process
<1>5. CASE ForceKill(c)
  <2>1. CASE UNCHANGED daemon
    BY <1>1, <1>5, <2>1 DEF ForceKill
  <2>2. CASE Alive(client[c].pid) /\ Dies(client[c].pid)
    BY <1>0, <1>5, <2>2, InvGivesUp
       DEF ForceKill, Alive, Dies, Exited, DaemonPc
  <2> QED
    BY <1>5, <2>1, <2>2 DEF ForceKill
<1>6. CASE GiveUp(c)
  BY <1>1, <1>6 DEF GiveUp
<1>7. CASE \E op \in Ops : Begin(c, op)
  BY <1>1, <1>7 DEF Begin
<1>8. CASE \/ AskStatus(c) \/ CheckVersion(c) \/ Connect(c) \/ WatchChild(c)
           \/ LookForSocket(c) \/ Send(c) \/ LoseConnection(c) \/ ReadPid(c)
           \/ WaitForExit(c)
  BY <1>1, <1>8
     DEF AskStatus, CheckVersion, Connect, WatchChild, LookForSocket, Send,
         LoseConnection, ReadPid, WaitForExit, ClientOnly
<1> QED
  BY <1>2, <1>3, <1>4, <1>5, <1>6, <1>7, <1>8 DEF ClientStep

LEMMA StepInv == LockInv /\ [Next]_vars => LockInv'
<1> SUFFICES ASSUME LockInv, [Next]_vars PROVE LockInv'
  OBVIOUS
<1>1. CASE Next
  BY <1>1, DaemonInv, ClientInv DEF Next
<1>2. CASE UNCHANGED vars
  BY <1>2
     DEF vars, files, boundVars, LockInv, TypeOK, FilesOpen, OneLockPerFile,
         OpenFilesNamed
<1> QED
  BY <1>1, <1>2

LEMMA InvariantLock == Spec => []LockInv
BY InitInv, StepInv, PTL DEF Spec

-----------------------------------------------------------------------------

(* Every state of the files, the daemons and the clients is typed.         *)
THEOREM LifecycleTypeOK == Spec => []TypeOK
<1>1. LockInv => TypeOK
  BY DEF LockInv
<1> QED
  BY <1>1, InvariantLock, PTL

(* Two daemons between the lock and the shutdown would have locked one and *)
(* the same file, the one at the path.                                     *)
LEMMA LockInvExcludes == LockInv => LockExcludes
<1> SUFFICES ASSUME LockInv, ~stolen, NEW d \in Daemon, NEW e \in Daemon,
                    daemon[d].pc \in LockedSteps \cup {"serving"},
                    daemon[e].pc \in LockedSteps \cup {"serving"}
             PROVE  d = e
  BY DEF LockExcludes
<1>1. {daemon[d].pc, daemon[e].pc}
        \subseteq HoldingSteps \cap (OpenSteps \ {"remove version"})
  BY DEF OpenSteps, HoldingSteps, LockedSteps
<1>2. daemon[d].locked /\ daemon[e].locked
  BY <1>1 DEF LockInv, FilesOpen
<1>3. daemon[d].file = pidFile /\ daemon[e].file = pidFile
  BY <1>1 DEF LockInv, OpenFilesNamed
<1> QED
  BY <1>2, <1>3 DEF LockInv, OneLockPerFile

(* As long as nobody removes a pid file that another daemon has open, the  *)
(* lock lets at most one daemon past it.                                   *)
THEOREM LifecycleLockExcludes == Spec => []LockExcludes
BY InvariantLock, LockInvExcludes, PTL

-----------------------------------------------------------------------------
(* Commands run one after another.                                         *)

LEMMA StepKinds ==
  /\ Starting = {"create", "lock", "pid", "version", "load", "unlink", "bind",
                 "cleanup socket", "cleanup version", "cleanup pid"}
  /\ LockedSteps = {"pid", "version", "load", "unlink", "bind"}
  /\ Stopping = {"remove socket", "remove pid"}
BY DEF Starting, LockedSteps, CleanupSteps, Stopping

(* What the one command at work knows of the one active daemon.            *)
LEMMA OnlyOnes ==
  ASSUME QuietInv, ~disturbed, NEW c \in AtWork, NEW d \in Active
  PROVE  /\ AtWork = {c} /\ Active = {d} /\ d \in Daemon /\ HasFiles(d)
         /\ daemon[d].pc \in Starting => Watches(c, d)
         /\ daemon[d].pc \in Stopping => Awaits(c, d)
         /\ daemon[d].pc = "serving"  => TalksTo(c, d)
BY DEF QuietInv, OneAtATime, Accounted, Active

LEMMA NobodyActive ==
  ASSUME Active' = {}, \A b, c \in AtWork' : b = c
  PROVE  QuietInv'
BY DEF QuietInv, OneAtATime, Accounted

(* The active daemon takes a step.                                         *)
LEMMA ActiveMoves ==
  ASSUME QuietInv, ~disturbed, NEW d \in Active,
         UNCHANGED <<client, disturbed>>,
         \A e \in Daemon \ {d} : daemon'[e] = daemon[e],
         daemon'[d].pc \in Starting =>
           daemon[d].pc \in Starting /\ socket' \in {socket, Nobody},
         daemon'[d].pc \in Stopping => daemon[d].pc \in Stopping,
         daemon'[d].pc = "serving" => daemon[d].pc \in Starting,
         HasFiles(d)'
  PROVE  QuietInv'
<1>1. Active = {d} /\ \A b, c \in AtWork : b = c
  BY DEF QuietInv, OneAtATime
<1>2. Active' \subseteq {d}
  BY <1>1 DEF Active
<1>3. AtWork' = AtWork
  BY DEF AtWork
<1>4. daemon'[d].pc \in Starting => \E c \in AtWork : Watches(c, d)'
  BY DEF QuietInv, Accounted, Watches
<1>5. daemon'[d].pc \in Stopping => \E c \in AtWork : Awaits(c, d)'
  BY DEF QuietInv, Accounted, Awaits
<1>6. daemon'[d].pc = "serving" => \A c \in AtWork : TalksTo(c, d)'
  <2> SUFFICES ASSUME daemon[d].pc \in Starting, NEW c \in AtWork
               PROVE  TalksTo(c, d)'
    OBVIOUS
  <2>1. Watches(c, d)
    BY OnlyOnes
  <2> QED BY <2>1 DEF Watches, TalksTo
<1>7. OneAtATime' /\ Accounted'
  BY <1>1, <1>2, <1>3, <1>4, <1>5, <1>6 DEF OneAtATime, Accounted
<1> QED BY <1>2, <1>7 DEF QuietInv

(* A daemon that is not active takes one.                                  *)
LEMMA InactiveMoves ==
  ASSUME QuietInv, NEW d \in Daemon \ Active,
         UNCHANGED <<client, disturbed, socket, pidFile, text>>,
         \A e \in Daemon \ {d} : daemon'[e] = daemon[e], d \notin Active'
  PROVE  QuietInv'
<1>1. Active' = Active /\ AtWork' = AtWork
  BY DEF Active, AtWork
<1>2. \A e \in Active : daemon'[e] = daemon[e]
  BY DEF Active
<1> QED BY <1>1, <1>2
        DEF QuietInv, OneAtATime, Accounted, HasFiles, Watches, Awaits, TalksTo

(* The command at work takes a step that changes no file.                  *)
LEMMA CommandMoves ==
  ASSUME QuietInv, ~disturbed, NEW c \in AtWork,
         UNCHANGED <<socket, pidFile, text, daemon>>,
         \A b \in Client \ {c} : client'[b] = client[b],
         \A d \in Active :
           /\ daemon[d].pc \in Starting => client'[c].pc # "idle" /\ Watches(c, d)'
           /\ daemon[d].pc \in Stopping => client'[c].pc # "idle" /\ Awaits(c, d)'
           /\ daemon[d].pc = "serving" => client'[c].pc = "idle" \/ TalksTo(c, d)'
  PROVE  QuietInv'
<1>1. AtWork = {c} /\ c \in Client
  BY DEF QuietInv, OneAtATime, AtWork
<1>2. /\ AtWork' \subseteq {c}
      /\ client'[c].pc # "idle" <=> c \in AtWork'
  BY <1>1 DEF AtWork
<1>3. Active' = Active
  BY DEF Active
<1>4. OneAtATime' /\ Accounted'
  BY <1>2, <1>3 DEF QuietInv, OneAtATime, Accounted
<1> QED BY <1>3, <1>4 DEF QuietInv, HasFiles

LEMMA DaemonQuiet ==
  ASSUME TypeOK, QuietInv, NEW d \in Daemon,
         DaemonStep(d) \/ StartFails(d) \/ Crash(d) \/ Signal(d)
  PROVE  QuietInv'
<1> SUFFICES ASSUME ~disturbed' PROVE QuietInv'
  BY DEF QuietInv
<1> USE StepKinds DEF At, DaemonOnly, files
<1>0. /\ daemon \in [Daemon -> DaemonRecord] /\ pidFile \in Process
      /\ text \in [Daemon -> Process]
  BY DEF TypeOK, DaemonRecord
<1>1. ~disturbed /\ UNCHANGED <<client, disturbed>>
  <2>1. CASE DaemonStep(d)
    <3>1. DaemonOnly
      BY <2>1 DEF DaemonStep, CreatePidFile, TryLock, WritePid, WriteVersion,
                  Load, UnlinkSocket, Bind, RemoveFile
    <3> QED BY <3>1
  <2>2. CASE StartFails(d) \/ Crash(d)
    <3>1. UNCHANGED <<client, disturbed>>
      BY <2>2 DEF StartFails, Crash
    <3> QED BY <3>1
  <2>3. ~Signal(d)
    BY DEF Signal
  <2> QED BY <2>1, <2>2, <2>3
<1>2. ASSUME daemon[d].pc \in Starting \cup {"serving"} \cup Stopping
      PROVE  d \in Active /\ HasFiles(d)
  BY <1>1, <1>2 DEF Active, QuietInv
<1>3. ASSUME daemon[d].pc \in Starting, FailStartup(d), socket' \in {socket, Nobody}
      PROVE  QuietInv'
  <2>1. /\ \A e \in Daemon \ {d} : daemon'[e] = daemon[e]
        /\ daemon'[d].pc = "cleanup socket"
    BY <1>0, <1>3 DEF FailStartup
  <2>2. HasFiles(d)'
    BY <2>1 DEF HasFiles
  <2> QED BY <1>1, <1>2, <1>3, <2>1, <2>2, ActiveMoves
<1>4. ASSUME daemon[d].pc \in Starting, NEW step \in Starting, Goto(d, step),
             socket' \in {socket, Nobody},
             /\ step = "pid" => pidFile' # Nobody /\ daemon[d].file = pidFile'
             /\ step \in LockedSteps \ {"pid"} =>
                  pidFile' # Nobody /\ text'[pidFile'] = d,
             step # "lock"
      PROVE  QuietInv'
  <2>1. /\ \A e \in Daemon \ {d} : daemon'[e] = daemon[e]
        /\ daemon'[d].pc = step /\ daemon'[d].file = daemon[d].file
    BY <1>0, <1>4 DEF Goto, DaemonRecord
  <2>2. HasFiles(d)'
    BY <1>4, <2>1 DEF HasFiles
  <2> QED BY <1>1, <1>2, <1>4, <2>1, <2>2, ActiveMoves
<1>5. ASSUME Dies(d), UNCHANGED <<socket, pidFile, text>>
      PROVE  QuietInv'
  <2>1. /\ \A e \in Daemon \ {d} : daemon'[e] = daemon[e]
        /\ daemon'[d].pc = "dead"
    BY <1>0, <1>5 DEF Dies, Exited
  <2>2. HasFiles(d)'
    BY <2>1 DEF HasFiles
  <2>3. d \notin Active'
    BY <2>1 DEF Active
  <2> QED BY <1>1, <1>5, <2>1, <2>2, <2>3, ActiveMoves, InactiveMoves
<1>6. CASE CreatePidFile(d)
  <2>1. PICK file : file = IF pidFile = Nobody THEN d ELSE pidFile
    OBVIOUS
  <2>2. /\ file # Nobody /\ pidFile' = file /\ socket' = socket
        /\ daemon' = [daemon EXCEPT ![d].pc = "lock", ![d].file = file]
        /\ daemon[d].pc = "create"
    BY <1>6, <2>1, DaemonAssumption DEF CreatePidFile
  <2>3. /\ \A e \in Daemon \ {d} : daemon'[e] = daemon[e]
        /\ daemon'[d].pc = "lock" /\ daemon'[d].file = file
    BY <1>0, <2>2 DEF DaemonRecord
  <2>4. /\ daemon'[d].pc \notin Stopping \cup {"serving"}
        /\ daemon'[d].pc \notin LockedSteps
    <3>1. daemon'[d].pc = "lock"
      BY <2>3
    <3> QED BY ONLY <3>1, StepKinds
  <2>5. HasFiles(d)'
    <3>1. daemon'[d].file = pidFile' /\ pidFile' # Nobody
      BY <2>2, <2>3
    <3> QED BY ONLY <2>4, <3>1 DEF HasFiles
  <2>6. d \in Active /\ daemon[d].pc \in Starting
    BY <1>2, <2>2
  <2>7. socket' \in {socket, Nobody}
    BY <2>2
  <2> QED BY <1>1, <2>3, <2>4, <2>5, <2>6, <2>7, ActiveMoves
<1>7. CASE TryLock(d)
  <2>1. daemon[d].pc = "lock" /\ UNCHANGED <<socket, pidFile, text>>
    BY <1>7 DEF TryLock
  <2>2. CASE FailStartup(d)
    BY <1>3, <2>1, <2>2
  <2>3. CASE ~FailStartup(d)
    <3>0. daemon' = [daemon EXCEPT ![d].locked = TRUE, ![d].pc = "pid"]
      BY <1>7, <2>3 DEF TryLock
    <3>1. /\ \A e \in Daemon \ {d} : daemon'[e] = daemon[e]
          /\ daemon'[d].pc = "pid" /\ daemon'[d].file = daemon[d].file
      BY <1>0, <3>0 DEF DaemonRecord
    <3>2. HasFiles(d)'
      BY <1>2, <2>1, <3>1 DEF HasFiles
    <3> QED BY <1>1, <1>2, <2>1, <3>1, <3>2, ActiveMoves
  <2> QED BY <2>2, <2>3
<1>8. CASE WritePid(d)
  <2>1. /\ daemon[d].pc = "pid" /\ Goto(d, "version")
        /\ UNCHANGED <<socket, pidFile>>
        /\ text' = [text EXCEPT ![daemon[d].file] = d]
    BY <1>8 DEF WritePid
  <2>2. pidFile \in Daemon /\ daemon[d].file = pidFile
    BY <1>0, <1>2, <2>1 DEF HasFiles, Process
  <2>3. text'[pidFile'] = d /\ pidFile' # Nobody
    BY <1>0, <2>1, <2>2, DaemonAssumption
  <2> QED BY <1>4, <2>1, <2>3
<1>9. ASSUME daemon[d].pc \in LockedSteps \ {"pid"},
             UNCHANGED <<pidFile, text>>
      PROVE  pidFile' # Nobody /\ text'[pidFile'] = d
  BY <1>2, <1>9 DEF HasFiles
<1>10. CASE WriteVersion(d) \/ Load(d) \/ UnlinkSocket(d)
  <2>1. PICK step \in {"load", "unlink", "bind"} :
          /\ Goto(d, step) /\ socket' \in {socket, Nobody}
          /\ daemon[d].pc \in LockedSteps \ {"pid"} /\ UNCHANGED <<pidFile, text>>
    BY <1>10 DEF WriteVersion, Load, UnlinkSocket
  <2> QED BY <1>4, <1>9, <2>1
<1>11. CASE Bind(d)
  <2>1. daemon[d].pc = "bind" /\ UNCHANGED <<pidFile, text>>
    BY <1>11 DEF Bind
  <2>2. CASE FailStartup(d) /\ UNCHANGED socket
    BY <1>3, <2>1, <2>2
  <2>3. CASE socket' = d /\ Goto(d, "serving")
    <3>1. /\ \A e \in Daemon \ {d} : daemon'[e] = daemon[e]
          /\ daemon'[d].pc = "serving"
      BY <1>0, <2>3 DEF Goto, DaemonRecord
    <3>2. HasFiles(d)'
      BY <1>9, <2>1, <2>3, <3>1 DEF HasFiles
    <3> QED BY <1>1, <1>2, <2>1, <3>1, <3>2, ActiveMoves
  <2> QED BY <1>11, <2>2, <2>3 DEF Bind
<1>12. CASE RemoveFile(d)
  <2>1. daemon[d].pc \in CleanupSteps \cup ShutdownSteps /\ text' = text
    BY <1>12 DEF RemoveFile
  <2>2. CASE daemon[d].pc \in {"cleanup socket", "cleanup version"}
    <3>1. PICK step \in {"cleanup version", "cleanup pid"} :
            Goto(d, step) /\ socket' \in {socket, Nobody}
      BY <1>12, <2>2 DEF RemoveFile, RemovalOf, After
    <3> QED BY <1>4, <2>2, <3>1
  <2>3. CASE daemon[d].pc = "remove socket"
    <3>1. Goto(d, "remove pid") /\ UNCHANGED <<pidFile, text>>
      BY <1>12, <2>3 DEF RemoveFile, RemovalOf, After
    <3>2. /\ \A e \in Daemon \ {d} : daemon'[e] = daemon[e]
          /\ daemon'[d].pc = "remove pid"
      BY <1>0, <3>1 DEF Goto, DaemonRecord
    <3>3. HasFiles(d)'
      BY <1>2, <2>3, <3>1, <3>2 DEF HasFiles
    <3> QED BY <1>1, <1>2, <2>3, <3>2, <3>3, ActiveMoves
  <2>4. CASE daemon[d].pc \in {"cleanup pid", "remove pid"}
    <3>0. Dies(d) \/ Goto(d, "remove version")
      BY <1>12, <2>4 DEF RemoveFile, After
    <3>1. /\ \A e \in Daemon \ {d} : daemon'[e] = daemon[e]
          /\ daemon'[d].pc \in {"dead", "remove version"}
      <4>1. CASE Dies(d)
        BY <1>0, <4>1 DEF Dies, Exited
      <4>2. CASE Goto(d, "remove version")
        BY <1>0, <4>2 DEF Goto, DaemonRecord
      <4> QED BY <3>0, <4>1, <4>2
    <3>2. daemon'[d].pc \notin Starting \cup {"serving"} \cup Stopping
      BY <3>1
    <3>3. HasFiles(d)'
      BY <3>1 DEF HasFiles
    <3>4. d \in Active
      BY <1>2, <2>4
    <3> QED BY <1>1, <3>1, <3>2, <3>3, <3>4, ActiveMoves
  <2>5. CASE daemon[d].pc = "remove version"
    <3>1. Dies(d) /\ UNCHANGED <<socket, pidFile, text>>
      BY <1>12, <2>5 DEF RemoveFile, RemovalOf, After
    <3> QED BY <1>5, <3>1
  <2> QED BY <2>1, <2>2, <2>3, <2>4, <2>5 DEF CleanupSteps, ShutdownSteps
<1>13. CASE StartFails(d)
  BY <1>3, <1>13 DEF StartFails
<1>14. CASE Crash(d)
  BY <1>5, <1>14 DEF Crash
<1>15. CASE Signal(d)
  BY <1>15 DEF Signal
<1> QED BY <1>6, <1>7, <1>8, <1>10, <1>11, <1>12, <1>13, <1>14, <1>15
        DEF DaemonStep

LEMMA CommandQuiet ==
  ASSUME TypeOK, QuietInv, NEW c \in Client,
         ClientStep(c) \/ GiveUp(c) \/ \E op \in Ops : Begin(c, op)
  PROVE  QuietInv'
<1> SUFFICES ASSUME ~disturbed' PROVE QuietInv'
  BY DEF QuietInv
<1> USE DEF Does, At
<1>0. client \in [Client -> ClientRecord] /\ daemon \in [Daemon -> DaemonRecord]
  BY DEF TypeOK, ClientRecord, DaemonRecord
<1>1. ~disturbed
  BY DEF ClientStep, AskStatus, CheckVersion, SpawnDaemon, Connect, WatchChild,
         LookForSocket, Send, Answer, LoseConnection, StopNotRunning, ReadPid,
         WaitForExit, ForceKill, Tidy, GiveUp, Begin, ClientOnly
<1>2. ~GiveUp(c)
  BY DEF GiveUp
<1>3. c \in AtWork => \A d \in Active :
        /\ AtWork = {c} /\ d \in Daemon /\ HasFiles(d)
        /\ daemon[d].pc \in Starting => Watches(c, d)
        /\ daemon[d].pc \in Stopping => Awaits(c, d)
        /\ daemon[d].pc = "serving"  => TalksTo(c, d)
        /\ daemon[d].pc = "serving"  => socket = d
  BY <1>1, OnlyOnes DEF HasFiles
<1>4. \A d \in Active : Alive(d) /\ daemon[d].pc \in Starting \cup {"serving"} \cup Stopping
  BY StepKinds DEF Active, Alive
(* A command that turns to another step, or ends.                          *)
<1>5. ASSUME NEW step, Turn(c, step)
      PROVE  /\ \A b \in Client \ {c} : client'[b] = client[b]
             /\ client'[c] = [client[c] EXCEPT !.pc = step]
             /\ client'[c].pc = step
  BY <1>0, <1>5 DEF Turn, ClientRecord
<1>6. ASSUME NEW outcome, Ends(c, outcome)
      PROVE  /\ \A b \in Client \ {c} : client'[b] = client[b]
             /\ client'[c].pc = "idle"
  BY <1>0, <1>6 DEF Ends, NoCommand
(* Only a daemon that serves goes on while a command is between these.     *)
<1>7. ASSUME c \in AtWork, UNCHANGED <<socket, pidFile, text, daemon>>,
             client[c].pc \in {"status", "version", "connect", "send", "reply"},
             \/ \E step \in {"version", "connect", "send"} : Turn(c, step)
             \/ \E outcome : Ends(c, outcome)
      PROVE  QuietInv'
  <2>1. /\ \A b \in Client \ {c} : client'[b] = client[b]
        /\ client'[c].pc \in {"idle", "version", "connect", "send"}
    BY <1>5, <1>6, <1>7
  <2>2. \A d \in Active : ~Watches(c, d) /\ ~Awaits(c, d)
    BY <1>7 DEF Watches, Awaits
  <2>3. \A d \in Active : TalksTo(c, d)'
    BY <2>1 DEF TalksTo
  <2> QED BY <1>1, <1>3, <1>4, <1>7, <2>1, <2>2, <2>3, CommandMoves
(* ... and none at all once an exchange has come to nothing.               *)
<1>8. ASSUME c \in AtWork, UNCHANGED <<socket, pidFile, text, daemon>>,
             client[c].pc \in {"send", "reply"}, NEW outcome, Unanswered(c, outcome),
             \A d \in Active : daemon[d].pc # "serving"
      PROVE  QuietInv'
  <2>1. \A d \in Active : ~Watches(c, d) /\ ~Awaits(c, d)
    BY <1>8 DEF Watches, Awaits
  <2>2. Active = {}
    BY <1>3, <1>4, <1>8, <2>1
  <2>3. \A b \in Client \ {c} : client'[b] = client[b]
    BY <1>5, <1>6, <1>8 DEF Unanswered
  <2> QED BY <1>1, <1>8, <2>2, <2>3, CommandMoves
<1>9. CASE AskStatus(c) \/ CheckVersion(c) \/ Connect(c)
  <2>1. /\ c \in AtWork /\ UNCHANGED <<socket, pidFile, text, daemon>>
        /\ client[c].pc \in {"status", "version", "connect"}
    BY <1>9 DEF AskStatus, CheckVersion, Connect, ClientOnly, files, AtWork
  <2>2. \/ \E step \in {"version", "connect", "send"} : Turn(c, step)
        \/ \E outcome : Ends(c, outcome)
    BY <1>9 DEF AskStatus, CheckVersion, Connect, Connected
  <2> QED BY <1>7, <2>1, <2>2
<1>10. CASE Send(c)
  <2>1. /\ c \in AtWork /\ UNCHANGED <<socket, pidFile, text, daemon>>
        /\ client[c].pc = "send"
    BY <1>10 DEF Send, ClientOnly, files, AtWork
  <2>2. CASE ~Alive(socket)
    <3>1. \A d \in Active : daemon[d].pc # "serving"
      BY <1>3, <1>4, <2>1, <2>2
    <3> QED BY <1>8, <1>10, <2>1, <2>2, <3>1 DEF Send
  <2>3. CASE Alive(socket)
    <3>1. client' = [client EXCEPT ![c].pc = "reply", ![c].peer = socket]
      BY <1>10, <2>3 DEF Send
    <3>2. /\ \A b \in Client \ {c} : client'[b] = client[b]
          /\ client'[c].pc = "reply" /\ client'[c].peer = socket
      BY <1>0, <3>1 DEF ClientRecord
    <3>3. \A d \in Active : ~Watches(c, d) /\ ~Awaits(c, d)
      BY <2>1 DEF Watches, Awaits
    <3>4. \A d \in Active : daemon[d].pc = "serving" => TalksTo(c, d)'
      BY <1>3, <2>1, <3>2 DEF TalksTo
    <3> QED BY <1>1, <1>3, <2>1, <3>2, <3>3, <3>4, CommandMoves
  <2> QED BY <2>2, <2>3
<1>11. CASE LoseConnection(c)
  <2>1. /\ c \in AtWork /\ UNCHANGED <<socket, pidFile, text, daemon>>
        /\ client[c].pc = "reply" /\ ~Alive(client[c].peer)
        /\ Unanswered(c, "lost")
    BY <1>11 DEF LoseConnection, ClientOnly, files, AtWork
  <2>2. \A d \in Active : daemon[d].pc # "serving"
    BY <1>3, <1>4, <2>1 DEF TalksTo
  <2> QED BY <1>8, <2>1, <2>2
<1>12. CASE WatchChild(c) \/ LookForSocket(c)
  <2>1. /\ c \in AtWork /\ UNCHANGED <<socket, pidFile, text, daemon>>
        /\ client[c].pc \in {"child", "socket"}
    BY <1>12 DEF WatchChild, LookForSocket, ClientOnly, files, AtWork
  <2>2. \/ \E step \in {"child", "socket", "send"} : Turn(c, step)
        \/ \E outcome : Ends(c, outcome)
    BY <1>12 DEF WatchChild, LookForSocket, Connected
  <2>3. /\ \A b \in Client \ {c} : client'[b] = client[b]
        /\ client'[c].pc \in {"idle", "child", "socket", "send"}
    BY <1>5, <1>6, <2>2
  <2>4. \A d \in Active : ~Awaits(c, d) /\ TalksTo(c, d)'
    BY <2>1, <2>3 DEF Awaits, TalksTo
  <2>5. ASSUME NEW d \in Active, daemon[d].pc \in Starting
        PROVE  client'[c].pc # "idle" /\ Watches(c, d)'
    <3>1. /\ client[c].child = d /\ daemon[d].pc \notin {"serving", "dead"}
          /\ IF client[c].op = "foreground" THEN client[c].pc = "child"
             ELSE socket = Nobody
      BY <1>3, <2>1, <2>5, StepKinds DEF Watches
    <3>2. \/ Turn(c, "socket") /\ client[c].op # "foreground"
          \/ Turn(c, "child") /\ client[c].op # "foreground"
      BY <1>12, <3>1 DEF WatchChild, LookForSocket
    <3>3. /\ client'[c].child = d /\ client'[c].op = client[c].op
          /\ client'[c].pc \in {"child", "socket"}
      BY <1>0, <1>5, <3>1, <3>2 DEF ClientRecord
    <3> QED BY <2>1, <3>1, <3>2, <3>3 DEF Watches
  <2> QED BY <1>1, <1>3, <2>1, <2>3, <2>4, <2>5, CommandMoves
<1>13. CASE SpawnDaemon(c)
  <2> PICK d : d = CHOOSE e \in Unborn : TRUE
    OBVIOUS
  <2>1. /\ c \in AtWork /\ UNCHANGED <<socket, pidFile, text>>
        /\ client[c].pc = "connect"
        /\ d \in Daemon /\ daemon[d].pc = "unborn" /\ Goto(d, "create")
        /\ client' = [client EXCEPT ![c].pc = "child", ![c].child = d]
        /\ client[c].op = "foreground" => \A e \in Daemon : ~Alive(e)
        /\ client[c].op # "foreground" => socket = Nobody
    BY <1>13 DEF SpawnDaemon, Unborn, files, AtWork
  <2>2. Active = {}
    <3> SUFFICES ASSUME NEW e \in Active PROVE FALSE
      OBVIOUS
    <3>1. ~Watches(c, e) /\ ~Awaits(c, e)
      BY <2>1 DEF Watches, Awaits
    <3>2. daemon[e].pc = "serving" /\ socket = e /\ e \in Daemon
      BY <1>3, <1>4, <2>1, <3>1
    <3> QED BY <1>4, <2>1, <3>2, DaemonAssumption
  <2>3. /\ \A b \in Client \ {c} : client'[b] = client[b]
        /\ client'[c].pc = "child" /\ client'[c].child = d
        /\ client'[c].op = client[c].op
    BY <1>0, <2>1 DEF ClientRecord
  <2>4. /\ \A e \in Daemon \ {d} : daemon'[e] = daemon[e]
        /\ daemon'[d].pc = "create"
    BY <1>0, <2>1 DEF Goto, DaemonRecord
  <2>5. daemon'[d].pc \in Starting /\ daemon'[d].pc \notin Stopping \cup {"serving"}
        /\ daemon'[d].pc \notin LockedSteps \cup {"lock", "pid"}
    <3>1. daemon'[d].pc = "create"
      BY <2>4
    <3> QED BY ONLY <3>1, StepKinds
  <2>6. Active' = {d}
    <3>1. \A e \in Daemon \ {d} : e \notin Active'
      BY <2>2, <2>4 DEF Active
    <3>2. d \in Active'
      BY <2>1, <2>5 DEF Active
    <3> QED BY <3>1, <3>2 DEF Active
  <2>7. AtWork' = {c}
    <3>1. \A b \in Client \ {c} : b \notin AtWork
      BY <1>1, <2>1 DEF QuietInv, OneAtATime
    <3>2. \A b \in Client \ {c} : b \notin AtWork'
      BY <2>3, <3>1 DEF AtWork
    <3>3. c \in AtWork'
      BY <2>3 DEF AtWork
    <3> QED BY <3>2, <3>3 DEF AtWork
  <2>8. Watches(c, d)'
    BY <2>1, <2>3 DEF Watches
  <2>9. HasFiles(d)'
    BY <2>5 DEF HasFiles
  <2> QED BY <2>5, <2>6, <2>7, <2>8, <2>9 DEF QuietInv, OneAtATime, Accounted
<1>14. CASE Answer(c)
  <2> PICK d : d = client[c].peer
    OBVIOUS
  <2>1. /\ c \in AtWork /\ UNCHANGED <<socket, pidFile, text, disturbed>>
        /\ client[c].pc = "reply" /\ d \in Daemon /\ daemon[d].pc = "serving"
    BY <1>14 DEF Answer, Alive, files, AtWork
  <2>2. CASE client[c].op # "stop"
    <3>1. Ends(c, "ok") /\ daemon' = daemon
      BY <1>14, <2>2 DEF Answer
    <3> QED BY <1>7, <2>1, <3>1
  <2>3. CASE client[c].op = "stop"
    <3>1. /\ client' = [client EXCEPT ![c].pc = "pid", ![c].asked = TRUE]
          /\ Goto(d, "remove socket")
      BY <1>14, <2>3 DEF Answer
    <3>2. d \in Active
      BY <2>1 DEF Active
    <3>3. Active = {d} /\ AtWork = {c} /\ HasFiles(d)
      BY <1>1, <2>1, <3>2, OnlyOnes
    <3>4. /\ \A e \in Daemon \ {d} : daemon'[e] = daemon[e]
          /\ daemon'[d].pc = "remove socket"
      BY <1>0, <2>1, <3>1 DEF Goto, DaemonRecord
    <3>5. /\ \A b \in Client \ {c} : client'[b] = client[b]
          /\ client'[c].pc = "pid" /\ client'[c].asked
      BY <1>0, <3>1 DEF ClientRecord
    <3>6. Active' = {d}
      BY <2>1, <3>3, <3>4, StepKinds DEF Active
    <3>7. AtWork' = {c}
      BY <3>3, <3>5 DEF AtWork
    <3>8. Awaits(c, d)'
      BY <3>5 DEF Awaits
    <3>9. HasFiles(d)'
      BY <2>1, <3>3, <3>4, StepKinds DEF HasFiles
    <3>10. daemon'[d].pc \notin Starting \cup {"serving"}
      BY <3>4, StepKinds
    <3> QED BY <3>6, <3>7, <3>8, <3>9, <3>10 DEF QuietInv, OneAtATime, Accounted
  <2> QED BY <2>2, <2>3
<1>15. CASE StopNotRunning(c) \/ Tidy(c)
  <2>1. /\ c \in AtWork /\ daemon' = daemon
        /\ \/ client[c].pc = "connect" /\ socket = Nobody
           \/ client[c].pc = "tidy"
        /\ \E outcome : Ends(c, outcome)
    BY <1>15 DEF StopNotRunning, Tidy, AtWork
  <2>2. Active = {}
    <3> SUFFICES ASSUME NEW e \in Active PROVE FALSE
      OBVIOUS
    <3>1. ~Watches(c, e) /\ ~Awaits(c, e)
      BY <2>1 DEF Watches, Awaits
    <3>2. daemon[e].pc = "serving" /\ socket = e /\ e \in Daemon /\ TalksTo(c, e)
      BY <1>3, <1>4, <2>1, <3>1
    <3> QED BY <2>1, <3>2, DaemonAssumption DEF TalksTo
  <2>3. Active' = {}
    BY <2>1, <2>2 DEF Active
  <2>4. AtWork' \subseteq AtWork
    BY <1>6, <2>1 DEF AtWork
  <2> QED BY <1>1, <2>3, <2>4, NobodyActive DEF QuietInv, OneAtATime
<1>16. CASE ReadPid(c)
  <2> PICK pid, step :
        /\ pid = IF pidFile = Nobody THEN Nobody ELSE text[pidFile]
        /\ step = IF pid = Nobody THEN "tidy"
                  ELSE IF client[c].asked THEN "exit" ELSE "kill"
    OBVIOUS
  <2>1. /\ c \in AtWork /\ UNCHANGED <<socket, pidFile, text, daemon>>
        /\ client[c].pc = "pid"
        /\ client' = [client EXCEPT ![c].pid = pid, ![c].pc = step]
    BY <1>16 DEF ReadPid, ClientOnly, files, AtWork
  <2>2. ASSUME NEW d \in Active
        PROVE  daemon[d].pc \in Stopping /\ pid = d /\ step = "exit"
    <3>1. ~Watches(c, d) /\ ~TalksTo(c, d)
      BY <2>1 DEF Watches, TalksTo
    <3>2. daemon[d].pc \in Stopping /\ Awaits(c, d) /\ HasFiles(d) /\ d \in Daemon
      BY <1>3, <1>4, <2>1, <3>1
    <3>3. client[c].asked /\ pidFile # Nobody /\ text[pidFile] = d
      BY <2>1, <3>2 DEF Awaits, HasFiles
    <3> QED BY <3>2, <3>3, DaemonAssumption
  <2>3. /\ \A b \in Client \ {c} : client'[b] = client[b]
        /\ client'[c].pc = step /\ client'[c].pid = pid
    BY <1>0, <2>1 DEF ClientRecord
  <2>4. \A d \in Active : client'[c].pc # "idle" /\ Awaits(c, d)'
    BY <2>2, <2>3 DEF Awaits
  <2>5. \A d \in Active : daemon[d].pc \notin Starting \cup {"serving"}
    BY <2>2, StepKinds
  <2> QED BY <1>1, <2>1, <2>3, <2>4, <2>5, CommandMoves
<1>17. CASE WaitForExit(c)
  <2>1. /\ c \in AtWork /\ UNCHANGED <<socket, pidFile, text, daemon>>
        /\ client[c].pc = "exit" /\ ~Alive(client[c].pid) /\ Turn(c, "kill")
    BY <1>17 DEF WaitForExit, ClientOnly, files, AtWork
  <2>2. Active = {}
    BY <1>3, <1>4, <2>1 DEF Watches, Awaits, TalksTo
  <2> QED BY <1>1, <1>5, <2>1, <2>2, CommandMoves
<1>18. CASE ForceKill(c)
  <2>1. /\ c \in AtWork /\ client[c].pc = "kill" /\ Turn(c, "tidy")
        /\ daemon' = daemon \/ (Alive(client[c].pid) /\ Dies(client[c].pid))
    BY <1>18 DEF ForceKill, AtWork
  <2>2. Active = {}
    BY <1>3, <1>4, <2>1 DEF Watches, Awaits, TalksTo
  <2>3. \A e \in Daemon : daemon'[e] = daemon[e] \/ daemon'[e].pc = "dead"
    BY <1>0, <2>1 DEF Dies, Exited, Alive
  <2>4. Active' = {}
    BY <2>2, <2>3, StepKinds DEF Active
  <2>5. AtWork' \subseteq AtWork
    BY <1>5, <2>1 DEF AtWork
  <2> QED BY <1>1, <2>4, <2>5, NobodyActive DEF QuietInv, OneAtATime
<1>19. CASE \E op \in Ops : Begin(c, op)
  <2>1. PICK op \in Ops : Begin(c, op)
    BY <1>19
  <2>2. /\ AtWork = {} /\ UNCHANGED <<socket, pidFile, text, daemon>>
        /\ client' = [client EXCEPT ![c] =
                        [NoCommand EXCEPT !.pc = FirstStep(op), !.op = op]]
        /\ op \in Operations
    BY <2>1, DaemonAssumption DEF Begin, files
  <2>3. /\ \A b \in Client \ {c} : client'[b] = client[b]
        /\ client'[c].pc \in {"version", "status", "connect"}
    BY <1>0, <2>2 DEF NoCommand, FirstStep, Operations
  <2>4. AtWork' \subseteq {c} /\ Active' = Active
    BY <2>2, <2>3 DEF AtWork, Active
  <2>5. \A d \in Active : daemon[d].pc = "serving" /\ TalksTo(c, d)'
    BY <1>1, <1>4, <2>2, <2>3 DEF QuietInv, Accounted, TalksTo
  <2>6. \A d \in Active : HasFiles(d)'
    BY <1>1, <2>2 DEF QuietInv, HasFiles
  <2>7. \A d \in Active : daemon[d].pc \notin Starting \cup Stopping
    BY <2>5, StepKinds
  <2> QED BY <1>1, <2>2, <2>4, <2>5, <2>6, <2>7 DEF QuietInv, OneAtATime, Accounted
<1> QED BY <1>2, <1>9, <1>10, <1>11, <1>12, <1>13, <1>14, <1>15, <1>16, <1>17,
           <1>18, <1>19 DEF ClientStep

LEMMA InitQuiet == Init => QuietInv
<1> SUFFICES ASSUME Init PROVE QuietInv
  OBVIOUS
<1> USE StepKinds, DaemonAssumption
<1>1. AtWork = {}
  BY DEF Init, AtWork, NoCommand
<1>2. \A d \in Active : /\ d = socket /\ d = pidFile /\ text[d] = d /\ d \in Daemon
                        /\ daemon[d].pc = "serving"
  BY DEF Init, Active
<1>3. \A d \in Active : HasFiles(d)
  BY <1>2 DEF HasFiles
<1> QED BY <1>1, <1>2, <1>3 DEF QuietInv, OneAtATime, Accounted

LEMMA NextQuiet == TypeOK /\ QuietInv /\ [Next]_vars => QuietInv'
<1> SUFFICES ASSUME TypeOK, QuietInv, [Next]_vars PROVE QuietInv'
  OBVIOUS
<1>1. CASE Next
  BY <1>1, DaemonQuiet, CommandQuiet DEF Next
<1>2. CASE UNCHANGED vars
  BY <1>2 DEF vars, files, QuietInv, OneAtATime, Accounted, HasFiles, Active,
              AtWork, Watches, Awaits, TalksTo
<1> QED BY <1>1, <1>2

LEMMA QuietFindable == QuietInv => ServingIsFindable
<1> SUFFICES ASSUME QuietInv, ~disturbed, NEW d \in Daemon, daemon[d].pc = "serving"
             PROVE  socket = d /\ pidFile # Nobody /\ text[pidFile] = d
  BY DEF ServingIsFindable, At
<1>1. d \in Active
  BY DEF Active
<1> QED BY <1>1 DEF QuietInv, HasFiles

(* Undisturbed, at most one daemon has a hand on the files, and a command  *)
(* or its own serving accounts for it: for any number of daemons.          *)
(* start_daemon_background, daemon_stop, startup_inner, shutdown.          *)
THEOREM LifecycleQuiet == Spec => []QuietInv
BY InitQuiet, NextQuiet, LifecycleTypeOK, PTL DEF Spec

(* Commands run one after another find the daemon that serves, whatever    *)
(* crashes, fails to start or is stopped in between.                       *)
THEOREM LifecycleServingIsFindable == Spec => []ServingIsFindable
BY LifecycleQuiet, QuietFindable, PTL

-----------------------------------------------------------------------------
(* Commands run one after another do no harm.                              *)

(* What no step of a daemon but CreatePidFile does to the pid files.        *)
LEMMA DaemonTraces ==
  ASSUME NEW d \in Daemon,
         DaemonStep(d) \/ StartFails(d) \/ Crash(d) \/ Signal(d),
         ~CreatePidFile(d)
  PROVE  /\ pidFile' \in {pidFile, Nobody}
         /\ text' = text \/ WritePid(d)
         /\ stolen' = stolen \/ RemoveFile(d)
         /\ disturbed => disturbed'
         /\ client' = client
<1> USE DEF files, DaemonOnly
<1>1. CASE TryLock(d) \/ WritePid(d) \/ WriteVersion(d) \/ Load(d)
  BY <1>1 DEF TryLock, WritePid, WriteVersion, Load
<1>2. CASE UnlinkSocket(d) \/ Bind(d) \/ RemoveFile(d)
  BY <1>2 DEF UnlinkSocket, Bind, RemoveFile
<1>3. CASE StartFails(d)
  BY <1>3 DEF StartFails
<1>4. CASE Crash(d)
  BY <1>4 DEF Crash
<1>5. CASE Signal(d)
  BY <1>5 DEF Signal
<1> QED BY <1>1, <1>2, <1>3, <1>4, <1>5 DEF DaemonStep

(* A step of a daemon moves that daemon, which keeps its pid file or loses *)
(* it, and gets to the removal of the version file by removing the pid     *)
(* file.                                                                   *)
LEMMA DaemonShape ==
  ASSUME TypeOK, NEW d \in Daemon,
         DaemonStep(d) \/ StartFails(d) \/ Crash(d) \/ Signal(d),
         ~CreatePidFile(d)
  PROVE  /\ \A e \in Daemon \ {d} : daemon'[e] = daemon[e]
         /\ daemon'[d].file \in {daemon[d].file, Nobody}
         /\ daemon'[d].pc \notin {"unborn", "create"}
         /\ daemon[d].pc \notin {"unborn", "dead"}
         /\ daemon'[d].pc = "remove version" => pidFile' = Nobody
<1> USE DEF At
<1>0. daemon \in [Daemon -> DaemonRecord]
  BY DEF TypeOK, DaemonRecord
<1>1. ASSUME NEW step, Goto(d, step),
             daemon[d].pc \notin {"unborn", "dead"},
             step \notin {"unborn", "create"},
             step = "remove version" => pidFile' = Nobody
      PROVE  /\ \A e \in Daemon \ {d} : daemon'[e] = daemon[e]
             /\ daemon'[d].file \in {daemon[d].file, Nobody}
             /\ daemon'[d].pc \notin {"unborn", "create"}
             /\ daemon[d].pc \notin {"unborn", "dead"}
             /\ daemon'[d].pc = "remove version" => pidFile' = Nobody
  <2>1. /\ \A e \in Daemon \ {d} : daemon'[e] = daemon[e]
        /\ daemon'[d].file = daemon[d].file /\ daemon'[d].pc = step
    BY <1>0, <1>1 DEF Goto, DaemonRecord
  <2> QED BY <1>1, <2>1
<1>2. ASSUME FailStartup(d) \/ Dies(d),
             daemon[d].pc \notin {"unborn", "dead"}
      PROVE  /\ \A e \in Daemon \ {d} : daemon'[e] = daemon[e]
             /\ daemon'[d].file \in {daemon[d].file, Nobody}
             /\ daemon'[d].pc \notin {"unborn", "create"}
             /\ daemon[d].pc \notin {"unborn", "dead"}
             /\ daemon'[d].pc = "remove version" => pidFile' = Nobody
  <2>1. PICK step :
          /\ step \in {"cleanup socket", "dead"}
          /\ daemon' = [daemon EXCEPT ![d] =
                          [pc |-> step, file |-> Nobody, locked |-> FALSE]]
    BY <1>2 DEF FailStartup, Dies, Exited
  <2>2. /\ \A e \in Daemon \ {d} : daemon'[e] = daemon[e]
        /\ daemon'[d].file = Nobody /\ daemon'[d].pc = step
    BY <1>0, <2>1
  <2> QED BY <1>2, <2>1, <2>2
<1>3. CASE TryLock(d)
  <2>0. daemon[d].pc \notin {"unborn", "dead"}
    BY <1>3 DEF TryLock
  <2>1. CASE FailStartup(d)
    BY <1>2, <2>0, <2>1
  <2>2. CASE daemon' = [daemon EXCEPT ![d].locked = TRUE, ![d].pc = "pid"]
    <3>1. /\ \A e \in Daemon \ {d} : daemon'[e] = daemon[e]
          /\ daemon'[d].file = daemon[d].file /\ daemon'[d].pc = "pid"
      BY <1>0, <2>2 DEF DaemonRecord
    <3> QED BY <2>0, <3>1
  <2> QED BY <1>3, <2>1, <2>2 DEF TryLock
<1>4. CASE WritePid(d)
  BY <1>1, <1>4 DEF WritePid
<1>5. CASE WriteVersion(d)
  BY <1>1, <1>5 DEF WriteVersion
<1>6. CASE Load(d)
  BY <1>1, <1>6 DEF Load
<1>7. CASE UnlinkSocket(d)
  BY <1>1, <1>7 DEF UnlinkSocket
<1>8. CASE Bind(d)
  <2>1. daemon[d].pc \notin {"unborn", "dead"}
    BY <1>8 DEF Bind
  <2>2. Goto(d, "serving") \/ FailStartup(d)
    BY <1>8 DEF Bind
  <2> QED BY <1>1, <1>2, <2>1, <2>2
<1>9. CASE RemoveFile(d)
  <2>1. PICK step : step = daemon[d].pc
    OBVIOUS
  <2>2. /\ step \in {"cleanup socket", "cleanup version", "cleanup pid",
                     "remove socket", "remove pid", "remove version"}
        /\ pidFile' = IF RemovalOf(step) = "pid" THEN Nobody ELSE pidFile
        /\ IF After(step) = "dead" THEN Dies(d) ELSE Goto(d, After(step))
    BY <1>9, <2>1 DEF RemoveFile, CleanupSteps, ShutdownSteps
  <2>3. /\ After(step) \notin {"unborn", "create"}
        /\ After(step) = "remove version" => RemovalOf(step) = "pid"
    BY <2>2 DEF After, RemovalOf
  <2>4. daemon[d].pc \notin {"unborn", "dead"}
    BY <2>1, <2>2
  <2>5. After(step) = "remove version" => pidFile' = Nobody
    BY <2>2, <2>3
  <2> HIDE DEF At
  <2> QED BY ONLY <1>1, <1>2, <2>2, <2>3, <2>4, <2>5
<1>10. CASE StartFails(d)
  <2>1. daemon[d].pc \notin {"unborn", "dead"} /\ FailStartup(d)
    BY <1>10 DEF StartFails, LockedSteps
  <2> QED BY <1>2, <2>1
<1>11. CASE Crash(d)
  BY <1>2, <1>11 DEF Crash, Alive
<1>12. CASE Signal(d)
  BY <1>1, <1>12 DEF Signal
<1> QED BY <1>3, <1>4, <1>5, <1>6, <1>7, <1>8, <1>9, <1>10, <1>11, <1>12
        DEF DaemonStep

LEMMA CommandTraces ==
  ASSUME NEW c \in Client,
         ClientStep(c) \/ GiveUp(c) \/ \E op \in Ops : Begin(c, op)
  PROVE  /\ pidFile' \in {pidFile, Nobody} /\ text' = text
         /\ daemon' = daemon \/ SpawnDaemon(c) \/ Answer(c) \/ ForceKill(c)
         /\ stolen' = stolen \/ Tidy(c) \/ StopNotRunning(c)
         /\ disturbed => disturbed'
<1> USE DEF files, ClientOnly
<1>1. ASSUME UNCHANGED <<files, stolen, disturbed>>
      PROVE  pidFile' = pidFile /\ text' = text /\ stolen' = stolen
             /\ disturbed' = disturbed
  BY <1>1
<1>2. CASE \/ AskStatus(c) \/ CheckVersion(c) \/ Connect(c) \/ WatchChild(c)
           \/ LookForSocket(c) \/ Send(c) \/ LoseConnection(c) \/ ReadPid(c)
           \/ WaitForExit(c)
  <2>1. ClientOnly
    BY <1>2 DEF AskStatus, CheckVersion, Connect, WatchChild, LookForSocket,
                Send, LoseConnection, ReadPid, WaitForExit
  <2>2. daemon' = daemon
    BY <2>1
  <2> QED BY <1>1, <2>1, <2>2
<1>3. CASE SpawnDaemon(c)
  <2>1. UNCHANGED <<files, stolen>> /\ (disturbed => disturbed')
    BY <1>3 DEF SpawnDaemon
  <2> QED BY <1>3, <2>1
<1>4. CASE Answer(c) \/ ForceKill(c)
  <2>1. UNCHANGED <<files, stolen, disturbed>>
    BY <1>4 DEF Answer, ForceKill
  <2> QED BY <1>1, <1>4, <2>1
<1>5. CASE StopNotRunning(c) \/ Tidy(c)
  <2>1. pidFile' = Nobody /\ UNCHANGED <<text, daemon, disturbed>>
    BY <1>5 DEF StopNotRunning, Tidy, RemovePidFile
  <2> QED BY <1>5, <2>1
<1>6. CASE GiveUp(c)
  <2>1. UNCHANGED <<files, daemon, stolen>> /\ disturbed'
    BY <1>6 DEF GiveUp
  <2> QED BY <2>1
<1>7. CASE \E op \in Ops : Begin(c, op)
  <2>1. UNCHANGED <<files, daemon, stolen>> /\ (disturbed => disturbed')
    BY <1>7 DEF Begin
  <2> QED BY <2>1
<1> QED BY <1>2, <1>3, <1>4, <1>5, <1>6, <1>7 DEF ClientStep

(* A command starts a daemon, asks one to stop or kills one.               *)
LEMMA CommandShape ==
  ASSUME TypeOK, NEW c \in Client,
         ClientStep(c) \/ GiveUp(c) \/ \E op \in Ops : Begin(c, op),
         NEW e \in Daemon
  PROVE  /\ daemon'[e].file \in {daemon[e].file, Nobody}
         /\ daemon'[e].pc \in {"unborn", "create"} =>
              daemon[e].pc \in {"unborn", "create"}
         /\ daemon'[e] = daemon[e] \/ daemon'[e].pc # "remove version"
         /\ Alive(e)' => Alive(e) \/ SpawnDaemon(c)
<1>0. daemon \in [Daemon -> DaemonRecord]
  BY DEF TypeOK, DaemonRecord
<1>1. CASE daemon' = daemon
  BY <1>1 DEF Alive
<1>2. CASE SpawnDaemon(c)
  <2>1. PICK d \in Unborn : Goto(d, "create")
    BY <1>2 DEF SpawnDaemon
  <2>2. d \in Daemon /\ daemon[d].pc = "unborn"
    BY <2>1 DEF Unborn, At
  <2>3. /\ e # d => daemon'[e] = daemon[e]
        /\ daemon'[d].file = daemon[d].file /\ daemon'[d].pc = "create"
    BY <1>0, <2>1, <2>2 DEF Goto, DaemonRecord
  <2> QED BY <1>2, <2>2, <2>3
<1>3. CASE Answer(c)
  <2>1. PICK d : d = client[c].peer
    OBVIOUS
  <2>2. d \in Daemon /\ daemon[d].pc = "serving"
    BY <1>3, <2>1 DEF Answer, Alive, At
  <2>3. daemon' = daemon \/ Goto(d, "remove socket")
    BY <1>3, <2>1 DEF Answer
  <2>4. ASSUME Goto(d, "remove socket")
        PROVE  /\ e # d => daemon'[e] = daemon[e]
               /\ daemon'[d].file = daemon[d].file
               /\ daemon'[d].pc = "remove socket"
    BY <1>0, <2>2, <2>4 DEF Goto, DaemonRecord
  <2>5. CASE Goto(d, "remove socket")
    BY <2>2, <2>4, <2>5 DEF Alive
  <2> QED BY <1>1, <2>3, <2>5
<1>4. CASE ForceKill(c)
  <2>1. PICK d : d = client[c].pid
    OBVIOUS
  <2>2. daemon' = daemon \/ (d \in Daemon /\ Dies(d))
    BY <1>4, <2>1 DEF ForceKill, Alive
  <2>3. \/ daemon'[e] = daemon[e]
        \/ daemon'[e].file = Nobody /\ daemon'[e].pc = "dead"
    BY <1>0, <2>2 DEF Dies, Exited
  <2> QED BY <2>3 DEF Alive
<1> QED BY <1>1, <1>2, <1>3, <1>4, CommandTraces

(* Undisturbed, a command comes to kill by waiting for a daemon to exit,   *)
(* or without having asked it.                                             *)
LEMMA CommandKills ==
  ASSUME TypeOK, NEW c \in Client,
         ClientStep(c) \/ GiveUp(c) \/ \E op \in Ops : Begin(c, op)
  PROVE  /\ \A b \in Client \ {c} : client'[b] = client[b]
         /\ client'[c].pc = "kill" =>
              WaitForExit(c) \/ ReadPid(c) \/ disturbed'
<1>0. client \in [Client -> ClientRecord]
  BY DEF TypeOK, ClientRecord
<1>1. ASSUME NEW step, Turn(c, step)
      PROVE  /\ \A b \in Client \ {c} : client'[b] = client[b]
             /\ client'[c].pc = step
  BY <1>0, <1>1 DEF Turn, ClientRecord
<1>2. ASSUME NEW outcome, Ends(c, outcome)
      PROVE  /\ \A b \in Client \ {c} : client'[b] = client[b]
             /\ client'[c].pc = "idle"
  BY <1>0, <1>2 DEF Ends, NoCommand
<1>3. ASSUME NEW outcome, Unanswered(c, outcome)
      PROVE  /\ \A b \in Client \ {c} : client'[b] = client[b]
             /\ client'[c].pc # "kill"
  BY <1>1, <1>2, <1>3 DEF Unanswered
<1>4. ASSUME Connected(c)
      PROVE  /\ \A b \in Client \ {c} : client'[b] = client[b]
             /\ client'[c].pc # "kill"
  BY <1>1, <1>2, <1>4 DEF Connected
<1>5. CASE AskStatus(c) \/ CheckVersion(c) \/ Connect(c) \/ LookForSocket(c)
  BY <1>1, <1>2, <1>4, <1>5 DEF AskStatus, CheckVersion, Connect, LookForSocket
<1>6. CASE WatchChild(c) \/ LoseConnection(c) \/ StopNotRunning(c) \/ Tidy(c)
           \/ ForceKill(c)
  <2>1. \/ \E outcome : Ends(c, outcome) \/ Unanswered(c, outcome)
        \/ Turn(c, "socket") \/ Turn(c, "tidy")
    <3>1. CASE WatchChild(c)
      BY <3>1 DEF WatchChild
    <3>2. CASE LoseConnection(c)
      BY <3>2 DEF LoseConnection
    <3>3. CASE StopNotRunning(c) \/ Tidy(c)
      BY <3>3 DEF StopNotRunning, Tidy
    <3>4. CASE ForceKill(c)
      BY <3>4 DEF ForceKill
    <3> QED BY <1>6, <3>1, <3>2, <3>3, <3>4
  <2> QED BY <1>1, <1>2, <1>3, <2>1
<1>7. CASE SpawnDaemon(c)
  <2>1. PICK d : client' = [client EXCEPT ![c].pc = "child", ![c].child = d]
    BY <1>7 DEF SpawnDaemon
  <2> QED BY <1>0, <2>1 DEF ClientRecord
<1>8. CASE Send(c)
  <2>1. CASE client' = [client EXCEPT ![c].pc = "reply", ![c].peer = socket]
    BY <1>0, <2>1 DEF ClientRecord
  <2> QED BY <1>3, <1>8, <2>1 DEF Send
<1>9. CASE Answer(c)
  <2>1. CASE client' = [client EXCEPT ![c].pc = "pid", ![c].asked = TRUE]
    BY <1>0, <2>1 DEF ClientRecord
  <2> QED BY <1>2, <1>9, <2>1 DEF Answer
<1>10. CASE ReadPid(c)
  BY <1>0, <1>10 DEF ReadPid
<1>11. CASE WaitForExit(c)
  BY <1>1, <1>11 DEF WaitForExit
<1>12. CASE GiveUp(c)
  BY <1>1, <1>2, <1>3, <1>12 DEF GiveUp
<1>13. CASE \E op \in Ops : Begin(c, op)
  <2>1. PICK op \in Ops : Begin(c, op)
    BY <1>13
  <2>2. FirstStep(op) # "kill"
    BY DaemonAssumption DEF FirstStep, Operations
  <2>3. client' = [client EXCEPT ![c] =
                     [NoCommand EXCEPT !.pc = FirstStep(op), !.op = op]]
    BY <2>1 DEF Begin
  <2>4. /\ \A b \in Client \ {c} : client'[b] = client[b]
        /\ client'[c].pc = FirstStep(op)
    BY <1>0, <2>3 DEF NoCommand
  <2> QED BY <2>2, <2>4
<1> QED BY <1>5, <1>6, <1>7, <1>8, <1>9, <1>10, <1>11, <1>12, <1>13 DEF ClientStep

LEMMA CreateTraces ==
  ASSUME TypeOK, MadeByStarted, TraceGone, NEW d \in Daemon, CreatePidFile(d)
  PROVE  MadeByStarted' /\ TraceGone'
<1>0. daemon \in [Daemon -> DaemonRecord] /\ text \in [Daemon -> Process]
      /\ pidFile \in Process
  BY DEF TypeOK, DaemonRecord
<1>1. PICK file : file = IF pidFile = Nobody THEN d ELSE pidFile
  OBVIOUS
<1>2. /\ daemon' = [daemon EXCEPT ![d].pc = "lock", ![d].file = file]
      /\ pidFile' = file /\ text' = [text EXCEPT ![file] = Nobody]
      /\ daemon[d].pc = "create"
  BY <1>1 DEF CreatePidFile, At
<1>3. /\ \A e \in Daemon \ {d} : daemon'[e] = daemon[e]
      /\ daemon'[d].file = file /\ daemon'[d].pc = "lock"
  BY <1>0, <1>2 DEF DaemonRecord
<1>4. file \in Daemon
  BY <1>0, <1>1 DEF Process
<1>5. text'[pidFile'] = Nobody
  BY <1>0, <1>2, <1>4
<1>6. MadeByStarted'
  <2> SUFFICES ASSUME NEW x \in Daemon, daemon'[x].pc \in {"unborn", "create"}
               PROVE  pidFile' # x /\ \A e \in Daemon : daemon'[e].file # x
    BY DEF MadeByStarted
  <2>1. x # d /\ daemon[x].pc \in {"unborn", "create"}
    BY <1>3
  <2>2. file # x
    BY <1>1, <2>1 DEF MadeByStarted
  <2> QED BY <1>2, <1>3, <2>1, <2>2 DEF MadeByStarted
<1>7. TraceGone'
  <2> SUFFICES ASSUME NEW x \in Daemon, daemon'[x].pc = "remove version"
               PROVE  text'[pidFile'] # x /\ daemon'[x].file # pidFile'
    BY DEF TraceGone
  <2>1. x # d /\ daemon'[x] = daemon[x]
    BY <1>3
  <2>2. daemon[x].file # file
    BY <1>1, <1>2, <2>1 DEF MadeByStarted, TraceGone
  <2> QED BY <1>2, <1>5, <2>1, <2>2, DaemonAssumption
<1> QED BY <1>6, <1>7

LEMMA StepTraces ==
  ASSUME TypeOK, MadeByStarted, TraceGone, [Next]_vars
  PROVE  MadeByStarted' /\ TraceGone'
<1>0. text \in [Daemon -> Process]
  BY DEF TypeOK
<1>1. ASSUME pidFile' \in {pidFile, Nobody},
             \A e \in Daemon :
               /\ daemon'[e].file \in {daemon[e].file, Nobody}
               /\ daemon'[e].pc \in {"unborn", "create"} =>
                    daemon[e].pc \in {"unborn", "create"}
      PROVE  MadeByStarted'
  BY <1>1, DaemonAssumption DEF MadeByStarted
<1>2. ASSUME NEW d \in Daemon,
             DaemonStep(d) \/ StartFails(d) \/ Crash(d) \/ Signal(d),
             ~CreatePidFile(d)
      PROVE  MadeByStarted' /\ TraceGone'
  <2>1. /\ pidFile' \in {pidFile, Nobody}
        /\ text' = text \/ WritePid(d)
    BY <1>2, DaemonTraces
  <2>2. /\ \A e \in Daemon \ {d} : daemon'[e] = daemon[e]
        /\ daemon'[d].file \in {daemon[d].file, Nobody}
        /\ daemon'[d].pc \notin {"unborn", "create"}
        /\ daemon'[d].pc = "remove version" => pidFile' = Nobody
    BY <1>2, DaemonShape
  <2>3. MadeByStarted'
    BY <1>1, <2>1, <2>2
  <2>4. TraceGone'
    <3> SUFFICES ASSUME NEW x \in Daemon, daemon'[x].pc = "remove version",
                        pidFile' # Nobody
                 PROVE  text'[pidFile'] # x /\ daemon'[x].file # pidFile'
      BY DEF TraceGone
    <3>1. x # d /\ daemon'[x] = daemon[x] /\ pidFile' = pidFile
      BY <2>1, <2>2
    <3>2. text'[pidFile] \in {text[pidFile], d}
      <4>1. CASE WritePid(d)
        <5>1. text' = [text EXCEPT ![daemon[d].file] = d]
          BY <4>1 DEF WritePid
        <5>2. pidFile \in Daemon
          BY <3>1 DEF TypeOK, Process
        <5> QED BY <1>0, <5>1, <5>2
      <4> QED BY <2>1, <4>1
    <3> QED BY <3>1, <3>2 DEF TraceGone
  <2> QED BY <2>3, <2>4
<1>3. ASSUME NEW c \in Client,
             ClientStep(c) \/ GiveUp(c) \/ \E op \in Ops : Begin(c, op)
      PROVE  MadeByStarted' /\ TraceGone'
  <2>1. pidFile' \in {pidFile, Nobody} /\ text' = text
    BY <1>3, CommandTraces
  <2>2. \A e \in Daemon :
          /\ daemon'[e].file \in {daemon[e].file, Nobody}
          /\ daemon'[e].pc \in {"unborn", "create"} =>
               daemon[e].pc \in {"unborn", "create"}
          /\ daemon'[e] = daemon[e] \/ daemon'[e].pc # "remove version"
    BY <1>3, CommandShape
  <2>3. MadeByStarted'
    BY <1>1, <2>1, <2>2
  <2>4. TraceGone'
    <3> SUFFICES ASSUME NEW x \in Daemon, daemon'[x].pc = "remove version",
                        pidFile' # Nobody
                 PROVE  text'[pidFile'] # x /\ daemon'[x].file # pidFile'
      BY DEF TraceGone
    <3>1. daemon'[x] = daemon[x] /\ pidFile' = pidFile
      BY <2>1, <2>2
    <3> QED BY <2>1, <3>1 DEF TraceGone
  <2> QED BY <2>3, <2>4
<1>4. CASE UNCHANGED vars
  BY <1>4 DEF vars, files, MadeByStarted, TraceGone
<1> QED BY <1>2, <1>3, <1>4, CreateTraces DEF Next

(* A daemon that is alive though none is active is about to remove the     *)
(* version file; one that is not active has no hand on the pid file.       *)
LEMMA InactiveHarmless ==
  ASSUME LockInv, TraceGone, pidFile # Nobody, NEW e \in Daemon, e \notin Active
  PROVE  daemon[e].file # pidFile /\ (Alive(e) => text[pidFile] # e)
<1>0. daemon[e].pc \in DaemonPc
  BY DEF LockInv, TypeOK
<1>1. daemon[e].pc \in {"unborn", "dead", "remove version"}
  BY <1>0 DEF Active, DaemonPc, Starting, Stopping, ShutdownSteps
<1>2. CASE daemon[e].pc = "remove version"
  BY <1>2 DEF TraceGone
<1>3. CASE daemon[e].pc \in {"unborn", "dead"}
  <2>1. daemon[e].pc \notin OpenSteps
    BY <1>3 DEF OpenSteps, HoldingSteps, LockedSteps, ShutdownSteps
  <2>2. daemon[e].file = Nobody
    BY <2>1 DEF LockInv, FilesOpen
  <2> QED BY <1>3, <2>2 DEF Alive
<1> QED BY <1>1, <1>2, <1>3

(* A command that removes the pid file, or reads it without having asked   *)
(* for a shutdown, knows of no active daemon.                              *)
LEMMA NoneActive ==
  ASSUME QuietInv, ~disturbed, NEW c \in Client,
         \/ StopNotRunning(c) \/ Tidy(c)
         \/ ReadPid(c) /\ ~client[c].asked
  PROVE  Active = {}
<1>1. /\ c \in AtWork
      /\ \/ client[c].pc = "connect" /\ socket = Nobody
         \/ client[c].pc = "tidy"
         \/ client[c].pc = "pid" /\ ~client[c].asked
  BY DEF StopNotRunning, Tidy, ReadPid, AtWork, Does
<1> SUFFICES ASSUME NEW e \in Active PROVE FALSE
  OBVIOUS
<1>2. ~Watches(c, e) /\ ~Awaits(c, e)
  BY <1>1 DEF Watches, Awaits
<1>3. AtWork = {c} /\ HasFiles(e) /\ e \in Daemon
      /\ (daemon[e].pc = "serving" => TalksTo(c, e))
      /\ daemon[e].pc \notin Starting \cup Stopping
  BY <1>1, <1>2, OnlyOnes
<1>4. daemon[e].pc = "serving"
  BY <1>3 DEF Active
<1> QED BY <1>1, <1>3, <1>4, DaemonAssumption DEF TalksTo, HasFiles

LEMMA StepHarmless ==
  ASSUME LockInv, QuietInv, TraceGone, NobodyHarmed, [Next]_vars
  PROVE  NobodyHarmed'
<1>0. client \in [Client -> ClientRecord] /\ TypeOK
  BY DEF LockInv, TypeOK, ClientRecord
<1>1. CASE UNCHANGED vars
  BY <1>1 DEF vars, NobodyHarmed, Does, Alive
<1>2. ASSUME NEW d \in Daemon,
             DaemonStep(d) \/ StartFails(d) \/ Crash(d) \/ Signal(d),
             ~disturbed'
      PROVE  ~stolen' /\ \A c \in Client : Does(c, "kill")' => ~Alive(client[c].pid)'
  <2>1. CASE CreatePidFile(d)
    <3>1. UNCHANGED <<stolen, client, disturbed>> /\ daemon[d].pc = "create"
      BY <2>1 DEF CreatePidFile, DaemonOnly, At
    <3>2. \A e \in Daemon \ {d} : daemon'[e] = daemon[e]
      BY <1>0, <2>1 DEF CreatePidFile, TypeOK
    <3>3. \A e : Alive(e)' => Alive(e)
      BY <3>1, <3>2 DEF Alive
    <3> QED BY <1>2, <3>1, <3>3 DEF NobodyHarmed, Does
  <2>2. CASE ~CreatePidFile(d)
    <3>1. /\ stolen' = stolen \/ RemoveFile(d)
          /\ ~disturbed /\ client' = client
      BY <1>2, <2>2, DaemonTraces
    <3>2. /\ \A e \in Daemon \ {d} : daemon'[e] = daemon[e]
          /\ daemon[d].pc \notin {"unborn", "dead"}
      BY <1>0, <1>2, <2>2, DaemonShape
    <3>3. \A e : Alive(e)' => Alive(e)
      BY <3>2 DEF Alive
    <3>4. ~stolen
      BY <3>1 DEF NobodyHarmed
    <3>5. ~stolen'
      <4>1. CASE RemoveFile(d) /\ stolen'
        <5>1. RemovalOf(daemon[d].pc) = "pid" /\ Steals(d)
              /\ daemon[d].pc \in CleanupSteps \cup ShutdownSteps
          BY <3>4, <4>1 DEF RemoveFile
        <5>2. daemon[d].pc \in {"cleanup pid", "remove pid"}
          BY <5>1 DEF RemovalOf, CleanupSteps, ShutdownSteps
        <5>3. d \in Active
          BY <5>2 DEF Active, Starting, Stopping, CleanupSteps
        <5>4. PICK e \in Daemon \ {d} : daemon[e].file = pidFile /\ pidFile # Nobody
          BY <5>1 DEF Steals
        <5>5. e \notin Active
          BY <3>1, <5>3, <5>4 DEF QuietInv, OneAtATime
        <5> QED BY <5>4, <5>5, InactiveHarmless
      <4> QED BY <3>1, <3>4, <4>1
    <3> QED BY <3>1, <3>3, <3>5 DEF NobodyHarmed, Does
  <2> QED BY <2>1, <2>2
<1>3. ASSUME NEW c \in Client,
             ClientStep(c) \/ GiveUp(c) \/ \E op \in Ops : Begin(c, op),
             ~disturbed'
      PROVE  ~stolen' /\ \A b \in Client : Does(b, "kill")' => ~Alive(client[b].pid)'
  <2>1. /\ daemon' = daemon \/ SpawnDaemon(c) \/ Answer(c) \/ ForceKill(c)
        /\ stolen' = stolen \/ Tidy(c) \/ StopNotRunning(c)
        /\ ~disturbed
    BY <1>3, CommandTraces
  <2>2. /\ ~stolen
        /\ \A b \in Client : Does(b, "kill") => ~Alive(client[b].pid)
    BY <2>1 DEF NobodyHarmed
  <2>3. ~stolen'
    <3>1. CASE Tidy(c) \/ StopNotRunning(c)
      <4>1. stolen' = (stolen \/ Steals(Nobody))
        BY <3>1 DEF Tidy, StopNotRunning, RemovePidFile
      <4>2. Active = {}
        BY <2>1, <3>1, NoneActive
      <4>3. ~Steals(Nobody)
        BY <4>2, InactiveHarmless DEF Steals
      <4> QED BY <2>2, <4>1, <4>3
    <3> QED BY <2>1, <2>2, <3>1
  <2>4. /\ \A b \in Client \ {c} : client'[b] = client[b]
        /\ client'[c].pc = "kill" => WaitForExit(c) \/ ReadPid(c)
    BY <1>0, <1>3, CommandKills
  <2>5. ASSUME NEW b \in Client \ {c}, Does(b, "kill")'
        PROVE  ~Alive(client[b].pid)'
    <3>1. client'[b] = client[b] /\ client[b].pc = "kill"
      BY <2>4, <2>5 DEF Does
    <3>2. ~SpawnDaemon(c)
      BY <2>1, <3>1 DEF SpawnDaemon, Does, AtWork, QuietInv, OneAtATime
    <3>3. \A e \in Daemon : Alive(e)' => Alive(e)
      BY <1>0, <1>3, <3>2, CommandShape
    <3> QED BY <2>2, <3>1, <3>3 DEF Alive, Does
  <2>6. ASSUME Does(c, "kill")'
        PROVE  ~Alive(client[c].pid)'
    <3>1. CASE WaitForExit(c)
      <4>1. daemon' = daemon /\ Turn(c, "kill") /\ ~Alive(client[c].pid)
        BY <3>1 DEF WaitForExit, ClientOnly
      <4>2. client'[c].pid = client[c].pid
        BY <1>0, <4>1 DEF Turn, ClientRecord
      <4> QED BY <4>1, <4>2 DEF Alive
    <3>2. CASE ReadPid(c)
      <4>1. PICK pid : pid = IF pidFile = Nobody THEN Nobody ELSE text[pidFile]
        OBVIOUS
      <4>2. PICK step : step = IF pid = Nobody THEN "tidy"
                               ELSE IF client[c].asked THEN "exit" ELSE "kill"
        OBVIOUS
      <4>3. /\ client' = [client EXCEPT ![c].pid = pid, ![c].pc = step]
            /\ daemon' = daemon
        BY <3>2, <4>1, <4>2 DEF ReadPid, ClientOnly
      <4>4. client'[c].pid = pid /\ client'[c].pc = step
        BY <1>0, <4>3 DEF ClientRecord
      <4>5. pid # Nobody /\ ~client[c].asked
        BY <2>6, <4>2, <4>4 DEF Does
      <4>6. Active = {}
        BY <2>1, <3>2, <4>5, NoneActive
      <4>7. pid \in Daemon => ~Alive(pid)
        BY <4>1, <4>5, <4>6, InactiveHarmless
      <4> QED BY <4>3, <4>4, <4>7 DEF Alive
    <3> QED BY <2>4, <2>6, <3>1, <3>2 DEF Does
  <2> QED BY <2>3, <2>5, <2>6
<1>4. CASE Next
  BY <1>2, <1>3, <1>4 DEF Next, NobodyHarmed
<1> QED BY <1>1, <1>4

LEMMA InitHarm == Init => HarmInv
<1> SUFFICES ASSUME Init PROVE HarmInv
  OBVIOUS
<1>1. \A d \in Daemon :
        /\ daemon[d].pc = IF d = socket THEN "serving" ELSE "unborn"
        /\ daemon[d].file = IF d = socket THEN d ELSE Nobody
  BY DEF Init
<1>2. pidFile = socket /\ ~stolen /\ \A c \in Client : client[c].pc = "idle"
  BY DEF Init, NoCommand
<1>3. MadeByStarted /\ TraceGone
  BY <1>1, <1>2, DaemonAssumption DEF MadeByStarted, TraceGone
<1> QED BY <1>2, <1>3 DEF HarmInv, NobodyHarmed, Does

LEMMA StepHarm ==
  LockInv /\ QuietInv /\ HarmInv /\ [Next]_vars => HarmInv'
BY StepTraces, StepHarmless DEF HarmInv, LockInv

(* Commands run one after another kill no daemon that is still alive, and  *)
(* take the pid file from nobody who has it open: for any number of        *)
(* daemons, crashes and startups that fail.                                *)
THEOREM LifecycleNobodyHarmed == Spec => []NobodyHarmed
<1>1. HarmInv => NobodyHarmed
  BY DEF HarmInv
<1> QED BY <1>1, InitHarm, StepHarm, InvariantLock, LifecycleQuiet, PTL DEF Spec
=============================================================================
