----------------------------- MODULE ServerLoop -----------------------------
(***************************************************************************)
(* The daemon's loop and its connections (daemon/src/main.rs, server.rs,   *)
(* protocol.rs, and send_with_timeout of cli/src/client.rs), with time.    *)
(*                                                                         *)
(* The loop waits for a connection, a signal or the end of a sleep; it     *)
(* serves one connection at a time: reads a frame, handles the request,    *)
(* writes the answer, and waits for its client at most TimeLimit at the    *)
(* reading and again at the writing.  What a request does is the business  *)
(* of Engine; here it is one step, after any time.                         *)
(*                                                                         *)
(* A client may be slow, stopped or killed at any moment, and gives up     *)
(* when it likes: after its own time limit, or because someone ends it.    *)
(* Responses above the size limit are left out, and so is the channel of   *)
(* internal events, into which nothing is ever put.                        *)
(***************************************************************************)
EXTENDS Naturals, Sequences

CONSTANTS
  Conn,        \* clients with their connections, used again and again
  Nobody,      \* no connection
  TimeLimit,   \* DEFAULT_TIMEOUT, in units of time
  Sleep,       \* the loop's sleep, in units of time
  CheckEvery   \* session_check_interval, in units of time

ASSUME LoopAssumption ==
  /\ Nobody \notin Conn
  /\ TimeLimit \in Nat /\ CheckEvery \in Nat /\ Sleep \in Nat \ {0}

VARIABLES
  client,      \* what each client is at
  sent,        \* how much of its request is in its socket
  executed,    \* clients whose request was handled
  reply,       \* what the daemon left in each socket
  backlog,     \* connections not yet accepted
  loop,        \* where the loop is
  current,     \* the connection it serves
  limit,       \* what is left of the time limit at reading or writing
  sleepLeft,   \* what is left of the sleep
  sinceCheck,  \* time since last_session_check, up to CheckEvery
  stopping,    \* shutdown_requested
  held         \* how long the loop has waited for the current connection

clientVars == <<client, sent>>
timeVars == <<limit, sleepLeft, sinceCheck, held>>
vars == <<client, sent, executed, reply, backlog, loop, current, timeVars, stopping>>

ClientStates == {"away", "connected", "waiting", "answered", "failed"}
SentStates == {"nothing", "partial", "whole", "undecodable"}
ReplyStates == {"none", "answer", "closed"}
LoopStates == {"select", "reading", "handling", "writing", "stopped"}

Gone(c) == client[c] \in {"answered", "failed"}      \* its socket is closed

Queued == {backlog[i] : i \in DOMAIN backlog}

Init ==
  /\ client = [c \in Conn |-> "away"]
  /\ sent = [c \in Conn |-> "nothing"]
  /\ executed = {}
  /\ reply = [c \in Conn |-> "none"]
  /\ backlog = <<>>
  /\ loop = "select" /\ current = Nobody
  /\ limit = 0 /\ sleepLeft = Sleep /\ sinceCheck = 0
  /\ stopping = FALSE /\ held = 0

-----------------------------------------------------------------------------
(* The client: send_with_timeout, a step at a time.                        *)

Connect(c) ==
  /\ client[c] = "away" /\ loop # "stopped"
  /\ client' = [client EXCEPT ![c] = "connected"]
  /\ backlog' = Append(backlog, c)
  /\ UNCHANGED <<sent, executed, reply, loop, current, timeVars, stopping>>

(* Mutant: every part that arrives has a time limit of its own.            *)
WritePartRenews(c) ==
  /\ client[c] = "connected" /\ sent[c] = "nothing" /\ reply[c] = "none"
  /\ sent' = [sent EXCEPT ![c] = "partial"]
  /\ limit' = IF current = c THEN TimeLimit ELSE limit
  /\ UNCHANGED <<client, executed, reply, backlog, loop, current, sleepLeft,
                 sinceCheck, held, stopping>>

(* Some bytes of the frame, not all.                                       *)
WritePart(c) ==
  /\ client[c] = "connected" /\ sent[c] = "nothing" /\ reply[c] = "none"
  /\ sent' = [sent EXCEPT ![c] = "partial"]
  /\ UNCHANGED <<client, executed, reply, backlog, loop, current, timeVars, stopping>>

(* The rest of it.  A client of another release may send a request that    *)
(* this daemon cannot decode.                                              *)
WriteRest(c) ==
  /\ client[c] = "connected" /\ reply[c] = "none"
  /\ \E what \in {"whole", "undecodable"} : sent' = [sent EXCEPT ![c] = what]
  /\ client' = [client EXCEPT ![c] = "waiting"]
  /\ UNCHANGED <<executed, reply, backlog, loop, current, timeVars, stopping>>

Receive(c) ==
  /\ client[c] = "waiting" /\ reply[c] = "answer"
  /\ client' = [client EXCEPT ![c] = "answered"]
  /\ UNCHANGED <<sent, executed, reply, backlog, loop, current, timeVars, stopping>>

(* At any time: its limit has passed, it was ended, or the daemon is gone. *)
Fail(c) ==
  /\ client[c] \in {"connected", "waiting"}
  /\ client' = [client EXCEPT ![c] = "failed"]
  /\ UNCHANGED <<sent, executed, reply, backlog, loop, current, timeVars, stopping>>

(* Nothing is left of the connection on either side.                       *)
Leave(c) ==
  /\ Gone(c) /\ c \notin Queued /\ current # c
  /\ client' = [client EXCEPT ![c] = "away"]
  /\ sent' = [sent EXCEPT ![c] = "nothing"]
  /\ reply' = [reply EXCEPT ![c] = "none"]
  /\ executed' = executed \ {c}
  /\ UNCHANGED <<backlog, loop, current, timeVars, stopping>>

-----------------------------------------------------------------------------
(* The loop.                                                               *)

(* Mutant: the connection is looked at and stays in the queue.             *)
AcceptPeek ==
  /\ loop = "select" /\ backlog # <<>>
  /\ current' = Head(backlog)
  /\ loop' = "reading"
  /\ limit' = TimeLimit
  /\ held' = 0
  /\ UNCHANGED <<clientVars, executed, reply, backlog, sleepLeft, sinceCheck, stopping>>

Accept ==
  /\ loop = "select" /\ backlog # <<>>
  /\ current' = Head(backlog)
  /\ backlog' = Tail(backlog)
  /\ loop' = "reading"
  /\ limit' = TimeLimit
  /\ held' = 0
  /\ UNCHANGED <<clientVars, executed, reply, sleepLeft, sinceCheck, stopping>>

(* handle_connection returns: the connection is closed, and the loop ends  *)
(* if a shutdown was requested, which closes the connections in the queue, *)
(* or begins a new turn with a new sleep.                                  *)
EndConnection(how) ==
  /\ current' = Nobody
  /\ IF stopping
     THEN /\ loop' = "stopped" /\ backlog' = <<>>
          /\ reply' = [c \in Conn |-> IF c = current THEN how
                                      ELSE IF c \in Queued THEN "closed" ELSE reply[c]]
     ELSE /\ loop' = "select" /\ UNCHANGED backlog
          /\ reply' = [reply EXCEPT ![current] = how]
  /\ sleepLeft' = Sleep
  /\ UNCHANGED <<clientVars, limit, sinceCheck, held, stopping>>

(* Mutant: what has arrived is taken for all there is.                     *)
ReadRequestPart ==
  /\ loop = "reading" /\ sent[current] \in {"whole", "partial"}
  /\ loop' = "handling"
  /\ UNCHANGED <<clientVars, executed, reply, backlog, current, timeVars, stopping>>

ReadRequest ==
  /\ loop = "reading" /\ sent[current] = "whole"
  /\ loop' = "handling"
  /\ UNCHANGED <<clientVars, executed, reply, backlog, current, timeVars, stopping>>

(* The client has gone before it wrote it all, or it cannot be decoded.    *)
ReadFails ==
  /\ loop = "reading"
  /\ \/ sent[current] \in {"nothing", "partial"} /\ Gone(current)
     \/ sent[current] = "undecodable"
  /\ EndConnection("closed")
  /\ UNCHANGED executed

(* Mutant: once a part of the request is there the rest is waited for.     *)
ReadTimesOutEmpty ==
  /\ loop = "reading" /\ limit = 0 /\ sent[current] = "nothing"
  /\ EndConnection("closed")
  /\ UNCHANGED executed

ReadTimesOut ==
  /\ loop = "reading" /\ limit = 0 /\ sent[current] \in {"nothing", "partial"}
  /\ EndConnection("closed")
  /\ UNCHANGED executed

(* handle_request; the request may be a Shutdown.                          *)
Handle ==
  /\ loop = "handling"
  /\ executed' = executed \cup {current}
  /\ stopping' \in BOOLEAN
  /\ loop' = "writing"
  /\ limit' = TimeLimit
  /\ UNCHANGED <<clientVars, reply, backlog, current, sleepLeft, sinceCheck, held>>

WriteResponse ==
  /\ loop = "writing" /\ ~Gone(current)
  /\ EndConnection("answer")
  /\ UNCHANGED executed

(* The client has gone, or does not read an answer that is more than its   *)
(* socket can hold.                                                        *)
WriteFails ==
  /\ loop = "writing" /\ (Gone(current) \/ limit = 0)
  /\ EndConnection("closed")
  /\ UNCHANGED executed

(* Mutant: the time of the last check is set at every heartbeat.           *)
HeartBeatForgets ==
  /\ loop = "select" /\ sleepLeft = 0
  /\ sleepLeft' = Sleep
  /\ sinceCheck' = 0
  /\ UNCHANGED <<clientVars, executed, reply, backlog, loop, current, limit,
                 held, stopping>>

(* The sleep is over: check_heartbeats, and the sessions at long intervals.*)
HeartBeat ==
  /\ loop = "select" /\ sleepLeft = 0
  /\ sleepLeft' = Sleep
  /\ sinceCheck' = IF sinceCheck >= CheckEvery THEN 0 ELSE sinceCheck
  /\ UNCHANGED <<clientVars, executed, reply, backlog, loop, current, limit,
                 held, stopping>>

(* A signal is seen only between two connections, a crash comes anywhere.  *)
Stops ==
  /\ loop' = "stopped" /\ current' = Nobody /\ backlog' = <<>>
  /\ reply' = [c \in Conn |-> IF c = current \/ c \in Queued THEN "closed" ELSE reply[c]]
  /\ UNCHANGED <<clientVars, executed, timeVars, stopping>>

Signal == loop = "select" /\ Stops

Crash == loop # "stopped" /\ Stops

-----------------------------------------------------------------------------
(* A unit of time passes; never past the end of a limit or of the sleep,   *)
(* which the loop acts on first.                                           *)

Waits == loop \in {"reading", "writing"}

Elapse ==
  /\ loop # "stopped"
  /\ Waits => limit > 0
  /\ loop = "select" => sleepLeft > 0
  /\ limit' = IF Waits THEN limit - 1 ELSE limit
  /\ held' = IF Waits THEN held + 1 ELSE held
  /\ sleepLeft' = IF loop = "select" THEN sleepLeft - 1 ELSE sleepLeft
  /\ sinceCheck' = IF sinceCheck < CheckEvery THEN sinceCheck + 1 ELSE sinceCheck
  /\ UNCHANGED <<clientVars, executed, reply, backlog, loop, current, stopping>>

Read == ReadRequest \/ ReadFails \/ ReadTimesOut
Write == WriteResponse \/ WriteFails

Next ==
  \/ \E c \in Conn : \/ Connect(c) \/ WritePart(c) \/ WriteRest(c)
                     \/ Receive(c) \/ Fail(c) \/ Leave(c)
  \/ Accept \/ Read \/ Handle \/ Write \/ HeartBeat
  \/ Signal \/ Crash
  \/ Elapse

Spec == Init /\ [][Next]_vars

(* A loop that can go on does, handlers return, and time passes.  Of the   *)
(* branches that are ready select! takes one at random, so that a sleep    *)
(* that is over does not lose to a queued client for ever.  Nothing is     *)
(* assumed of clients, signals and crashes.                                *)
Fairness ==
  /\ WF_vars(Accept) /\ WF_vars(Read) /\ WF_vars(Handle) /\ WF_vars(Write)
  /\ SF_vars(HeartBeat) /\ WF_vars(Elapse)

FairSpec == Spec /\ Fairness

-----------------------------------------------------------------------------
(* Properties.                                                             *)

(* Every variable has its type; a connection is being served exactly when  *)
(* the loop is at one, and is in one place only.                           *)
TypeOK ==
  /\ client \in [Conn -> ClientStates]
  /\ sent \in [Conn -> SentStates]
  /\ executed \subseteq Conn
  /\ reply \in [Conn -> ReplyStates]
  /\ backlog \in Seq(Conn)
  /\ \A i, j \in DOMAIN backlog : backlog[i] = backlog[j] => i = j
  /\ loop \in LoopStates
  /\ IF loop \in {"select", "stopped"} THEN current = Nobody
                                       ELSE current \in Conn \ Queued
  /\ limit \in 0..TimeLimit /\ sleepLeft \in 0..Sleep
  /\ sinceCheck \in 0..CheckEvery
  /\ stopping \in BOOLEAN /\ held \in Nat

(* However slow its client, a connection keeps all others waiting for no   *)
(* longer than the two time limits, beside the time its handler takes.     *)
HeldBounded == held <= 2 * TimeLimit

(* The connections of the daemon implement RequestReply.                   *)
RR == INSTANCE RequestReply WITH
  request <- [c \in Conn |-> IF c \in executed THEN "executed"
                             ELSE IF sent[c] = "whole" THEN "made" ELSE "none"],
  outcome <- [c \in Conn |-> IF Gone(c) THEN client[c] ELSE "pending"]

RequestsAreCalls == RR!Spec

(* Every connection comes to its turn and to its end, however the clients  *)
(* before it behave: silent, stopped half-way, or not reading.             *)
ConnectionsEnd ==
  \A c \in Conn : (c \in Queued \/ current = c) ~> ~(c \in Queued \/ current = c)

Quiet == Queued = {} /\ current = Nobody

SessionCheck == HeartBeat /\ sinceCheck >= CheckEvery

(* When no more clients come the sessions are checked again and again.     *)
QuietMeansChecked ==
  <>[](Quiet /\ loop # "stopped") => []<><<SessionCheck>>_vars

(* The document's `interval(1s) => check_heartbeats()': a daemon that does *)
(* not stop comes to its heartbeat again and again.                        *)
ChecksRecur == []<>(loop = "stopped") \/ []<><<HeartBeat>>_vars

=============================================================================
