-------------------------- MODULE ServerLoopProofs --------------------------
(***************************************************************************)
(* The loop and its connections, for any number of clients and any limits: *)
(* no connection holds the loop longer than the two time limits, and the   *)
(* exchange of frames implements RequestReply.                             *)
(***************************************************************************)
EXTENDS ServerLoop, SequenceTheorems, TLAPS

(* A client that has not connected is nowhere in the daemon.               *)
AwayIsNowhere == \A c \in Conn : client[c] = "away" => c \notin Queued /\ c # current

LoopInv == TypeOK /\ AwayIsNowhere

(* What is left of a limit and what was waited add up.                     *)
WaitInv ==
  /\ loop = "reading" => held + limit = TimeLimit
  /\ loop = "handling" => held <= TimeLimit
  /\ loop = "writing" => held + limit <= 2 * TimeLimit
  /\ HeldBounded

(* A request is handled only when all of it is there, and only what was    *)
(* handled is answered.                                                    *)
CallInv ==
  /\ \A c \in Conn : client[c] \in {"away", "connected"} =>
       sent[c] \in {"nothing", "partial"} /\ c \notin executed
  /\ \A c \in Conn : reply[c] = "answer" => c \in executed
  /\ loop = "handling" => sent[current] = "whole"
  /\ loop = "writing" => current \in executed

-----------------------------------------------------------------------------
(* The queue of connections.                                               *)

Distinct(s) == \A i, j \in DOMAIN s : s[i] = s[j] => i = j

LEMMA QueueAppend ==
  ASSUME NEW s \in Seq(Conn), Distinct(s), NEW c \in Conn,
         c \notin {s[i] : i \in DOMAIN s}
  PROVE  /\ Append(s, c) \in Seq(Conn) /\ Distinct(Append(s, c))
         /\ {Append(s, c)[i] : i \in DOMAIN Append(s, c)}
              = {s[i] : i \in DOMAIN s} \cup {c}
<1> DEFINE a == Append(s, c)
           n == Len(s) + 1
<1>1. /\ a \in Seq(Conn) /\ Len(s) \in Nat /\ DOMAIN s = 1..Len(s)
      /\ DOMAIN a = 1..n /\ a[n] = c
      /\ \A i \in DOMAIN s : a[i] = s[i]
  BY AppendProperties, LenProperties
<1> HIDE DEF a
<1>2. DOMAIN a = DOMAIN s \cup {n} /\ n \notin DOMAIN s
  BY <1>1
<1> HIDE DEF n
<1>3. Distinct(a)
  BY <1>1, <1>2 DEF Distinct
<1>4. {a[i] : i \in DOMAIN a} = {s[i] : i \in DOMAIN s} \cup {c}
  BY <1>1, <1>2
<1> QED BY <1>1, <1>3, <1>4 DEF a

LEMMA QueueTail ==
  ASSUME NEW s \in Seq(Conn), Distinct(s), s # <<>>
  PROVE  /\ Head(s) \in Conn /\ Tail(s) \in Seq(Conn) /\ Distinct(Tail(s))
         /\ {Tail(s)[i] : i \in DOMAIN Tail(s)}
              = {s[i] : i \in DOMAIN s} \ {Head(s)}
         /\ Head(s) \in {s[i] : i \in DOMAIN s}
<1> DEFINE t == Tail(s)
<1>1. /\ Len(s) \in Nat \ {0} /\ DOMAIN s = 1..Len(s)
      /\ t \in Seq(Conn) /\ DOMAIN t = 1..(Len(s) - 1)
      /\ \A i \in DOMAIN t : t[i] = s[i + 1]
      /\ Head(s) = s[1] /\ s[1] \in Conn
  BY EmptySeq, LenProperties, HeadTailProperties
<1> HIDE DEF t
<1>2. /\ 1 \in DOMAIN s
      /\ \A i \in DOMAIN t : i + 1 \in DOMAIN s /\ i + 1 # 1
      /\ \A i \in DOMAIN s : i # 1 => i - 1 \in DOMAIN t /\ (i - 1) + 1 = i
      /\ \A i, j \in DOMAIN t : i + 1 = j + 1 => i = j
  BY <1>1
<1>3. Distinct(t)
  BY <1>1, <1>2 DEF Distinct
<1>4. ASSUME NEW i \in DOMAIN t PROVE t[i] \in {s[k] : k \in DOMAIN s} \ {s[1]}
  <2>1. t[i] = s[i + 1] /\ i + 1 \in DOMAIN s /\ i + 1 # 1
    BY <1>1, <1>2
  <2>2. s[i + 1] # s[1]
    BY <2>1, <1>2 DEF Distinct
  <2> QED BY <2>1, <2>2
<1>5. ASSUME NEW i \in DOMAIN s, s[i] # s[1] PROVE \E k \in DOMAIN t : t[k] = s[i]
  <2>1. i # 1
    BY <1>5
  <2>2. i - 1 \in DOMAIN t /\ t[i - 1] = s[i]
    BY <2>1, <1>1, <1>2
  <2> QED BY <2>2
<1>6. {t[i] : i \in DOMAIN t} = {s[i] : i \in DOMAIN s} \ {s[1]}
  BY <1>4, <1>5
<1>7. /\ {t[i] : i \in DOMAIN t} = {s[i] : i \in DOMAIN s} \ {Head(s)}
      /\ Head(s) \in {s[i] : i \in DOMAIN s}
  <2>1. Head(s) = s[1] /\ 1 \in DOMAIN s
    BY <1>1, <1>2
  <2> QED BY <1>6, <2>1, Zenon
<1> QED BY <1>1, <1>3, <1>7, Zenon DEF t

-----------------------------------------------------------------------------
(* Types.                                                                  *)

LEMMA LoopInit == Init => LoopInv /\ WaitInv /\ CallInv
<1> SUFFICES ASSUME Init PROVE LoopInv /\ WaitInv /\ CallInv
  OBVIOUS
<1> USE LoopAssumption
<1>1. <<>> \in Seq(Conn) /\ DOMAIN <<>> = {}
  BY EmptySeq
<1>2. Queued = {}
  BY <1>1 DEF Init, Queued
<1>3. TypeOK
  <2>1. /\ client \in [Conn -> ClientStates] /\ sent \in [Conn -> SentStates]
        /\ reply \in [Conn -> ReplyStates] /\ executed \subseteq Conn
    BY DEF Init, ClientStates, SentStates, ReplyStates
  <2>2. /\ backlog \in Seq(Conn)
        /\ \A i, j \in DOMAIN backlog : backlog[i] = backlog[j] => i = j
    BY <1>1 DEF Init
  <2>3. /\ loop = "select" /\ current = Nobody /\ loop \in LoopStates
        /\ stopping \in BOOLEAN
    BY DEF Init, LoopStates
  <2>4. /\ limit \in 0..TimeLimit /\ sleepLeft \in 0..Sleep
        /\ sinceCheck \in 0..CheckEvery /\ held \in Nat
    BY DEF Init
  <2> QED BY <2>1, <2>2, <2>3, <2>4 DEF TypeOK
<1>4. AwayIsNowhere
  BY <1>2 DEF Init, AwayIsNowhere
<1>5. WaitInv /\ CallInv
  BY DEF Init, WaitInv, HeldBounded, CallInv
<1> QED BY <1>3, <1>4, <1>5 DEF LoopInv

(* Steps of a client.                                                      *)
LEMMA ClientTypes ==
  ASSUME LoopInv, NEW c \in Conn,
         Connect(c) \/ WritePart(c) \/ WriteRest(c) \/ Receive(c) \/ Fail(c) \/ Leave(c)
  PROVE  LoopInv'
<1> USE DEF LoopInv, TypeOK, AwayIsNowhere
<1>1. CASE Connect(c)
  <2>1. backlog \in Seq(Conn) /\ Distinct(backlog) /\ c \notin Queued /\ c # current
    BY <1>1 DEF Connect, Distinct
  <2>2. /\ backlog' \in Seq(Conn) /\ Distinct(backlog')
        /\ Queued' = Queued \cup {c}
    BY <1>1, <2>1, QueueAppend DEF Connect, Queued
  <2>3. client' \in [Conn -> ClientStates]
    BY <1>1 DEF Connect, ClientStates
  <2>4. UNCHANGED <<sent, executed, reply, loop, current, timeVars, stopping>>
    BY <1>1 DEF Connect
  <2>5. AwayIsNowhere'
    BY <1>1, <2>2, <2>4 DEF Connect
  <2>6. IF loop' \in {"select", "stopped"} THEN current' = Nobody
                                           ELSE current' \in Conn \ Queued'
    BY <2>1, <2>2, <2>4
  <2> QED BY <2>2, <2>3, <2>4, <2>5, <2>6 DEF Distinct, timeVars
<1>2. ASSUME UNCHANGED <<backlog, loop, current, timeVars, stopping>>,
             client' \in [Conn -> ClientStates], sent' \in [Conn -> SentStates],
             reply' \in [Conn -> ReplyStates], executed' \subseteq Conn,
             \A d \in Conn : client'[d] = "away" =>
               client[d] = "away" \/ (d \notin Queued /\ d # current)
      PROVE  LoopInv'
  BY <1>2 DEF timeVars, Queued
<1>3. CASE WritePart(c)
  BY <1>2, <1>3 DEF WritePart, SentStates
<1>4. CASE WriteRest(c)
  BY <1>2, <1>4 DEF WriteRest, SentStates, ClientStates
<1>5. CASE Receive(c)
  BY <1>2, <1>5 DEF Receive, ClientStates
<1>6. CASE Fail(c)
  BY <1>2, <1>6 DEF Fail, ClientStates
<1>7. CASE Leave(c)
  BY <1>2, <1>7 DEF Leave, ClientStates, SentStates, ReplyStates
<1> QED BY <1>1, <1>3, <1>4, <1>5, <1>6, <1>7

(* The queue is emptied, and nothing is served.                            *)
LEMMA EmptyQueue == backlog' = <<>> => Queued' = {} /\ backlog' \in Seq(Conn)
BY EmptySeq DEF Queued

LEMMA EndTypes ==
  ASSUME LoopInv, NEW how \in ReplyStates, EndConnection(how), current \in Conn,
         UNCHANGED executed
  PROVE  LoopInv'
<1> USE DEF LoopInv, TypeOK, AwayIsNowhere, EndConnection, clientVars
<1>1. reply' \in [Conn -> ReplyStates]
  BY DEF ReplyStates
<1>2. /\ backlog' \in Seq(Conn) /\ Distinct(backlog') /\ Queued' \subseteq Queued
      /\ loop' \in {"select", "stopped"}
  <2>1. CASE stopping
    <3>1. loop' = "stopped" /\ backlog' = <<>>
      BY <2>1
    <3>2. DOMAIN backlog' = {}
      BY <3>1
    <3> QED BY <3>1, <3>2, EmptySeq DEF Queued, Distinct
  <2>2. CASE ~stopping
    BY <2>2 DEF Queued, Distinct
  <2> QED BY <2>1, <2>2
<1>3. current' = Nobody /\ sleepLeft' \in 0..Sleep
  BY LoopAssumption
<1>4. AwayIsNowhere'
  BY <1>2, <1>3, LoopAssumption
<1> QED BY <1>1, <1>2, <1>3, <1>4 DEF LoopStates, Distinct

LEMMA ServingTypes ==
  TypeOK => /\ loop \in {"reading", "handling", "writing"} => current \in Conn
            /\ loop = "select" => current = Nobody
            /\ limit \in Nat /\ held \in Nat /\ sleepLeft \in Nat /\ TimeLimit \in Nat
BY LoopAssumption DEF TypeOK

LEMMA LoopTypes ==
  ASSUME LoopInv,
         Accept \/ Read \/ Handle \/ Write \/ HeartBeat \/ Signal \/ Crash \/ Elapse
  PROVE  LoopInv'
<1> USE LoopAssumption DEF LoopInv
<1>1. CASE Accept
  <2>1. backlog \in Seq(Conn) /\ Distinct(backlog) /\ backlog # <<>>
    BY <1>1 DEF Accept, TypeOK, Distinct
  <2>2. /\ current' \in Conn /\ backlog' \in Seq(Conn) /\ Distinct(backlog')
        /\ Queued' = Queued \ {current'} /\ current' \in Queued
    BY <1>1, <2>1, QueueTail DEF Accept, Queued
  <2>3. UNCHANGED <<client, sent, executed, reply, sleepLeft, sinceCheck, stopping>>
        /\ loop' = "reading" /\ limit' = TimeLimit /\ held' = 0
    BY <1>1 DEF Accept, clientVars
  <2>4. AwayIsNowhere'
    BY <2>2, <2>3 DEF AwayIsNowhere
  <2> QED BY <2>2, <2>3, <2>4 DEF TypeOK, LoopStates, Distinct
<1>2. CASE ReadRequest
  BY <1>2 DEF ReadRequest, TypeOK, LoopStates, AwayIsNowhere, clientVars, timeVars, Queued
<1>3. CASE ReadFails \/ ReadTimesOut \/ WriteFails \/ WriteResponse
  <2>1. current \in Conn
    BY <1>3, ServingTypes DEF ReadFails, ReadTimesOut, WriteFails, WriteResponse
  <2> QED BY <1>3, <2>1, EndTypes
          DEF ReadFails, ReadTimesOut, WriteFails, WriteResponse, ReplyStates
<1>4. CASE Handle
  BY <1>4, ServingTypes DEF Handle, TypeOK, LoopStates, AwayIsNowhere, clientVars, Queued
<1>5. CASE HeartBeat
  BY <1>5 DEF HeartBeat, TypeOK, AwayIsNowhere, clientVars, Queued
<1>6. CASE Stops
  <2>1. Queued' = {} /\ backlog' \in Seq(Conn) /\ DOMAIN backlog' = {}
    BY <1>6, EmptyQueue, EmptySeq DEF Stops
  <2>2. reply' \in [Conn -> ReplyStates]
    BY <1>6 DEF Stops, TypeOK, ReplyStates
  <2> QED BY <1>6, <2>1, <2>2
          DEF Stops, TypeOK, LoopStates, AwayIsNowhere, clientVars, timeVars
<1>7. CASE Elapse
  <2>1. limit' \in 0..TimeLimit /\ held' \in Nat
    BY <1>7 DEF Elapse, TypeOK
  <2>2. sleepLeft' \in 0..Sleep /\ sinceCheck' \in 0..CheckEvery
    BY <1>7 DEF Elapse, TypeOK
  <2> QED BY <1>7, <2>1, <2>2 DEF Elapse, TypeOK, AwayIsNowhere, clientVars, Queued
<1> QED BY <1>1, <1>2, <1>3, <1>4, <1>5, <1>6, <1>7
        DEF Read, Write, Signal, Crash

LEMMA LoopStep == LoopInv /\ [Next]_vars => LoopInv'
<1> SUFFICES ASSUME LoopInv, [Next]_vars PROVE LoopInv'
  OBVIOUS
<1>1. CASE UNCHANGED vars
  BY <1>1 DEF LoopInv, TypeOK, AwayIsNowhere, vars, timeVars, Queued
<1> QED BY <1>1, ClientTypes, LoopTypes DEF Next

(* A connection is in the queue or at the loop, in one place only, and     *)
(* every timer stays within its limit.  main, handle_connection.           *)
THEOREM LoopTypeOK == Spec => []TypeOK
<1>1. LoopInv => TypeOK
  BY DEF LoopInv
<1> QED BY LoopInit, LoopStep, <1>1, PTL DEF Spec

-----------------------------------------------------------------------------
(* The time a connection takes.                                            *)

LEMMA WaitStep == TypeOK /\ WaitInv /\ [Next]_vars => WaitInv'
<1> SUFFICES ASSUME TypeOK, WaitInv, [Next]_vars PROVE WaitInv'
  OBVIOUS
<1> USE ServingTypes DEF WaitInv, HeldBounded
<1>1. ASSUME UNCHANGED <<loop, held, limit>> PROVE WaitInv'
  BY <1>1
<1>2. ASSUME UNCHANGED held, loop' \in {"select", "stopped"} PROVE WaitInv'
  BY <1>2
<1>3. CASE \E c \in Conn : Connect(c) \/ WritePart(c) \/ WriteRest(c)
                           \/ Receive(c) \/ Fail(c) \/ Leave(c)
  BY <1>1, <1>3 DEF Connect, WritePart, WriteRest, Receive, Fail, Leave, timeVars
<1>4. CASE Accept
  BY <1>4 DEF Accept
<1>5. CASE ReadRequest
  BY <1>5 DEF ReadRequest, timeVars
<1>6. CASE ReadFails \/ ReadTimesOut \/ WriteResponse \/ WriteFails
  BY <1>2, <1>6 DEF ReadFails, ReadTimesOut, WriteResponse, WriteFails, EndConnection
<1>7. CASE Handle
  BY <1>7 DEF Handle
<1>8. CASE HeartBeat
  BY <1>1, <1>8 DEF HeartBeat
<1>9. CASE Signal \/ Crash
  BY <1>2, <1>9 DEF Signal, Crash, Stops, timeVars
<1>10. CASE Elapse
  BY <1>10 DEF Elapse, Waits
<1>11. CASE UNCHANGED vars
  BY <1>1, <1>11 DEF vars, timeVars
<1> QED BY <1>3, <1>4, <1>5, <1>6, <1>7, <1>8, <1>9, <1>10, <1>11 DEF Next, Read, Write

(* However slow or silent its client, a connection keeps the others        *)
(* waiting for at most the two time limits.  read_request, write_response. *)
THEOREM LoopHeldBounded == Spec => []HeldBounded
<1>1. WaitInv => HeldBounded
  BY DEF WaitInv
<1> QED BY LoopTypeOK, LoopInit, WaitStep, <1>1, PTL DEF Spec

-----------------------------------------------------------------------------
(* The refinement.                                                         *)

CallsInv == LoopInv /\ CallInv

LEMMA ClientCalls ==
  ASSUME CallsInv, NEW c \in Conn,
         Connect(c) \/ WritePart(c) \/ WriteRest(c) \/ Receive(c) \/ Fail(c) \/ Leave(c)
  PROVE  CallInv'
<1> USE DEF CallsInv, LoopInv, TypeOK, CallInv
<1>1. CASE Connect(c)
  BY <1>1 DEF Connect
<1>2. CASE WritePart(c)
  <2>1. c # current \/ loop \notin {"handling"}
    BY <1>2 DEF WritePart
  <2> QED BY <1>2, <2>1 DEF WritePart
<1>3. CASE WriteRest(c)
  <2>1. c # current \/ loop \notin {"handling"}
    BY <1>3 DEF WriteRest
  <2> QED BY <1>3, <2>1 DEF WriteRest
<1>4. CASE Receive(c)
  BY <1>4 DEF Receive
<1>5. CASE Fail(c)
  BY <1>5 DEF Fail
<1>6. CASE Leave(c)
  BY <1>6 DEF Leave
<1> QED BY <1>1, <1>2, <1>3, <1>4, <1>5, <1>6

LEMMA LoopCalls ==
  ASSUME CallsInv,
         Accept \/ Read \/ Handle \/ Write \/ HeartBeat \/ Signal \/ Crash \/ Elapse
  PROVE  CallInv'
<1> USE DEF CallsInv, LoopInv, CallInv
<1> USE ServingTypes
<1>1. ASSUME UNCHANGED <<client, sent, executed>>,
             loop' \in {"select", "stopped", "reading"},
             \A d \in Conn : reply'[d] = "answer" =>
               reply[d] = "answer" \/ (d = current /\ loop = "writing")
      PROVE  CallInv'
  BY <1>1
<1>2. CASE Accept
  BY <1>1, <1>2 DEF Accept, clientVars
<1>3. CASE ReadRequest
  BY <1>3 DEF ReadRequest, clientVars
<1>4. ASSUME NEW how \in {"answer", "closed"}, EndConnection(how), UNCHANGED executed,
             current \in Conn, how = "answer" => loop = "writing"
      PROVE  CallInv'
  <2>1. \A d \in Conn : reply'[d] = "answer" =>
          reply[d] = "answer" \/ (d = current /\ loop = "writing")
    <3>1. CASE stopping
      BY <1>4, <3>1 DEF EndConnection
    <3>2. CASE ~stopping
      <4>1. reply' = [reply EXCEPT ![current] = how] /\ reply \in [Conn -> ReplyStates]
        BY <1>4, <3>2 DEF EndConnection, TypeOK
      <4> QED BY <1>4, <4>1
    <3> QED BY <3>1, <3>2
  <2>2. UNCHANGED <<client, sent>> /\ loop' \in {"select", "stopped"}
    BY <1>4 DEF EndConnection, clientVars
  <2> QED BY <1>1, <1>4, <2>1, <2>2
<1>5. CASE ReadFails \/ ReadTimesOut \/ WriteFails \/ WriteResponse
  <2>1. current \in Conn
    BY <1>5 DEF ReadFails, ReadTimesOut, WriteFails, WriteResponse
  <2>2. CASE EndConnection("closed") /\ UNCHANGED executed
    BY <1>4, <2>1, <2>2
  <2>3. CASE WriteResponse
    BY <1>4, <2>1, <2>3 DEF WriteResponse
  <2> QED BY <1>5, <2>2, <2>3 DEF ReadFails, ReadTimesOut, WriteFails
<1>6. CASE Handle
  <2>1. current \in Conn /\ sent[current] = "whole"
    BY <1>6 DEF Handle
  <2>2. client[current] \notin {"away", "connected"}
    BY <2>1
  <2> QED BY <1>6, <2>2 DEF Handle, clientVars
<1>7. CASE HeartBeat
  BY <1>1, <1>7 DEF HeartBeat, clientVars
<1>8. CASE Signal \/ Crash
  <2>1. \A d \in Conn : reply'[d] = "answer" => reply[d] = "answer"
    BY <1>8 DEF Signal, Crash, Stops
  <2> QED BY <1>1, <1>8, <2>1 DEF Signal, Crash, Stops, clientVars
<1>9. CASE Elapse
  BY <1>9 DEF Elapse, clientVars
<1> QED BY <1>2, <1>3, <1>5, <1>6, <1>7, <1>8, <1>9 DEF Read, Write

LEMMA CallStep == CallsInv /\ [Next]_vars => CallsInv'
<1> SUFFICES ASSUME CallsInv, [Next]_vars PROVE CallsInv'
  OBVIOUS
<1>1. LoopInv'
  BY LoopStep DEF CallsInv
<1>2. UNCHANGED vars => CallInv'
  BY DEF CallsInv, CallInv, vars
<1>3. CallInv'
  BY <1>2, ClientCalls, LoopCalls DEF Next, CallsInv
<1> QED BY <1>1, <1>3 DEF CallsInv

(* What an abstract client sees of the state.                              *)
Req(c) == IF c \in executed THEN "executed"
          ELSE IF sent[c] = "whole" THEN "made" ELSE "none"
Out(c) == IF Gone(c) THEN client[c] ELSE "pending"

LEMMA InitCalls == Init => RR!Init
BY DEF Init, RR!Init, Gone

(* Nothing that an abstract client sees changes.                           *)
LEMMA StutterCalls ==
  ASSUME UNCHANGED <<client, executed>>,
         \A c \in Conn : (sent[c] = "whole")' <=> sent[c] = "whole"
  PROVE  UNCHANGED RR!vars
<1>1. \A c \in Conn : Req(c)' = Req(c) /\ Out(c)' = Out(c)
  BY DEF Req, Out, Gone
<1> QED BY <1>1 DEF RR!vars, Req, Out, Gone

(* What one of them sees changes, and the step is one of its own.          *)
LEMMA OneCall ==
  ASSUME NEW c \in Conn,
         \A d \in Conn \ {c} : Req(d)' = Req(d) /\ Out(d)' = Out(d),
         \/ Req(c) = "none" /\ Req(c)' = "made" /\ Out(c) = "pending" /\ Out(c)' = "pending"
         \/ Req(c) = "made" /\ Req(c)' = "executed" /\ Out(c)' = Out(c)
         \/ Req(c)' = Req(c) /\ Req(c) = "executed"
            /\ Out(c) = "pending" /\ Out(c)' = "answered"
         \/ Req(c)' = Req(c) /\ Out(c) = "pending" /\ Out(c)' = "failed"
         \/ Out(c) # "pending" /\ Req(c)' = "none" /\ Out(c)' = "pending"
         \/ Req(c)' = Req(c) /\ Out(c)' = Out(c)
  PROVE  [RR!Next]_(RR!vars)
<1> DEFINE q == [d \in Conn |-> Req(d)]
           o == [d \in Conn |-> Out(d)]
<1>1. /\ q' = [q EXCEPT ![c] = Req(c)'] /\ o' = [o EXCEPT ![c] = Out(c)']
      /\ q[c] = Req(c) /\ o[c] = Out(c)
  OBVIOUS
<1>2. /\ Req(c)' = Req(c) => q' = q
      /\ Out(c)' = Out(c) => o' = o
  OBVIOUS
<1>3. /\ q = [d \in Conn |-> IF d \in executed THEN "executed"
                             ELSE IF sent[d] = "whole" THEN "made" ELSE "none"]
      /\ o = [d \in Conn |-> IF Gone(d) THEN client[d] ELSE "pending"]
  BY DEF Req, Out
<1>10. /\ q' = [d \in Conn |-> IF d \in executed' THEN "executed"
                              ELSE IF sent'[d] = "whole" THEN "made" ELSE "none"]
       /\ o' = [d \in Conn |-> IF Gone(d)' THEN client'[d] ELSE "pending"]
  BY DEF Req, Out
<1> HIDE DEF q, o
<1>4. CASE Req(c) = "none" /\ Req(c)' = "made" /\ Out(c) = "pending" /\ Out(c)' = "pending"
  BY <1>1, <1>2, <1>3, <1>10, <1>4 DEF RR!Next, RR!Make
<1>5. CASE Req(c) = "made" /\ Req(c)' = "executed" /\ Out(c)' = Out(c)
  BY <1>1, <1>2, <1>3, <1>10, <1>5 DEF RR!Next, RR!Execute
<1>6. CASE Req(c)' = Req(c) /\ Req(c) = "executed" /\ Out(c) = "pending" /\ Out(c)' = "answered"
  BY <1>1, <1>2, <1>3, <1>10, <1>6 DEF RR!Next, RR!Answer
<1>7. CASE Req(c)' = Req(c) /\ Out(c) = "pending" /\ Out(c)' = "failed"
  BY <1>1, <1>2, <1>3, <1>10, <1>7 DEF RR!Next, RR!Fail
<1>8. CASE Out(c) # "pending" /\ Req(c)' = "none" /\ Out(c)' = "pending"
  BY <1>1, <1>2, <1>3, <1>10, <1>8 DEF RR!Next, RR!Renew
<1>9. CASE Req(c)' = Req(c) /\ Out(c)' = Out(c)
  BY <1>2, <1>3, <1>10, <1>9 DEF RR!vars
<1> QED BY <1>4, <1>5, <1>6, <1>7, <1>8, <1>9

LEMMA StepCalls == CallsInv /\ [Next]_vars => [RR!Next]_(RR!vars)
<1> SUFFICES ASSUME CallsInv, [Next]_vars PROVE [RR!Next]_(RR!vars)
  OBVIOUS
<1> USE DEF CallsInv, LoopInv, CallInv
<1>1. ASSUME UNCHANGED <<client, executed, sent>> PROVE [RR!Next]_(RR!vars)
  BY <1>1, StutterCalls
<1>2. ASSUME NEW c \in Conn, Connect(c) \/ WritePart(c) \/ WriteRest(c)
                             \/ Receive(c) \/ Fail(c) \/ Leave(c)
      PROVE  [RR!Next]_(RR!vars)
  <2>1. ASSUME NEW d \in Conn, d # c PROVE Req(d)' = Req(d) /\ Out(d)' = Out(d)
    BY <1>2, <2>1 DEF Connect, WritePart, WriteRest, Receive, Fail, Leave,
                      Req, Out, Gone, TypeOK
  <2>2. CASE Connect(c)
    BY <2>1, <2>2, OneCall DEF Connect, Req, Out, Gone, TypeOK
  <2>3. CASE WritePart(c)
    BY <2>1, <2>3, OneCall DEF WritePart, Req, Out, Gone, TypeOK
  <2>4. CASE WriteRest(c)
    BY <2>1, <2>4, OneCall DEF WriteRest, Req, Out, Gone, TypeOK
  <2>5. CASE Receive(c)
    BY <2>1, <2>5, OneCall DEF Receive, Req, Out, Gone, TypeOK
  <2>6. CASE Fail(c)
    BY <2>1, <2>6, OneCall DEF Fail, Req, Out, Gone, TypeOK
  <2>7. CASE Leave(c)
    BY <2>1, <2>7, OneCall DEF Leave, Req, Out, Gone, TypeOK
  <2> QED BY <1>2, <2>2, <2>3, <2>4, <2>5, <2>6, <2>7
<1>3. CASE Handle
  <2>1. PICK c \in Conn : c = current /\ sent[c] = "whole"
    BY <1>3, ServingTypes DEF Handle
  <2>2. ASSUME NEW d \in Conn, d # c PROVE Req(d)' = Req(d) /\ Out(d)' = Out(d)
    BY <1>3, <2>1, <2>2 DEF Handle, clientVars, Req, Out, Gone
  <2>3. /\ Req(c) = "made" \/ Req(c) = "executed"
        /\ Req(c)' = "executed" /\ Out(c)' = Out(c)
    BY <1>3, <2>1 DEF Handle, clientVars, Req, Out, Gone
  <2> QED BY <2>2, <2>3, OneCall
<1>4. CASE Accept \/ Read \/ Write \/ HeartBeat \/ Signal \/ Crash \/ Elapse
  BY <1>1, <1>4
     DEF Accept, Read, ReadRequest, ReadFails, ReadTimesOut, Write, WriteResponse,
         WriteFails, EndConnection, HeartBeat, Signal, Crash, Stops, Elapse, clientVars
<1>5. CASE UNCHANGED vars
  BY <1>1, <1>5 DEF vars
<1> QED BY <1>2, <1>3, <1>4, <1>5 DEF Next

(* The daemon's connections implement RequestReply for any clients and     *)
(* limits: what is answered was carried out, and nothing is carried out    *)
(* twice or unasked.  handle_connection, send_with_timeout.                *)
THEOREM LoopRequestsAreCalls == Spec => RequestsAreCalls
<1>1. Init => CallsInv
  BY LoopInit DEF CallsInv
<1> QED BY <1>1, CallStep, InitCalls, StepCalls, PTL DEF Spec, RequestsAreCalls, RR!Spec

=============================================================================
