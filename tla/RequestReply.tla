---------------------------- MODULE RequestReply ----------------------------
(***************************************************************************)
(* What a client of the daemon may rely on, whatever frames, time limits   *)
(* and broken connections come between: a request is carried out at most   *)
(* once and only if it was made, an answer comes only of a request that    *)
(* was carried out, and a client that got none knows nothing: its request  *)
(* may never be carried out, may have been, or may be yet.                 *)
(***************************************************************************)
CONSTANT Conn

VARIABLES request, outcome

vars == <<request, outcome>>

Init == /\ request = [c \in Conn |-> "none"]
        /\ outcome = [c \in Conn |-> "pending"]

Make(c) == /\ request[c] = "none" /\ outcome[c] = "pending"
           /\ request' = [request EXCEPT ![c] = "made"]
           /\ UNCHANGED outcome

Execute(c) == /\ request[c] = "made"
              /\ request' = [request EXCEPT ![c] = "executed"]
              /\ UNCHANGED outcome

Answer(c) == /\ request[c] = "executed" /\ outcome[c] = "pending"
             /\ outcome' = [outcome EXCEPT ![c] = "answered"]
             /\ UNCHANGED request

Fail(c) == /\ outcome[c] = "pending"
           /\ outcome' = [outcome EXCEPT ![c] = "failed"]
           /\ UNCHANGED request

(* The next client.                                                        *)
Renew(c) == /\ outcome[c] # "pending"
            /\ request' = [request EXCEPT ![c] = "none"]
            /\ outcome' = [outcome EXCEPT ![c] = "pending"]

Next == \E c \in Conn : Make(c) \/ Execute(c) \/ Answer(c) \/ Fail(c) \/ Renew(c)

Spec == Init /\ [][Next]_vars

=============================================================================
