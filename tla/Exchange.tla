------------------------------ MODULE Exchange ------------------------------
(***************************************************************************)
(* What a thread that sends a request to the CMU server is promised: it    *)
(* gets the answer to that request, once, or none in time.                 *)
(***************************************************************************)
EXTENDS Naturals

CONSTANT Threads

VARIABLES
  asking,   \* the request each thread waits with, 0 for none
  requests, \* requests made so far
  taken     \* the requests whose answers were taken, in this order one by one

Init ==
  /\ asking = [t \in Threads |-> 0]
  /\ requests = 0 /\ taken = {}

Ask(t) ==
  /\ asking[t] = 0
  /\ requests' = requests + 1
  /\ asking' = [asking EXCEPT ![t] = requests + 1]
  /\ UNCHANGED taken

Get(t) ==
  /\ asking[t] # 0 /\ asking[t] \notin taken
  /\ taken' = taken \cup {asking[t]}
  /\ asking' = [asking EXCEPT ![t] = 0]
  /\ UNCHANGED requests

GiveUp(t) ==
  /\ asking[t] # 0
  /\ asking' = [asking EXCEPT ![t] = 0]
  /\ UNCHANGED <<requests, taken>>

Next == \E t \in Threads : Ask(t) \/ Get(t) \/ GiveUp(t)

Spec == Init /\ [][Next]_<<asking, requests, taken>>
=============================================================================
