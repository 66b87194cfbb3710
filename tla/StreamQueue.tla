---------------------------- MODULE StreamQueue ----------------------------
(***************************************************************************)
(* What one frame list promises to the thread that takes frames out of it: *)
(* frames come out in the order of the stream, none twice; the list keeps  *)
(* at most Cap of them and refuses a new frame only when it holds Cap; a   *)
(* frame that waits may be passed over instead of being delivered.         *)
(***************************************************************************)
EXTENDS Naturals, Sequences

CONSTANT Cap

VARIABLES
  given,  \* how many frames the stream has had
  queue,  \* places in the stream of the frames that wait
  last    \* place of the last frame delivered, 0 before the first

Init == given = 0 /\ queue = <<>> /\ last = 0

Arrive ==
  /\ given' = given + 1
  /\ queue' = IF Len(queue) < Cap THEN Append(queue, given + 1) ELSE queue
  /\ UNCHANGED last

Deliver ==
  /\ queue # <<>>
  /\ queue' = Tail(queue) /\ last' = Head(queue)
  /\ UNCHANGED given

PassOver ==
  /\ queue # <<>>
  /\ queue' = Tail(queue)
  /\ UNCHANGED <<given, last>>

Next == Arrive \/ Deliver \/ PassOver

Spec == Init /\ [][Next]_<<given, queue, last>>
=============================================================================
