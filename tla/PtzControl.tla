----------------------------- MODULE PtzControl -----------------------------
(***************************************************************************)
(* Turning a camera while a button is held                                 *)
(* (src/src/com/topvs/player/PZLControlThread.java):                       *)
(*   ui     the main thread: startCTL and stopCTL when a finger comes down *)
(*          on a button of PlayActivity and goes up again, and destroy;    *)
(*   startT startCTLThread, stopT stopCTLThread, one monitor each.         *)
(* isCTLbussy and isCTLRunning pass between the two threads, the camera    *)
(* from ui to both, without a lock.  A thread keeps its monitor while      *)
(* DomeControl talks to the server; a notify has to wait for that, and     *)
(* reaches nobody when the thread has not come back to wait().             *)
(***************************************************************************)
CONSTANT Cameras   \* the cameras a button may act on

VARIABLES
  exit,      \* isActivityExit
  target,    \* iCamIndex
  busy,      \* isCTLbussy
  running,   \* isCTLRunning
  startT,    \* where startCTLThread stands
  stopT,     \* where stopCTLThread stands
  ui,        \* what the main thread does
  button,    \* a finger is on a button
  turning,   \* the cameras that turn
  spoilt     \* auxiliary: a premise under which a camera comes to rest is broken

threads == <<startT, stopT>>
vars == <<exit, target, busy, running, threads, ui, button, turning, spoilt>>

Init ==
  /\ exit = FALSE /\ target \in Cameras /\ busy = FALSE /\ running = FALSE
  /\ startT = "top" /\ stopT = "top"
  /\ ui = "idle" /\ button = FALSE
  /\ turning = {} /\ spoilt = FALSE

StartMonitorFree == startT \notin {"test", "send", "sent", "clear"}
StopMonitorFree  == stopT \notin {"poll", "send", "reset"}

NotifyStart == StartMonitorFree /\ startT' = IF startT = "wait" THEN "woken" ELSE startT
NotifyStop  == StopMonitorFree /\ stopT' = IF stopT = "wait" THEN "woken" ELSE stopT

-----------------------------------------------------------------------------
\* startCTLThread: while (!isActivityExit) synchronized ... wait().

StartKeeps == <<exit, target, stopT, ui, button>>

StartWaits ==
  /\ startT = "top" /\ ~exit /\ startT' = "enter"
  /\ UNCHANGED <<StartKeeps, busy, running, turning, spoilt>>

StartEnters ==
  /\ startT = "enter" /\ startT' = "wait"
  /\ UNCHANGED <<StartKeeps, busy, running, turning, spoilt>>

StartResumes ==
  /\ startT = "woken" /\ startT' = "test"
  /\ UNCHANGED <<StartKeeps, busy, running, turning, spoilt>>

StartEnds ==
  /\ startT \in {"top", "test"} /\ exit /\ startT' = "done"
  /\ UNCHANGED <<StartKeeps, busy, running, turning, spoilt>>

\* A mutant: without the flag that the stop thread waits for.
StartBegins_Quietly ==
  /\ startT = "test" /\ ~exit
  /\ startT' = "send"
  /\ UNCHANGED <<StartKeeps, busy, running, turning, spoilt>>

StartBegins ==
  /\ startT = "test" /\ ~exit
  /\ busy' = TRUE /\ startT' = "send"
  /\ UNCHANGED <<StartKeeps, running, turning, spoilt>>

\* DomeControl(iCamIndex, 1, ...): the command is sent, or nothing is.
StartSends ==
  /\ startT = "send"
  /\ \/ turning' = turning \cup {target} /\ startT' = "sent"
     \/ startT' = "clear" /\ UNCHANGED turning
  /\ UNCHANGED <<StartKeeps, busy, running, spoilt>>

StartRecords ==
  /\ startT = "sent"
  /\ running' = TRUE /\ startT' = "clear"
  /\ UNCHANGED <<StartKeeps, busy, turning, spoilt>>

\* A mutant: the flag is not taken back.
StartLeaves_Busy ==
  /\ startT = "clear"
  /\ startT' = "top"
  /\ UNCHANGED <<StartKeeps, busy, running, turning, spoilt>>

StartLeaves ==
  /\ startT = "clear"
  /\ busy' = FALSE /\ startT' = "top"
  /\ UNCHANGED <<StartKeeps, running, turning, spoilt>>

StartStep ==
  \/ StartWaits \/ StartEnters \/ StartResumes \/ StartEnds
  \/ StartBegins \/ StartSends \/ StartRecords \/ StartLeaves

-----------------------------------------------------------------------------
\* stopCTLThread.

StopKeeps == <<exit, target, busy, startT, ui, button>>

StopWaits ==
  /\ stopT = "top" /\ ~exit /\ stopT' = "enter"
  /\ UNCHANGED <<StopKeeps, running, turning, spoilt>>

StopEnters ==
  /\ stopT = "enter" /\ stopT' = "wait"
  /\ UNCHANGED <<StopKeeps, running, turning, spoilt>>

StopResumes ==
  /\ stopT = "woken" /\ stopT' = "poll"
  /\ UNCHANGED <<StopKeeps, running, turning, spoilt>>

\* A mutant: the stop is sent before the start has ended.
StopPolls_Once ==
  /\ stopT = "poll"
  /\ stopT' = IF running THEN "send" ELSE "reset"
  /\ UNCHANGED <<StopKeeps, running, turning, spoilt>>

\* "while (isCTLbussy && !isActivityExit) sleep(3)", then "if (isCTLRunning)".
StopPolls ==
  /\ stopT = "poll"
  /\ ~busy \/ exit
  /\ stopT' = IF running THEN "send" ELSE "reset"
  /\ UNCHANGED <<StopKeeps, running, turning, spoilt>>

\* DomeControl(iCamIndex, 0, ...); nobody looks at its result.
StopSends ==
  /\ stopT = "send" /\ stopT' = "reset"
  /\ \/ turning' = turning \ {target} /\ UNCHANGED spoilt
     \/ spoilt' = TRUE /\ UNCHANGED turning
  /\ UNCHANGED <<StopKeeps, running>>

StopLeaves ==
  /\ stopT = "reset"
  /\ running' = FALSE /\ stopT' = "top"
  /\ UNCHANGED <<StopKeeps, turning, spoilt>>

StopEnds ==
  /\ stopT = "top" /\ exit /\ stopT' = "done"
  /\ UNCHANGED <<StopKeeps, running, turning, spoilt>>

StopStep ==
  \/ StopWaits \/ StopEnters \/ StopResumes \/ StopPolls
  \/ StopSends \/ StopLeaves \/ StopEnds

-----------------------------------------------------------------------------
\* The main thread.

UiKeeps == <<busy, running, turning>>

\* startCTL: the fields, then notify.  A finger that comes down before the stop
\* thread is back in wait() is too quick.
UiPresses ==
  /\ ui = "idle" /\ ~exit /\ ~button
  /\ \E c \in Cameras : target' = c
  /\ button' = TRUE /\ ui' = "start"
  /\ spoilt' = (spoilt \/ stopT # "wait")
  /\ UNCHANGED <<UiKeeps, exit, threads>>

UiNotifiesStart ==
  /\ ui = "start" /\ NotifyStart /\ ui' = "idle"
  /\ UNCHANGED <<UiKeeps, exit, target, stopT, button, spoilt>>

\* stopCTL.  A finger that goes up before the start thread has raised
\* isCTLbussy is too quick.
UiReleases ==
  /\ ui = "idle" /\ ~exit /\ button
  /\ button' = FALSE /\ ui' = "stop"
  /\ spoilt' = (spoilt \/ startT \in {"woken", "test"})
  /\ UNCHANGED <<UiKeeps, exit, target, threads>>

UiNotifiesStop ==
  /\ ui = "stop" /\ NotifyStop /\ ui' = "idle"
  /\ UNCHANGED <<UiKeeps, exit, target, startT, button, spoilt>>

\* ACTION_CANCEL comes in place of ACTION_UP; the listener does not look for it.
UiCancels ==
  /\ ui = "idle" /\ ~exit /\ button
  /\ button' = FALSE /\ spoilt' = TRUE
  /\ UNCHANGED <<UiKeeps, exit, target, threads, ui>>

\* destroy, from onDestroy: it ends the threads wherever they are.
UiDestroys ==
  /\ ui = "idle" /\ ~exit
  /\ exit' = TRUE /\ ui' = "end start"
  /\ UNCHANGED <<UiKeeps, target, threads, button, spoilt>>

UiEndsStart ==
  /\ ui = "end start" /\ NotifyStart /\ ui' = "end stop"
  /\ UNCHANGED <<UiKeeps, exit, target, stopT, button, spoilt>>

\* A mutant: the stop thread is not told.
UiEndsStop_Untold ==
  /\ ui = "end stop" /\ StopMonitorFree /\ ui' = "gone"
  /\ UNCHANGED <<UiKeeps, exit, target, threads, button, spoilt>>

UiEndsStop ==
  /\ ui = "end stop" /\ NotifyStop /\ ui' = "gone"
  /\ UNCHANGED <<UiKeeps, exit, target, startT, button, spoilt>>

UiGoesOn == UiNotifiesStart \/ UiNotifiesStop \/ UiEndsStart \/ UiEndsStop

-----------------------------------------------------------------------------
Next ==
  \/ StartStep \/ StopStep
  \/ UiPresses \/ UiReleases \/ UiCancels \/ UiDestroys \/ UiGoesOn

Spec == Init /\ [][Next]_vars

\* The threads run, and DomeControl ends.  The buttons are the user's.
FairSpec == Spec /\ WF_vars(StartStep) /\ WF_vars(StopStep) /\ WF_vars(UiGoesOn)

-----------------------------------------------------------------------------
\* The types of the variables.
TypeOK ==
  /\ exit \in BOOLEAN /\ target \in Cameras
  /\ busy \in BOOLEAN /\ running \in BOOLEAN
  /\ startT \in {"top", "enter", "wait", "woken", "test", "send", "sent", "clear", "done"}
  /\ stopT \in {"top", "enter", "wait", "woken", "poll", "send", "reset", "done"}
  /\ ui \in {"idle", "start", "stop", "end start", "end stop", "gone"}
  /\ button \in BOOLEAN /\ spoilt \in BOOLEAN
  /\ turning \subseteq Cameras

StartUnderWay == startT \in {"woken", "test", "send", "sent", "clear"}
StopUnderWay  == stopT \in {"woken", "poll", "send"} \/ ui = "stop"

\* isCTLbussy is up exactly while a start is sent.
BusyIsSending == busy <=> startT \in {"send", "sent", "clear"}

LeftIsExit == exit <=> ui \in {"end start", "end stop", "gone"}

\* While no premise is broken, a press finds the stop thread in wait(), a start
\* belongs to a button that is held or whose stop has not passed the loop, and
\* the stop thread lowers isCTLRunning over a camera at rest.
InTurn ==
  ~spoilt /\ ~exit =>
    /\ ui = "start" => button
    /\ button => ui # "stop"
    /\ button \/ ui = "stop" => stopT = "wait"
    /\ startT \in {"woken", "test"} => button
    /\ StartUnderWay => button \/ ui = "stop" \/ stopT \in {"woken", "poll"}
    /\ stopT = "reset" => turning = {}

\* Unless a premise is broken, what turns is the camera the next stop names, the
\* stop thread knows or will know that it does, and a finger holds it or a stop
\* is under way.
TurningIsHeld ==
  ~spoilt /\ ~exit =>
    \A c \in turning :
      /\ c = target
      /\ running \/ startT = "sent"
      /\ button \/ StopUnderWay

\* The inductive invariant, with the types of the variables.
ControlInv == TypeOK /\ BusyIsSending /\ LeftIsExit /\ InTurn /\ TurningIsHeld

\* A camera whose button is let go comes to rest.
ReleaseStops == (~button /\ ~exit) ~> (turning = {} \/ button \/ exit \/ spoilt)

\* When the screen is left with both threads in wait(), they end and the camera
\* is stopped.
LeavingStops ==
  (ui = "end start" /\ startT = "wait" /\ stopT = "wait" /\ ~spoilt) ~>
    (startT = "done" /\ stopT = "done" /\ (turning = {} \/ spoilt))
=============================================================================
