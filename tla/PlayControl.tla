---------------------------- MODULE PlayControl ----------------------------
(***************************************************************************)
(* Opening and closing the cameras of the play screen                      *)
(* (src/src/com/topvs/player/PlayActivity.java, and StartPlay and StopPlay *)
(* of src/jni/interface.c):                                                *)
(*   ui   the main thread: buttons, messages and onDestroy;                *)
(*   ctl  m_playStartCtrlThread in createThreadPool, which walks through   *)
(*        the cameras and gives each that is not started an opener;        *)
(*   openers of the thread pool, one call of threadRunOpenVideo each.      *)
(* The monitor m_startPlayLock covers the walk and the buttons; the        *)
(* openers take it only to report a failure, and StartPlay and StopPlay    *)
(* take no lock at all.                                                    *)
(***************************************************************************)
EXTENDS Naturals

CONSTANTS
  N,         \* cameras on the screen
  Tries,     \* failures after which a camera is given up (2)
  MaxEvents  \* bound: failures to open and uses of the buttons

ASSUME PlayControlAssumption == N \in Nat \ {0} /\ Tries \in Nat \ {0} /\ MaxEvents \in Nat

Slots == 1 .. N

\* Openers are numbered as they are made; one walk makes N at the most, and each
\* walk but the first answers an event.  An opener's number also names the
\* VideoInstance_t it makes; 0 is NULL.
Openers == 1 .. N * (MaxEvents + 1)

VARIABLES
  exit,          \* isActivityExit
  ctl, index,    \* where ctl stands; its index
  ui, todo,      \* what ui does; the cameras it still has to look at
  started, retry,\* isStarted and retryCount of each camera
  op, slot,      \* where each opener stands; its viindex
  array,         \* g_videoInstArray
  holds,         \* the instance a thread's StopPlay has read from the array
  freed,         \* instances that were freed and are still held
  events         \* how much of MaxEvents is used up

cams == <<started, retry>>
mem  == <<array, holds, freed>>
vars == <<exit, ctl, index, ui, todo, cams, op, slot, mem, events>>

UI == 0
Threads == Openers \cup {UI}

Init ==
  /\ exit = FALSE /\ ctl = "top" /\ index = 1
  /\ ui = "idle" /\ todo = {}
  /\ started = [s \in Slots |-> FALSE] /\ retry = [s \in Slots |-> 0]
  /\ op = [o \in Openers |-> "unused"] /\ slot = [o \in Openers |-> 1]
  /\ array = [s \in Slots |-> 0] /\ holds = [t \in Threads |-> 0] /\ freed = {}
  /\ events = 0

Event == events < MaxEvents /\ events' = events + 1

\* The walk and the handlers of the buttons hold m_startPlayLock.
LockFree == ctl # "walk" /\ ui \notin {"refresh", "close"}

\* notify and notifyAll reach nobody unless ctl is in wait().
Notify == ctl' = IF ctl = "wait" THEN "woken" ELSE ctl

\* StopPlay reads the array; without an instance it returns at once.
StopsNothing(s) == array[s] = 0
StopReads(t, s) == array[s] # 0 /\ holds' = [holds EXCEPT ![t] = array[s]]

\* Seconds later it frees what it has read and clears the entry.
StopFrees(t, s) ==
  /\ holds[t] # 0
  /\ freed' = (freed \cup {holds[t]}) \cap { holds[u] : u \in Threads \ {t} }
  /\ array' = [array EXCEPT ![s] = 0] /\ holds' = [holds EXCEPT ![t] = 0]

-----------------------------------------------------------------------------
\* createThreadPool.

\* A mutant: "while (true)".
CtlTests_Never ==
  /\ ctl = "top" /\ ctl' = "enter"
  /\ UNCHANGED <<exit, index, ui, todo, cams, op, slot, mem, events>>

CtlTests ==
  /\ ctl = "top"
  /\ ctl' = IF exit THEN "done" ELSE "enter"
  /\ UNCHANGED <<exit, index, ui, todo, cams, op, slot, mem, events>>

CtlEnters ==
  /\ ctl = "enter" /\ LockFree
  /\ ctl' = "walk"
  /\ UNCHANGED <<exit, index, ui, todo, cams, op, slot, mem, events>>

NextOpener == { o \in Openers : op[o] = "unused" /\ \A p \in 1 .. o - 1 : op[p] # "unused" }

\* A camera that is not started gets an opener, whether it has one or not.
CtlOpens ==
  /\ ctl = "walk" /\ index \in Slots
  /\ retry[index] < Tries /\ ~started[index]
  /\ \E o \in NextOpener :
       op' = [op EXCEPT ![o] = "start"] /\ slot' = [slot EXCEPT ![o] = index]
  /\ index' = index + 1
  /\ UNCHANGED <<exit, ctl, ui, todo, cams, mem, events>>

CtlPasses ==
  /\ ctl = "walk" /\ index \in Slots
  /\ retry[index] >= Tries \/ started[index]
  /\ index' = index + 1
  /\ UNCHANGED <<exit, ctl, ui, todo, cams, op, slot, mem, events>>

CtlWaits ==
  /\ ctl = "walk" /\ index \notin Slots
  /\ ctl' = "wait"
  /\ UNCHANGED <<exit, index, ui, todo, cams, op, slot, mem, events>>

\* A mutant: the next walk goes on where the last one ended.
CtlResumes_AtEnd ==
  /\ ctl = "woken" /\ LockFree
  /\ ctl' = "top"
  /\ UNCHANGED <<exit, index, ui, todo, cams, op, slot, mem, events>>

CtlResumes ==
  /\ ctl = "woken" /\ LockFree
  /\ ctl' = "top" /\ index' = 1
  /\ UNCHANGED <<exit, ui, todo, cams, op, slot, mem, events>>

CtlStep == CtlTests \/ CtlEnters \/ CtlOpens \/ CtlPasses \/ CtlWaits \/ CtlResumes

-----------------------------------------------------------------------------
\* threadRunOpenVideo.

OpenerKeeps == <<exit, index, ui, todo, slot>>
Goes(o, place) == op' = [op EXCEPT ![o] = place]

\* StartPlay returns 0, as for a success, when the entry is taken, and else
\* stores a new instance there.  (Openers of one camera come 100 ms apart: the
\* test and the store are one step.)
OpenerFindsTaken(o) ==
  /\ op[o] = "start" /\ array[slot[o]] # 0
  /\ Goes(o, "opened")
  /\ UNCHANGED <<OpenerKeeps, ctl, cams, mem, events>>

OpenerCreates(o) ==
  /\ op[o] = "start" /\ array[slot[o]] = 0
  /\ array' = [array EXCEPT ![slot[o]] = o]
  /\ Goes(o, "route")
  /\ UNCHANGED <<OpenerKeeps, ctl, cams, holds, freed, events>>

\* QueryPuRealRoute, RealVideoPreviewStart and init_decoder.
OpenerOpens(o) ==
  /\ op[o] = "route"
  /\ \/ Goes(o, "opened") /\ UNCHANGED events
     \/ Goes(o, "failed") /\ Event
  /\ UNCHANGED <<OpenerKeeps, ctl, cams, mem>>

OpenerMarks(o) ==
  /\ op[o] = "opened"
  /\ started' = [started EXCEPT ![slot[o]] = TRUE]
  /\ Goes(o, "leave")
  /\ UNCHANGED <<OpenerKeeps, ctl, retry, mem, events>>

\* After a failure: StopPlay, and ctl is told.
OpenerCleans(o) ==
  /\ op[o] = "failed"
  /\ \/ StopsNothing(slot[o]) /\ Goes(o, "report") /\ UNCHANGED holds
     \/ StopReads(o, slot[o]) /\ Goes(o, "clean")
  /\ UNCHANGED <<OpenerKeeps, ctl, cams, array, freed, events>>

OpenerCleaned(o) ==
  /\ op[o] = "clean"
  /\ StopFrees(o, slot[o]) /\ Goes(o, "report")
  /\ UNCHANGED <<OpenerKeeps, ctl, cams, events>>

OpenerReports(o) ==
  /\ op[o] = "report" /\ LockFree
  /\ retry' = [retry EXCEPT ![slot[o]] = @ + 1]
  /\ Notify /\ Goes(o, "leave")
  /\ UNCHANGED <<OpenerKeeps, started, mem, events>>

\* A mutant: without the test that "fix2" has added.
OpenerLeaves_AnyExit(o) ==
  /\ op[o] = "leave"
  /\ Goes(o, "done")
  /\ UNCHANGED <<OpenerKeeps, ctl, cams, mem, events>>

\* "if (isActivityExit) StopPlay".
OpenerLeaves(o) ==
  /\ op[o] = "leave"
  /\ \/ exit /\ StopReads(o, slot[o]) /\ Goes(o, "undo")
     \/ (~exit \/ StopsNothing(slot[o])) /\ Goes(o, "done") /\ UNCHANGED holds
  /\ UNCHANGED <<OpenerKeeps, ctl, cams, array, freed, events>>

OpenerUndoes(o) ==
  /\ op[o] = "undo"
  /\ StopFrees(o, slot[o]) /\ Goes(o, "done")
  /\ UNCHANGED <<OpenerKeeps, ctl, cams, events>>

OpenerStep(o) ==
  \/ OpenerFindsTaken(o) \/ OpenerCreates(o) \/ OpenerOpens(o)
  \/ OpenerMarks(o) \/ OpenerCleans(o) \/ OpenerCleaned(o) \/ OpenerReports(o)
  \/ OpenerLeaves(o) \/ OpenerUndoes(o)

-----------------------------------------------------------------------------
\* The main thread.

UiKeeps == <<index, op, slot>>

\* MSG_REFRESH stops every camera; MSG_ONESFV all but one and the buttons for
\* fewer pictures all beyond their number; MSG_ALLSFV and the buttons for more
\* only wake ctl.
UiRefreshes ==
  /\ ui = "idle" /\ LockFree /\ Event
  /\ ui' = "refresh" /\ todo' = Slots
  /\ UNCHANGED <<UiKeeps, exit, ctl, cams, mem>>

UiShowsFewer ==
  /\ ui = "idle" /\ LockFree /\ Event
  /\ ui' = "close"
  /\ todo' \in { Slots \ {s} : s \in Slots } \cup { s + 1 .. N : s \in Slots }
  /\ UNCHANGED <<UiKeeps, exit, ctl, cams, mem>>

UiShowsAll ==
  /\ ui = "idle" /\ LockFree /\ Event
  /\ Notify
  /\ UNCHANGED <<UiKeeps, exit, ui, todo, cams, mem>>

\* onDestroy.
UiExits ==
  /\ ui = "idle"
  /\ exit' = TRUE /\ ui' = "notify"
  /\ UNCHANGED <<UiKeeps, ctl, todo, cams, mem, events>>

UiNotifiesAll ==
  /\ ui = "notify" /\ LockFree
  /\ Notify /\ ui' = "join"
  /\ UNCHANGED <<UiKeeps, exit, todo, cams, mem, events>>

UiJoins ==
  /\ ui = "join" /\ ctl = "done"
  /\ ui' = "cleanup" /\ todo' = Slots
  /\ UNCHANGED <<UiKeeps, exit, ctl, cams, mem, events>>

\* The three loops, in the order of the cameras.
Stopping == ui \in {"refresh", "close", "cleanup"} /\ holds[UI] = 0
First(S) == { s \in S : \A t \in S : s <= t }

UiPasses ==
  /\ Stopping
  /\ \E s \in First(todo) : ~started[s] /\ todo' = todo \ {s}
  /\ UNCHANGED <<UiKeeps, exit, ctl, ui, cams, mem, events>>

\* Afterwards the camera counts as not started; only a refresh forgets failures.
Unmark(s) ==
  /\ started' = [started EXCEPT ![s] = FALSE]
  /\ retry' = IF ui = "refresh" THEN [retry EXCEPT ![s] = 0] ELSE retry
  /\ todo' = todo \ {s}

UiStops ==
  /\ Stopping
  /\ \E s \in First(todo) :
       /\ started[s]
       /\ \/ StopsNothing(s) /\ Unmark(s) /\ UNCHANGED holds
          \/ StopReads(UI, s) /\ UNCHANGED <<cams, todo>>
  /\ UNCHANGED <<UiKeeps, exit, ctl, ui, array, freed, events>>

UiStopped ==
  /\ \E s \in First(todo) : StopFrees(UI, s) /\ Unmark(s)
  /\ UNCHANGED <<UiKeeps, exit, ctl, ui, events>>

UiReturns ==
  /\ Stopping /\ todo = {}
  /\ ui' = IF ui = "cleanup" THEN "destroyed" ELSE "idle"
  /\ IF ui = "refresh" THEN Notify ELSE UNCHANGED ctl
  /\ UNCHANGED <<UiKeeps, exit, todo, cams, mem, events>>

UiGoesOn == UiNotifiesAll \/ UiJoins \/ UiPasses \/ UiStops \/ UiStopped \/ UiReturns

-----------------------------------------------------------------------------
OpenersStep == \E o \in Openers : OpenerStep(o)

Next ==
  \/ CtlStep \/ UiRefreshes \/ UiShowsFewer \/ UiShowsAll \/ UiExits \/ UiGoesOn
  \/ OpenersStep

Spec == Init /\ [][Next]_vars

\* The threads run, and no opener runs for ever; the buttons are the user's, who
\* cannot keep the monitor from the others by pressing them without end.
FairSpec ==
  Spec /\ WF_vars(CtlStep) /\ WF_vars(UiGoesOn) /\ WF_vars(OpenersStep)

-----------------------------------------------------------------------------
\* The types of the variables.
TypeOK ==
  /\ exit \in BOOLEAN
  /\ ctl \in {"top", "enter", "walk", "wait", "woken", "done"} /\ index \in 1 .. N + 1
  /\ ui \in {"idle", "refresh", "close", "notify", "join", "cleanup", "destroyed"}
  /\ todo \subseteq Slots
  /\ started \in [Slots -> BOOLEAN] /\ retry \in [Slots -> Nat]
  /\ op \in [Openers -> {"unused", "start", "route", "opened", "failed",
                         "clean", "report", "leave", "undo", "done"}]
  /\ slot \in [Openers -> Slots]
  /\ array \in [Slots -> Openers \cup {0}] /\ holds \in [Threads -> Openers \cup {0}]
  /\ freed \subseteq Openers /\ events \in 0 .. MaxEvents

OpenersDone == \A o \in Openers : op[o] \in {"unused", "done"}

\* A camera that is open counts as started, or an opener of it is at a place
\* from which it will mark it so or close it ...
OpenIsKnown ==
  \A s \in Slots : array[s] # 0 =>
    started[s] \/ \E o \in Openers :
      slot[o] = s /\ op[o] \in {"route", "opened", "failed", "clean", "undo"}

\* ... and once onDestroy has been through with it, only an opener that has still
\* to look at isActivityExit is left.
Swept(s) == (ui = "cleanup" /\ s \notin todo) \/ ui = "destroyed"

OpenIsUndone ==
  \A s \in Slots : Swept(s) /\ array[s] # 0 =>
    \E o \in Openers :
      slot[o] = s /\ op[o] \in {"route", "opened", "failed", "clean", "undo", "leave"}

Leaving == ui \in {"notify", "join", "cleanup", "destroyed"} => exit

\* The inductive invariant.
OpenInv == OpenIsKnown /\ OpenIsUndone /\ Leaving

\* What holds in every state of the screen.
ScreenInv == TypeOK /\ OpenInv

\* When onDestroy is through and the last opener has left, no camera is open any
\* more: an opener that ends late stops its own ("fix2" of createThreadPool).
NothingLeftOpen == ui = "destroyed" /\ OpenersDone => \A s \in Slots : array[s] = 0

\* A camera whose opening has failed gets a new opener, unless the user leaves or
\* it is given up.  Excepted is a failure beside another opener of the camera,
\* which may have got 0 for the entry of the one that fails and mark the camera as
\* started, or lose its own instance to that one's StopPlay.
Alone(o) ==
  /\ ~started[slot[o]]
  /\ \A p \in Openers \ {o} : slot[p] = slot[o] => op[p] \in {"unused", "done"}

FailureIsRetried ==
  \A o \in Openers :
    (op[o] = "report" /\ Alone(o)) ~>
      \/ exit \/ retry[slot[o]] >= Tries
      \/ \E p \in Openers : slot[p] = slot[o] /\ op[p] = "start"

\* onDestroy returns if ctl was not just before the monitor, where it has seen
\* isActivityExit down already and will not hear notifyAll.
ExitReturns == (ui = "notify" /\ ctl # "enter") ~> (ui = "destroyed")

\* "... then do the stop afterwards" (fix2, PlayActivity.java:408): what a
\* StopPlay works on no other StopPlay has freed.
StoppedOnce == \A t \in Threads : holds[t] # 0 => holds[t] \notin freed
=============================================================================
