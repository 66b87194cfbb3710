------------------------------ MODULE Surfaces ------------------------------
(***************************************************************************)
(* The picture of one camera of the play screen                            *)
(* (src/src/com/topvs/player/PlaySFHCallBack.java and PlayActivity.java;   *)
(* GetVideoFrame, StartPlay and StopPlay of src/jni/interface.c):          *)
(*   decode threads, one for each time the surface is created: StartDecode *)
(*           _Video asks GetVideoFrame for a picture and draws it;         *)
(*   ui      the main thread: the surface comes and goes, the refresh      *)
(*           button stops the camera, the photo button takes mBitmap;      *)
(*   openers of the thread pool (threadRunOpenVideo), and of ctl, which    *)
(*           PlayControl has in full, whether it has been notified.        *)
(* isStoped and isExit of the callback are volatile and without a lock.    *)
(* dataList_mutex covers a decoding and the freeing of the lists; it lies  *)
(* in the instance that StopPlay frees afterwards.                         *)
(***************************************************************************)
EXTENDS Naturals

CONSTANTS
  Pool,      \* threads of the pool that may open the camera
  Tries,     \* failures after which it is given up (2)
  Lives,     \* bound: how often the surface is created
  MaxEvents  \* bound: buttons, failures to open and pictures that fail

ASSUME SurfacesAssumption ==
  Pool \in Nat \ {0} /\ Tries \in Nat \ {0} /\ Lives \in Nat \ {0} /\ MaxEvents \in Nat

\* All threads have numbers.
UI       == 0
Threads  == 1 .. Lives                    \* of StartDecode_Video
Openers  == Lives + 1 .. Lives + Pool
Stoppers == Openers \cup {UI}
NoOne    == Lives + Pool + 1

VARIABLES
  life, shown,    \* surfaces so far; the last of them exists
  dec,            \* where each decode thread stands
  isStoped, isExit,
  mBitmap,        \* "null", "empty" (just made) or "full" (a picture is in it)
  rated,          \* i_frameRate > 0
  isStarted, retry, \* of the camera (StartVideoIndex)
  told,           \* ctl has been notified and will walk through the cameras
  op,             \* where each opener stands
  ui,             \* what the main thread does
  inst,           \* g_videoInstArray: "none", "made", "live" (the decoder is ready)
  frames,         \* a frame is in the list of the instance
  owner,          \* who has dataList_mutex
  stop,           \* where each thread stands in StopPlay
  spoilt,         \* auxiliary: an instance was freed while somebody had its address
  events          \* how much of MaxEvents is used up

callback == <<isStoped, isExit, mBitmap, rated>>
camera   == <<isStarted, retry, told>>
native   == <<inst, frames, owner, stop, spoilt>>
vars == <<life, shown, dec, callback, camera, op, ui, native, events>>

Init ==
  /\ life = 0 /\ shown = FALSE
  /\ dec = [t \in Threads |-> "none"]
  /\ isStoped = FALSE /\ isExit = FALSE /\ mBitmap = "null" /\ rated = FALSE
  /\ isStarted = FALSE /\ retry = 0 /\ told = TRUE
  /\ op = [o \in Openers |-> "none"] /\ ui = "idle"
  /\ inst = "none" /\ frames = FALSE /\ owner = NoOne
  /\ stop = [s \in Stoppers |-> "no"] /\ spoilt = FALSE
  /\ events = 0

Event == events < MaxEvents /\ events' = events + 1

-----------------------------------------------------------------------------
\* StartDecode_Video and GetVideoFrame.

DecKeeps == <<life, shown, isStoped, isExit, camera, op, ui, inst, stop, spoilt>>
Goes(t, place) == dec' = [dec EXCEPT ![t] = place]

\* surfaceDestroyed has interrupted the thread: its next sleep, which comes
\* after every call without a picture, throws and ends it.
Interrupted(t) == ~(shown /\ life = t)
AfterSleep(t) == IF Interrupted(t) THEN "done" ELSE "test"

\* The thread sleeps while the callback is stopped, and may sleep after a
\* picture, which an interrupt ends; a sleep that is over changes nothing.
DecTests(t) ==
  /\ dec[t] = "test"
  /\ \/ (isExit \/ ~isStoped) /\ Goes(t, IF isExit THEN "done" ELSE "begin")
     \/ Interrupted(t) /\ Goes(t, "done")
  /\ UNCHANGED <<DecKeeps, mBitmap, rated, frames, owner, events>>

\* A mutant: i_frameRate keeps what the picture before has left there.
DecBegins_Rated(t) ==
  /\ dec[t] = "begin"
  /\ Goes(t, "make")
  /\ UNCHANGED <<DecKeeps, mBitmap, rated, frames, owner, events>>

DecBegins(t) ==
  /\ dec[t] = "begin"
  /\ rated' = FALSE /\ Goes(t, "make")
  /\ UNCHANGED <<DecKeeps, mBitmap, frames, owner, events>>

DecMakes(t) ==
  /\ dec[t] = "make"
  /\ mBitmap' = "empty" /\ Goes(t, "read")
  /\ UNCHANGED <<DecKeeps, rated, frames, owner, events>>

\* GetVideoFrame reads the array; what it finds it keeps.
DecReads(t) ==
  /\ dec[t] = "read"
  /\ Goes(t, IF inst = "none" THEN AfterSleep(t) ELSE "lock")
  /\ UNCHANGED <<DecKeeps, mBitmap, rated, frames, owner, events>>

\* An empty list ends the call at once.
DecLocks(t) ==
  /\ dec[t] = "lock" /\ owner = NoOne
  /\ IF frames THEN owner' = t /\ Goes(t, "decode")
               ELSE UNCHANGED owner /\ Goes(t, AfterSleep(t))
  /\ UNCHANGED <<DecKeeps, mBitmap, rated, frames, events>>

\* The frame is decoded into the bitmap and leaves the list.  A frame that does
\* not decode, or a bitmap that is gone, leaves it as well (label error).
DecDecodes(t) ==
  /\ dec[t] = "decode"
  /\ frames' = FALSE /\ owner' = NoOne
  /\ \/ mBitmap # "null" /\ mBitmap' = "full" /\ Goes(t, "return") /\ UNCHANGED events
     \/ mBitmap = "null" /\ Goes(t, AfterSleep(t)) /\ UNCHANGED <<mBitmap, events>>
     \/ Goes(t, AfterSleep(t)) /\ Event /\ UNCHANGED mBitmap
  /\ UNCHANGED <<DecKeeps, rated>>

DecReturns(t) ==
  /\ dec[t] = "return"
  /\ rated' = TRUE /\ Goes(t, "draw")
  /\ UNCHANGED <<DecKeeps, mBitmap, frames, owner, events>>

\* Without its surface or the bitmap the drawing throws, which ends the thread.
DecDraws(t) ==
  /\ dec[t] = "draw"
  /\ Goes(t, IF shown /\ mBitmap # "null" THEN "test" ELSE "done")
  /\ UNCHANGED <<DecKeeps, mBitmap, rated, frames, owner, events>>

DecStep(t) ==
  \/ DecTests(t) \/ DecBegins(t) \/ DecMakes(t) \/ DecReads(t)
  \/ DecLocks(t) \/ DecDecodes(t) \/ DecReturns(t) \/ DecDraws(t)

-----------------------------------------------------------------------------
\* StopPlay, called by the main thread and by an opener that has failed.

StopKeeps == <<life, shown, dec, callback, events>>

HasAddress(s) ==
  \/ \E t \in Threads : dec[t] \in {"lock", "decode"}
  \/ \E o \in Openers : op[o] = "route"
  \/ \E u \in Stoppers \ {s} : stop[u] # "no"

\* RealVideoPreviewStop has ended the receive thread; the lists are freed under
\* the lock and playinst is cleared.
StopLocks(s) ==
  /\ stop[s] = "ends" /\ owner = NoOne
  /\ owner' = s /\ stop' = [stop EXCEPT ![s] = "frees"] /\ frames' = FALSE
  /\ UNCHANGED <<StopKeeps, camera, op, ui, inst, spoilt>>

\* The lock is given up, and with the instance it is freed.  release_decoder and
\* the freeing of g_frameBufferOut follow once the entry is cleared; nobody's
\* StartPlay comes between (an abstraction).
StopFrees(s) ==
  /\ stop[s] = "frees"
  /\ owner' = NoOne /\ inst' = "none" /\ stop' = [stop EXCEPT ![s] = "no"]
  /\ spoilt' = HasAddress(s)
  /\ UNCHANGED <<StopKeeps, camera, op, ui, frames>>

StopStep(s) == StopLocks(s) \/ StopFrees(s)

\* The call: without an instance StopPlay returns at once.
StopsPlay(s) == stop' = IF inst = "none" THEN stop ELSE [stop EXCEPT ![s] = "ends"]

-----------------------------------------------------------------------------
\* The walk of ctl, which needs the monitor that a refresh has too, and
\* threadRunOpenVideo.

OpKeeps == <<life, shown, dec, isExit, mBitmap, rated, ui, owner, spoilt>>
OpGoes(o, place) == op' = [op EXCEPT ![o] = place]
MonitorFree == ui \notin {"refresh", "stopping"}

CtlWalks ==
  /\ told /\ MonitorFree /\ told' = FALSE
  /\ IF ~isStarted /\ retry < Tries
       THEN \E o \in Openers : op[o] = "none" /\ OpGoes(o, "start")
       ELSE UNCHANGED op
  /\ UNCHANGED <<OpKeeps, isStoped, isStarted, retry, inst, frames, stop, events>>

\* StartPlay makes an instance, or returns 0 at once when there is one.
OpMakes(o) ==
  /\ op[o] = "start"
  /\ IF inst = "none" THEN inst' = "made" /\ frames' = FALSE /\ OpGoes(o, "route")
                      ELSE UNCHANGED <<inst, frames>> /\ OpGoes(o, "opened")
  /\ UNCHANGED <<OpKeeps, isStoped, camera, stop, events>>

\* The route, the session and init_decoder.
OpOpens(o) ==
  /\ op[o] = "route"
  /\ \/ inst' = "live" /\ OpGoes(o, "opened") /\ UNCHANGED events
     \/ OpGoes(o, "failed") /\ Event /\ UNCHANGED inst
  /\ UNCHANGED <<OpKeeps, isStoped, camera, frames, stop>>

OpMarks(o) ==
  /\ op[o] = "opened"
  /\ isStarted' = TRUE /\ OpGoes(o, "marked")
  /\ UNCHANGED <<OpKeeps, isStoped, retry, told, inst, frames, stop, events>>

\* A mutant: isStoped is left as it is.
OpShows_Not(o) ==
  /\ op[o] = "marked"
  /\ OpGoes(o, "none")
  /\ UNCHANGED <<OpKeeps, isStoped, camera, inst, frames, stop, events>>

OpShows(o) ==
  /\ op[o] = "marked"
  /\ isStoped' = FALSE /\ OpGoes(o, "none")
  /\ UNCHANGED <<OpKeeps, camera, inst, frames, stop, events>>

\* A mutant: the picture is switched on before the camera is marked.
OpSucceeds_ShownFirst(o) ==
  \/ /\ op[o] = "opened"
     /\ isStoped' = FALSE /\ OpGoes(o, "marked")
     /\ UNCHANGED <<OpKeeps, camera, inst, frames, stop, events>>
  \/ /\ op[o] = "marked"
     /\ isStarted' = TRUE /\ OpGoes(o, "none")
     /\ UNCHANGED <<OpKeeps, isStoped, retry, told, inst, frames, stop, events>>

OpSucceeds(o) == OpMarks(o) \/ OpShows(o)

\* After a failure the camera is cleaned up, and the failure counted.
OpCleans(o) ==
  /\ op[o] = "failed"
  /\ StopsPlay(o) /\ OpGoes(o, "report")
  /\ UNCHANGED <<OpKeeps, isStoped, camera, inst, frames, events>>

OpReports(o) ==
  /\ op[o] = "report" /\ stop[o] = "no" /\ MonitorFree
  /\ retry' = retry + 1 /\ told' = TRUE /\ OpGoes(o, "none")
  /\ UNCHANGED <<OpKeeps, isStoped, isStarted, inst, frames, stop, events>>

OpStep(o) == OpMakes(o) \/ OpOpens(o) \/ OpSucceeds(o) \/ OpCleans(o) \/ OpReports(o)

\* The receive thread.
Receives ==
  /\ inst = "live" /\ owner \notin Stoppers
  /\ frames' = TRUE
  /\ UNCHANGED <<life, shown, dec, callback, camera, op, ui, inst, owner, stop, spoilt, events>>

-----------------------------------------------------------------------------
\* The main thread.

UiKeeps == <<op, inst, frames, owner, spoilt>>

\* A mutant: a surface that comes back takes the exit mark away.
UiCreates_Anew ==
  /\ ui = "idle" /\ ~shown /\ life < Lives
  /\ shown' = TRUE /\ life' = life + 1 /\ dec' = [dec EXCEPT ![life + 1] = "test"]
  /\ isExit' = FALSE
  /\ UNCHANGED <<UiKeeps, isStoped, mBitmap, rated, camera, ui, stop, events>>

\* surfaceCreated: each time a new thread.
UiCreates ==
  /\ ui = "idle" /\ ~shown /\ life < Lives
  /\ shown' = TRUE /\ life' = life + 1 /\ dec' = [dec EXCEPT ![life + 1] = "test"]
  /\ UNCHANGED <<UiKeeps, callback, camera, ui, stop, events>>

\* A mutant: the thread is interrupted and not told to leave; with pictures that
\* come too slowly to sleep after them it goes on, on the next surface.
UiDestroys_Untold ==
  /\ ui = "idle" /\ shown
  /\ shown' = FALSE /\ isStoped' = FALSE /\ mBitmap' = "null"
  /\ UNCHANGED <<UiKeeps, life, dec, isExit, rated, camera, ui, stop, events>>

\* surfaceDestroyed does not wait for the thread.
UiDestroys ==
  /\ ui = "idle" /\ shown
  /\ shown' = FALSE /\ isExit' = TRUE /\ isStoped' = FALSE /\ mBitmap' = "null"
  /\ UNCHANGED <<UiKeeps, life, dec, rated, camera, ui, stop, events>>

\* takePhoto: 20 ms are enough for a thread that has just seen isStoped down to
\* set i_frameRate back.
UiStopsForPhoto ==
  /\ ui = "idle" /\ life > 0 /\ Event
  /\ isStoped' = TRUE /\ ui' = "photo"
  /\ UNCHANGED <<UiKeeps, life, shown, dec, isExit, mBitmap, rated, camera, stop>>

UiLooks ==
  /\ ui = "photo" /\ \A t \in Threads : dec[t] # "begin"
  /\ IF mBitmap # "null" /\ rated THEN ui' = "shoot" /\ UNCHANGED isStoped
                                  ELSE ui' = "idle" /\ isStoped' = FALSE
  /\ UNCHANGED <<UiKeeps, life, shown, dec, isExit, mBitmap, rated, camera, stop, events>>

\* mBitmap is read again and written to the file.
UiShoots ==
  /\ ui = "shoot"
  /\ isStoped' = FALSE /\ ui' = "idle"
  /\ UNCHANGED <<UiKeeps, life, shown, dec, isExit, mBitmap, rated, camera, stop, events>>

\* MSG_REFRESH.
UiRefreshes ==
  /\ ui = "idle" /\ life > 0 /\ Event
  /\ isStoped' = TRUE /\ ui' = "refresh"
  /\ UNCHANGED <<UiKeeps, life, shown, dec, isExit, mBitmap, rated, camera, stop>>

UiStopsPlay ==
  /\ ui = "refresh"
  /\ IF isStarted THEN StopsPlay(UI) /\ ui' = "stopping" /\ UNCHANGED told
                  ELSE UNCHANGED stop /\ ui' = "idle" /\ told' = TRUE
  /\ UNCHANGED <<UiKeeps, life, shown, dec, callback, isStarted, retry, events>>

UiRefreshed ==
  /\ ui = "stopping" /\ stop[UI] = "no"
  /\ isStarted' = FALSE /\ retry' = 0 /\ told' = TRUE /\ ui' = "idle"
  /\ UNCHANGED <<UiKeeps, life, shown, dec, callback, stop, events>>

UiStep == UiLooks \/ UiShoots \/ UiStopsPlay \/ UiRefreshed

-----------------------------------------------------------------------------
\* After an instance has been freed under somebody nothing is promised.
Next ==
  /\ ~spoilt
  /\ \/ \E t \in Threads : DecStep(t)
     \/ \E s \in Stoppers : StopStep(s)
     \/ CtlWalks
     \/ \E o \in Openers : OpStep(o)
     \/ Receives
     \/ UiCreates \/ UiDestroys \/ UiStopsForPhoto \/ UiRefreshes \/ UiStep

Spec == Init /\ [][Next]_vars

\* Threads go on with what they have begun, and the camera sends.
Fairness ==
  /\ \A t \in Threads : WF_vars(~spoilt /\ DecStep(t))
  /\ \A s \in Stoppers : WF_vars(~spoilt /\ StopStep(s))
  /\ \A o \in Openers : WF_vars(~spoilt /\ OpStep(o))
  /\ WF_vars(~spoilt /\ UiStep) /\ WF_vars(~spoilt /\ Receives)

FairSpec == Spec /\ Fairness

-----------------------------------------------------------------------------
DecPlaces == {"none", "test", "begin", "make", "read", "lock", "decode", "return", "draw", "done"}

TypeOK ==
  /\ life \in 0 .. Lives /\ shown \in BOOLEAN
  /\ dec \in [Threads -> DecPlaces]
  /\ isStoped \in BOOLEAN /\ isExit \in BOOLEAN
  /\ mBitmap \in {"null", "empty", "full"} /\ rated \in BOOLEAN
  /\ isStarted \in BOOLEAN /\ retry \in Nat /\ told \in BOOLEAN
  /\ op \in [Openers -> {"none", "start", "route", "opened", "marked", "failed", "report"}]
  /\ ui \in {"idle", "photo", "shoot", "refresh", "stopping"}
  /\ inst \in {"none", "made", "live"} /\ frames \in BOOLEAN
  /\ owner \in Threads \cup Stoppers \cup {NoOne}
  /\ stop \in [Stoppers -> {"no", "ends", "frees"}]
  /\ spoilt \in BOOLEAN /\ events \in 0 .. MaxEvents

\* A callback has one thread at work, however often its surface comes back: a
\* second one would put its own bitmap under the first one's picture.
OneDecodes ==
  /\ life < 2 \/ isExit
  /\ life = 0 \/ shown \/ isExit
  /\ \A t \in Threads : t > 1 => dec[t] \in {"none", "test", "done"}
  /\ \A t \in Threads : t > life => dec[t] = "none"

\* A frame is decoded by the owner of the lock, so StopPlay does not free the
\* list meanwhile.
ListIsHeld ==
  /\ \A t \in Threads : dec[t] = "decode" <=> owner = t
  /\ \A s \in Stoppers : stop[s] = "frees" <=> owner = s

\* A StopPlay is under way only where it has been called.
StopIsCalled ==
  /\ \A o \in Openers : stop[o] # "no" => op[o] = "report"
  /\ stop[UI] # "no" => ui = "stopping"

\* A frame rate stands for a picture that is in the bitmap.
RateIsPicture ==
  /\ rated => mBitmap # "empty"
  /\ \A t \in Threads :
       /\ dec[t] \in {"make", "read", "lock", "decode", "return"} => ~rated
       /\ dec[t] = "return" => mBitmap # "empty"

\* takePhoto writes a picture, not a bitmap that a decode thread has just made,
\* unless an opener has lowered isStoped meanwhile.
PhotoIsWhole == ui = "shoot" /\ isStoped => mBitmap = "full"

PhotoStops ==
  ui = "shoot" /\ isStoped => \A t \in Threads : dec[t] \in {"none", "test", "return", "draw", "done"}

\* Whoever marks a camera as started, and whatever a refresh does at that
\* moment, its picture does not stay switched off.
NotStuck ==
  isStarted /\ isStoped =>
    \/ ui # "idle"
    \/ \E o \in Openers : op[o] = "marked"

\* All of it: types, one thread at work, lists freed under the lock, what a frame
\* rate means, and threads that rest while a photo is taken.
SurfacesInv == TypeOK /\ OneDecodes /\ ListIsHeld /\ StopIsCalled /\ RateIsPicture /\ PhotoStops

\* A decode thread ends after its surface has gone.
ThreadsEnd == \A t \in Threads : dec[t] # "none" /\ ~(shown /\ life = t) ~> dec[t] = "done" \/ spoilt

\* A camera that is open on its first surface and left alone shows pictures.
Calm ==
  /\ ~spoilt /\ shown /\ life = 1 /\ isStarted /\ inst = "live" /\ ui = "idle"
  /\ \A o \in Openers : op[o] = "none"
PictureComes == <>[]Calm => []<>(dec[1] = "draw")
=============================================================================
