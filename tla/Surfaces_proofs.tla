--------------------------- MODULE Surfaces_proofs ---------------------------
(***************************************************************************)
(* What Surfaces keeps, for any number of openers and of lives of the      *)
(* surface: the invariant, that a photo is of a picture, and that a        *)
(* started camera's picture does not stay off.                             *)
(***************************************************************************)
EXTENDS Surfaces, TLAPS

\* Threads, stoppers and "no one" have different numbers.
LEMMA Apart ==
  /\ \A t \in Threads : t \notin Stoppers /\ t # NoOne /\ t \in Nat
  /\ \A s \in Stoppers : s \notin Threads /\ s # NoOne
  /\ UI \in Stoppers /\ Openers \subseteq Stoppers
  BY SurfacesAssumption DEF Threads, Stoppers, Openers, UI, NoOne

\* At the start no decode thread is alive and no picture is due.
LEMMA InitInv == Init => SurfacesInv /\ PhotoIsWhole /\ NotStuck
  <1> SUFFICES ASSUME Init PROVE SurfacesInv /\ PhotoIsWhole /\ NotStuck
    OBVIOUS
  <1>1. TypeOK
    <2>1. life \in 0 .. Lives /\ retry \in Nat /\ events \in 0 .. MaxEvents
      BY SurfacesAssumption DEF Init
    <2>2. dec \in [Threads -> DecPlaces] /\ stop \in [Stoppers -> {"no", "ends", "frees"}]
          /\ op \in [Openers -> {"none", "start", "route", "opened", "marked", "failed", "report"}]
      BY DEF Init, DecPlaces
    <2>3. owner \in Threads \cup Stoppers \cup {NoOne}
      BY DEF Init
    <2> QED
      BY <2>1, <2>2, <2>3 DEF Init, TypeOK
  <1>2. OneDecodes /\ RateIsPicture
    BY SurfacesAssumption DEF Init, OneDecodes, RateIsPicture
  <1>3. ListIsHeld /\ StopIsCalled
    BY Apart DEF Init, ListIsHeld, StopIsCalled
  <1>4. PhotoStops /\ PhotoIsWhole /\ NotStuck
    BY DEF Init, PhotoStops, PhotoIsWhole, NotStuck
  <1> QED
    BY <1>1, <1>2, <1>3, <1>4 DEF SurfacesInv

\* A thread that has slept goes round again or has ended.
LEMMA AfterSleepEnds == \A t \in Threads : AfterSleep(t) \in {"test", "done"}
  BY DEF AfterSleep

\* What a decode thread may do to the invariant.
LEMMA DecKeepsInv ==
  ASSUME SurfacesInv, PhotoIsWhole, NotStuck, NEW t \in Threads, DecStep(t)
  PROVE  SurfacesInv' /\ PhotoIsWhole' /\ NotStuck'
  <1> USE DEF SurfacesInv
  <1> USE DEF DecStep, DecTests, DecBegins, DecMakes, DecReads, DecLocks, DecDecodes,
             DecReturns, DecDraws, Goes
  <1>0. UNCHANGED <<life, shown, isStoped, isExit, isStarted, retry, told, op, ui, inst, stop, spoilt>>
    BY DEF DecKeeps, camera
  <1> USE AfterSleepEnds
  <1>1. TypeOK'
    <2>1. dec' \in [Threads -> DecPlaces]
      BY DEF TypeOK, DecPlaces
    <2>2. mBitmap' \in {"null", "empty", "full"} /\ rated' \in BOOLEAN /\ frames' \in BOOLEAN
      BY DEF TypeOK
    <2>3. owner' \in Threads \cup Stoppers \cup {NoOne}
      BY DEF TypeOK
    <2>4. events' \in 0 .. MaxEvents
      BY SurfacesAssumption DEF TypeOK, Event
    <2> QED
      BY <1>0, <2>1, <2>2, <2>3, <2>4 DEF TypeOK
  <1>2. t = 1 \/ (isExit /\ dec[t] = "test" /\ dec' = [dec EXCEPT ![t] = "done"]
                  /\ UNCHANGED <<mBitmap, rated, frames, owner>>)
    <2>1. SUFFICES ASSUME t # 1
                   PROVE  isExit /\ dec[t] = "test" /\ dec' = [dec EXCEPT ![t] = "done"]
                          /\ UNCHANGED <<mBitmap, rated, frames, owner>>
      OBVIOUS
    <2>2. t \in Nat /\ t > 1
      BY <2>1 DEF Threads
    <2>3. dec[t] = "test"
      BY <2>2 DEF OneDecodes
    <2>4. isExit
      BY <2>2, <2>3, SurfacesAssumption DEF OneDecodes, TypeOK
    <2> QED
      BY <2>3, <2>4
  <1>4. dec' = [dec EXCEPT ![t] = dec'[t]] /\ dec[t] \notin {"none", "done"} /\ dec'[t] # "none"
    BY DEF TypeOK
  <1>5. OneDecodes'
    <2>1. \A u \in Threads : u > 1 => dec'[u] \in {"none", "test", "done"}
      BY <1>2, <1>4 DEF OneDecodes, TypeOK
    <2>2. \A u \in Threads : u > life => dec'[u] = "none"
      BY <1>4 DEF OneDecodes, TypeOK
    <2> QED
      BY <1>0, <2>1, <2>2 DEF OneDecodes
  <1>6. ListIsHeld' /\ StopIsCalled'
    BY Apart, <1>0 DEF ListIsHeld, StopIsCalled, TypeOK
  <1>7. \A u \in Threads \ {t} : t = 1 => dec[u] \in {"none", "test", "done"}
    BY DEF OneDecodes, Threads
  <1>8. RateIsPicture'
    <2>1. CASE t # 1
      BY <2>1, <1>2 DEF RateIsPicture, TypeOK
    <2>2. CASE t = 1
      BY <2>2, <1>7 DEF RateIsPicture, TypeOK
    <2> QED BY <2>1, <2>2
  <1>9. PhotoStops' /\ PhotoIsWhole'
    <2> SUFFICES ASSUME ui = "shoot", isStoped
                 PROVE  /\ mBitmap' = "full"
                        /\ \A u \in Threads : dec'[u] \in {"none", "test", "return", "draw", "done"}
      BY <1>0 DEF PhotoStops, PhotoIsWhole
    <2>1. \A u \in Threads : dec[u] \in {"none", "test", "return", "draw", "done"}
      BY DEF PhotoStops
    <2> QED
      BY <2>1 DEF PhotoIsWhole, TypeOK
  <1>10. NotStuck'
    BY <1>0 DEF NotStuck
  <1> QED
    BY <1>1, <1>5, <1>6, <1>8, <1>9, <1>10

\* The steps of those who stop and free a surface keep all three.
LEMMA StopKeepsInv ==
  ASSUME SurfacesInv, PhotoIsWhole, NotStuck, NEW s \in Stoppers, StopStep(s)
  PROVE  SurfacesInv' /\ PhotoIsWhole' /\ NotStuck'
  <1> USE DEF SurfacesInv, StopStep, StopLocks, StopFrees, StopKeeps, callback, camera
  <1>1. TypeOK'
    <2>1. spoilt' \in BOOLEAN
      BY DEF TypeOK, HasAddress
    <2>2. owner' \in Threads \cup Stoppers \cup {NoOne} /\ stop' \in [Stoppers -> {"no", "ends", "frees"}]
      BY DEF TypeOK
    <2>3. UNCHANGED <<life, shown, dec, isStoped, isExit, mBitmap, rated, isStarted, retry, told, op, ui, events>>
      OBVIOUS
    <2>4. inst' \in {"none", "made", "live"} /\ frames' \in BOOLEAN
      BY DEF TypeOK
    <2> HIDE DEF StopStep, StopLocks, StopFrees
    <2> QED BY <2>1, <2>2, <2>3, <2>4 DEF TypeOK
  <1>2. OneDecodes' /\ RateIsPicture' /\ PhotoStops' /\ PhotoIsWhole' /\ NotStuck'
    BY DEF OneDecodes, RateIsPicture, PhotoStops, PhotoIsWhole, NotStuck
  <1>3. ListIsHeld' /\ StopIsCalled'
    BY Apart DEF ListIsHeld, StopIsCalled, TypeOK
  <1> QED BY <1>1, <1>2, <1>3

\* What the openers and ctl may do: they touch of all this only isStoped,
\* isStarted and their own places.
LEMMA OpKeepsInv ==
  ASSUME SurfacesInv, PhotoIsWhole, NotStuck,
         CtlWalks \/ (\E o \in Openers : OpStep(o)) \/ Receives
  PROVE  SurfacesInv' /\ PhotoIsWhole' /\ NotStuck'
  <1> USE DEF SurfacesInv
  <1>1. CASE CtlWalks
    <2> USE <1>1 DEF CtlWalks, OpKeeps, OpGoes
    <2>1. TypeOK'
      <3>1. op' \in [Openers -> {"none", "start", "route", "opened", "marked", "failed", "report"}]
        BY DEF TypeOK
      <3>2. told' \in BOOLEAN
        OBVIOUS
      <3>3. UNCHANGED <<life, shown, dec, isStoped, isExit, mBitmap, rated, isStarted, retry, ui,
                        inst, frames, owner, stop, spoilt, events>>
        OBVIOUS
      <3> HIDE DEF CtlWalks
      <3> QED BY <3>1, <3>2, <3>3 DEF TypeOK
    <2>2. OneDecodes' /\ RateIsPicture' /\ PhotoStops' /\ PhotoIsWhole' /\ ListIsHeld' /\ StopIsCalled'
      BY DEF OneDecodes, RateIsPicture, PhotoStops, PhotoIsWhole, ListIsHeld,
             StopIsCalled, TypeOK
    <2>3. NotStuck'
      BY DEF NotStuck, TypeOK
    <2> QED BY <2>1, <2>2, <2>3
  <1>2. ASSUME NEW o \in Openers, OpStep(o)
        PROVE  SurfacesInv' /\ PhotoIsWhole' /\ NotStuck'
    <2> USE <1>2 DEF OpStep, OpSucceeds, OpMakes, OpOpens, OpMarks, OpShows, OpCleans,
                     OpReports, OpKeeps, OpGoes, StopsPlay, camera
    <2>1. TypeOK'
      <3>1. events' \in 0 .. MaxEvents
        BY SurfacesAssumption DEF TypeOK, Event
      <3>2. stop' \in [Stoppers -> {"no", "ends", "frees"}]
        BY Apart DEF TypeOK
      <3>3. retry' \in Nat
        BY DEF TypeOK
      <3>8. told' \in BOOLEAN
        BY DEF TypeOK
      <3>9. isStarted' \in BOOLEAN
        BY DEF TypeOK
      <3>10. isStoped' \in BOOLEAN
        BY DEF TypeOK
      <3>4. inst' \in {"none", "made", "live"}
        BY DEF TypeOK
      <3>7. frames' \in BOOLEAN
        BY DEF TypeOK
      <3>5. op' \in [Openers -> {"none", "start", "route", "opened", "marked", "failed", "report"}]
        <4>1. \E p \in {"none", "route", "opened", "marked", "failed", "report"} : op' = [op EXCEPT ![o] = p]
          OBVIOUS
        <4> QED BY <4>1 DEF TypeOK
      <3>6. UNCHANGED <<life, shown, dec, isExit, mBitmap, rated, ui, owner, spoilt>>
        OBVIOUS
      <3> HIDE DEF OpStep
      <3> QED BY <3>1, <3>2, <3>3, <3>4, <3>5, <3>6, <3>7, <3>8, <3>9, <3>10 DEF TypeOK
    <2>2. OneDecodes' /\ RateIsPicture' /\ PhotoStops' /\ PhotoIsWhole'
      BY DEF OneDecodes, RateIsPicture, PhotoStops, PhotoIsWhole
    <2>3. ListIsHeld' /\ StopIsCalled'
      <3>1. o \in Stoppers /\ o # UI
        BY SurfacesAssumption DEF Stoppers, Openers, UI
      <3>2. stop' = stop \/ (stop[o] # "frees" /\ stop' = [stop EXCEPT ![o] = "ends"])
        BY DEF StopIsCalled
      <3>3. ListIsHeld'
        BY <3>1, <3>2 DEF ListIsHeld, TypeOK
      <3>4. StopIsCalled'
        BY <3>1, Apart DEF StopIsCalled, TypeOK
      <3> QED BY <3>3, <3>4
    <2>4. NotStuck'
      BY DEF NotStuck, TypeOK
    <2> QED BY <2>1, <2>2, <2>3, <2>4
  <1>3. CASE Receives
    BY <1>3 DEF Receives, callback, camera, TypeOK, OneDecodes, RateIsPicture, PhotoStops,
                PhotoIsWhole, ListIsHeld, StopIsCalled, NotStuck
  <1> QED BY <1>1, <1>2, <1>3

\* What the main thread may do; with a surface it may begin a thread's life.
LEMMA UiKeepsInv ==
  ASSUME SurfacesInv, PhotoIsWhole, NotStuck,
         UiCreates \/ UiDestroys \/ UiStopsForPhoto \/ UiRefreshes \/ UiStep
  PROVE  SurfacesInv' /\ PhotoIsWhole' /\ NotStuck'
  <1> USE DEF SurfacesInv, UiKeeps, callback, camera
  <1>1. CASE UiCreates
    <2> USE <1>1 DEF UiCreates
    <2>1. life \in Nat /\ Lives \in Nat /\ life + 1 \in Threads
      BY SurfacesAssumption DEF TypeOK, Threads
    <2>2. TypeOK'
      BY <2>1 DEF TypeOK, DecPlaces
    <2>3. OneDecodes'
      BY <2>1 DEF OneDecodes, TypeOK, Threads
    <2>4. dec[life + 1] = "none"
      BY <2>1 DEF OneDecodes
    <2>5. ListIsHeld' /\ StopIsCalled'
      BY <2>1, <2>4 DEF ListIsHeld, StopIsCalled, TypeOK
    <2>6. RateIsPicture' /\ PhotoStops' /\ PhotoIsWhole' /\ NotStuck'
      BY <2>1 DEF RateIsPicture, PhotoStops, PhotoIsWhole, NotStuck, TypeOK
    <2> QED BY <2>2, <2>3, <2>5, <2>6
  <1>2. CASE UiDestroys
    BY ZenonT(30), <1>2 DEF UiDestroys, TypeOK, OneDecodes, ListIsHeld, StopIsCalled, RateIsPicture,
                PhotoStops, PhotoIsWhole, NotStuck
  <1>3. CASE UiStopsForPhoto \/ UiRefreshes
    <2> USE <1>3 DEF UiStopsForPhoto, UiRefreshes
    <2>1. TypeOK'
      <3>1. events' \in 0 .. MaxEvents
        BY SurfacesAssumption DEF TypeOK, Event
      <3>2. ui' \in {"idle", "photo", "shoot", "refresh", "stopping"} /\ isStoped' \in BOOLEAN
        OBVIOUS
      <3>3. UNCHANGED <<life, shown, dec, isExit, mBitmap, rated, isStarted, retry, told, op,
                        inst, frames, owner, stop, spoilt>>
        OBVIOUS
      <3> HIDE DEF UiStopsForPhoto, UiRefreshes
      <3> QED BY <3>1, <3>2, <3>3 DEF TypeOK
    <2>2. OneDecodes' /\ ListIsHeld' /\ StopIsCalled' /\ RateIsPicture' /\ PhotoStops' /\ PhotoIsWhole' /\ NotStuck'
      BY DEF OneDecodes, ListIsHeld, StopIsCalled, RateIsPicture, PhotoStops, PhotoIsWhole, NotStuck
    <2> QED BY <2>1, <2>2
  <1>4. CASE UiLooks
    <2> USE <1>4 DEF UiLooks
    <2>1. TypeOK'
      <3>1. ui' \in {"idle", "photo", "shoot", "refresh", "stopping"}
        OBVIOUS
      <3>2. isStoped' \in BOOLEAN
        BY DEF TypeOK
      <3>3. UNCHANGED <<life, shown, dec, isExit, mBitmap, rated, isStarted, retry, told, op,
                        inst, frames, owner, stop, spoilt, events>>
        OBVIOUS
      <3> HIDE DEF UiLooks
      <3> QED BY <3>1, <3>2, <3>3 DEF TypeOK
    <2>2. OneDecodes' /\ ListIsHeld' /\ StopIsCalled' /\ RateIsPicture' /\ NotStuck'
      BY DEF OneDecodes, ListIsHeld, StopIsCalled, RateIsPicture, NotStuck
    <2>3. PhotoStops' /\ PhotoIsWhole'
      <3> SUFFICES ASSUME mBitmap # "null", rated
                   PROVE  /\ mBitmap = "full"
                          /\ \A t \in Threads : dec[t] \in {"none", "test", "return", "draw", "done"}
        BY DEF PhotoStops, PhotoIsWhole
      <3> QED
        BY DEF RateIsPicture, TypeOK, DecPlaces
    <2> QED BY <2>1, <2>2, <2>3
  <1>5. CASE UiShoots
    <2> USE <1>5 DEF UiShoots
    <2>1. TypeOK'
      BY ZenonT(30) DEF TypeOK
    <2>2. OneDecodes' /\ ListIsHeld' /\ StopIsCalled' /\ RateIsPicture' /\ PhotoStops' /\ PhotoIsWhole' /\ NotStuck'
      BY DEF OneDecodes, ListIsHeld, StopIsCalled, RateIsPicture, PhotoStops, PhotoIsWhole, NotStuck
    <2> QED BY <2>1, <2>2
  <1>6. CASE UiStopsPlay
    <2> USE <1>6 DEF UiStopsPlay, StopsPlay
    <2>1. TypeOK'
      <3>1. stop' \in [Stoppers -> {"no", "ends", "frees"}]
        BY Apart DEF TypeOK
      <3>2. ui' \in {"idle", "photo", "shoot", "refresh", "stopping"}
        OBVIOUS
      <3>3. told' \in BOOLEAN
        BY DEF TypeOK
      <3>4. UNCHANGED <<life, shown, dec, isStoped, isExit, mBitmap, rated, isStarted, retry, op,
                        inst, frames, owner, spoilt, events>>
        OBVIOUS
      <3> HIDE DEF UiStopsPlay
      <3> QED BY <3>1, <3>2, <3>3, <3>4 DEF TypeOK
    <2>2. OneDecodes' /\ RateIsPicture' /\ PhotoStops' /\ PhotoIsWhole'
      BY DEF OneDecodes, RateIsPicture, PhotoStops, PhotoIsWhole
    <2>3. stop[UI] = "no" /\ UI \in Stoppers /\ UI \notin Openers
      BY SurfacesAssumption, Apart DEF StopIsCalled, TypeOK, UI, Openers
    <2>4. ListIsHeld'
      BY <2>3 DEF ListIsHeld, TypeOK
    <2>6. StopIsCalled'
      <3>1. op' = op /\ \A o \in Openers : stop'[o] = stop[o]
        BY <2>3 DEF TypeOK, Stoppers
      <3>2. stop'[UI] # "no" => ui' = "stopping"
        BY <2>3
      <3> QED BY <3>1, <3>2 DEF StopIsCalled
    <2>5. NotStuck'
      BY DEF NotStuck
    <2> QED BY <2>1, <2>2, <2>4, <2>5, <2>6
  <1>7. CASE UiRefreshed
    <2> USE <1>7 DEF UiRefreshed
    <2>1. TypeOK'
      BY ZenonT(30) DEF TypeOK
    <2>2. OneDecodes' /\ ListIsHeld' /\ StopIsCalled' /\ RateIsPicture' /\ PhotoStops' /\ PhotoIsWhole' /\ NotStuck'
      BY DEF OneDecodes, ListIsHeld, StopIsCalled, RateIsPicture, PhotoStops, PhotoIsWhole, NotStuck
    <2> QED BY <2>1, <2>2
  <1> QED
    BY <1>1, <1>2, <1>3, <1>4, <1>5, <1>6, <1>7 DEF UiStep

\* So every step keeps all three.
LEMMA NextKeeps ==
  SurfacesInv /\ PhotoIsWhole /\ NotStuck /\ [Next]_vars => SurfacesInv' /\ PhotoIsWhole' /\ NotStuck'
  <1> SUFFICES ASSUME SurfacesInv, PhotoIsWhole, NotStuck, [Next]_vars
               PROVE  SurfacesInv' /\ PhotoIsWhole' /\ NotStuck'
    OBVIOUS
  <1>1. CASE Next
    BY <1>1, DecKeepsInv, StopKeepsInv, OpKeepsInv, UiKeepsInv DEF Next
  <1>2. CASE UNCHANGED vars
    BY <1>2 DEF vars, callback, camera, native, SurfacesInv, TypeOK, OneDecodes, ListIsHeld,
                StopIsCalled, RateIsPicture, PhotoStops, PhotoIsWhole, NotStuck
  <1> QED BY <1>1, <1>2

\* One thread decodes, lists are freed under the lock, and a frame rate stands
\* for a picture (StartDecode_Video, GetVideoFrame and StopPlay).
THEOREM SurfacesCorrect == Spec => []SurfacesInv
  <1> QED BY InitInv, NextKeeps, PTL DEF Spec

\* takePhoto never writes a bitmap that has only been made.
THEOREM PhotoCorrect == Spec => []PhotoIsWhole
  <1> QED BY InitInv, NextKeeps, PTL DEF Spec

\* No order of threadRunOpenVideo and MSG_REFRESH leaves the picture of a
\* started camera switched off.
THEOREM NotStuckCorrect == Spec => []NotStuck
  <1> QED BY InitInv, NextKeeps, PTL DEF Spec
=============================================================================
