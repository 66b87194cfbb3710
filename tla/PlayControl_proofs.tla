------------------------- MODULE PlayControl_proofs -------------------------
(***************************************************************************)
(* Proofs about PlayControl, for any number of cameras, tries and events.  *)
(* What makes NothingLeftOpen hold is OpenInv: whoever lets go of an open  *)
(* camera has marked it as started before, and onDestroy and the openers   *)
(* that are late each look at what the other may have left.                *)
(***************************************************************************)
EXTENDS PlayControl, TLAPS

\* The types are kept by every step of every thread.
THEOREM TypeCorrect == Spec => []TypeOK
<1> USE PlayControlAssumption DEF Slots, Threads, UI
<1>1. Init => TypeOK
  <2> SUFFICES ASSUME Init PROVE TypeOK
    OBVIOUS
  <2>1. 1 \in Slots /\ 1 \in 1 .. N + 1 /\ 0 \in 0 .. MaxEvents
    OBVIOUS
  <2>2. started \in [Slots -> BOOLEAN] /\ retry \in [Slots -> Nat]
    BY DEF Init
  <2>3. slot \in [Openers -> Slots]
    BY <2>1 DEF Init
  <2>4. op \in [Openers -> {"unused", "start", "route", "opened", "failed",
                          "clean", "report", "leave", "undo", "done"}]
    BY DEF Init
  <2>5. array \in [Slots -> Openers \cup {0}] /\ holds \in [Threads -> Openers \cup {0}]
    BY DEF Init
  <2> QED BY <2>1, <2>2, <2>3, <2>4, <2>5 DEF Init, TypeOK
<1>2. TypeOK /\ [Next]_vars => TypeOK'
  <2> SUFFICES ASSUME TypeOK, [Next]_vars PROVE TypeOK'
    OBVIOUS
  <2> USE DEF TypeOK, cams, mem, Event, Notify, StopsNothing, StopReads, StopFrees
  <2>1. CASE CtlStep
    <3>1. CASE CtlTests
      BY <3>1 DEF CtlTests
    <3>2. CASE CtlEnters
      BY <3>2 DEF CtlEnters
    <3>3. CASE CtlOpens
      BY <3>3 DEF CtlOpens, NextOpener
    <3>4. CASE CtlPasses
      BY <3>4 DEF CtlPasses
    <3>5. CASE CtlWaits
      BY <3>5 DEF CtlWaits
    <3>6. CASE CtlResumes
      BY <3>6 DEF CtlResumes
    <3> QED BY <2>1, <3>1, <3>2, <3>3, <3>4, <3>5, <3>6 DEF CtlStep
  <2>2. CASE OpenersStep
    <3> PICK o \in Openers : OpenerStep(o)
      BY <2>2 DEF OpenersStep
    <3> USE DEF OpenerKeeps, Goes
    <3>1. CASE OpenerFindsTaken(o)
      BY <3>1 DEF OpenerFindsTaken
    <3>2. CASE OpenerCreates(o)
      BY <3>2 DEF OpenerCreates
    <3>3. CASE OpenerOpens(o)
      <4>1. op' \in [Openers -> {"unused", "start", "route", "opened", "failed",
                               "clean", "report", "leave", "undo", "done"}]
        BY <3>3 DEF OpenerOpens
      <4>2. events' \in 0 .. MaxEvents
        BY <3>3 DEF OpenerOpens
      <4> QED BY <3>3, <4>1, <4>2 DEF OpenerOpens
    <3>4. CASE OpenerMarks(o)
      BY <3>4 DEF OpenerMarks
    <3>5. CASE OpenerCleans(o)
      BY <3>5 DEF OpenerCleans
    <3>6. CASE OpenerCleaned(o)
      BY <3>6 DEF OpenerCleaned
    <3>7. CASE OpenerReports(o)
      BY <3>7 DEF OpenerReports
    <3>8. CASE OpenerLeaves(o)
      BY <3>8 DEF OpenerLeaves
    <3>9. CASE OpenerUndoes(o)
      BY <3>9 DEF OpenerUndoes
    <3> QED BY <3>1, <3>2, <3>3, <3>4, <3>5, <3>6, <3>7, <3>8, <3>9 DEF OpenerStep
  <2>3. CASE UiRefreshes \/ UiShowsFewer \/ UiShowsAll \/ UiExits
    <3>1. CASE UiRefreshes
      BY <3>1 DEF UiRefreshes, UiKeeps
    <3>2. CASE UiShowsFewer
      BY <3>2 DEF UiShowsFewer, UiKeeps
    <3>3. CASE UiShowsAll
      BY <3>3 DEF UiShowsAll, UiKeeps
    <3>4. CASE UiExits
      BY <3>4 DEF UiExits, UiKeeps
    <3> QED BY <2>3, <3>1, <3>2, <3>3, <3>4
  <2>4. CASE UiGoesOn
    <3> USE DEF UiKeeps, First, Unmark, Stopping
    <3>1. CASE UiNotifiesAll
      BY <3>1 DEF UiNotifiesAll
    <3>2. CASE UiJoins
      BY <3>2 DEF UiJoins
    <3>3. CASE UiPasses
      BY <3>3 DEF UiPasses
    <3>4. CASE UiStops
      <4> PICK s \in First(todo) :
            /\ started[s]
            /\ \/ StopsNothing(s) /\ Unmark(s) /\ UNCHANGED holds
               \/ StopReads(UI, s) /\ UNCHANGED <<cams, todo>>
        BY <3>4 DEF UiStops
      <4>1. CASE StopsNothing(s) /\ Unmark(s) /\ UNCHANGED holds
        BY <3>4, <4>1 DEF UiStops
      <4>2. CASE StopReads(UI, s) /\ UNCHANGED <<cams, todo>>
        BY <3>4, <4>2 DEF UiStops
      <4> QED BY <4>1, <4>2
    <3>5. CASE UiStopped
      BY SMTT(30), <3>5 DEF UiStopped
    <3>6. CASE UiReturns
      BY <3>6 DEF UiReturns
    <3> QED BY <2>4, <3>1, <3>2, <3>3, <3>4, <3>5, <3>6 DEF UiGoesOn
  <2>5. CASE UNCHANGED vars
    BY <2>5 DEF vars
  <2> QED BY <2>1, <2>2, <2>3, <2>4, <2>5 DEF Next
<1> QED BY <1>1, <1>2, PTL DEF Spec

-----------------------------------------------------------------------------
\* The inductive invariant is kept by every step of every thread.
THEOREM OpenCorrect == Spec => []OpenInv
<1>1. Init => OpenInv
  BY DEF Init, OpenInv, OpenIsKnown, OpenIsUndone, Leaving, Swept
<1>2. TypeOK /\ OpenInv /\ [Next]_vars => OpenInv'
  <2> SUFFICES ASSUME TypeOK, OpenInv, [Next]_vars PROVE OpenInv'
    OBVIOUS
  <2> USE DEF OpenInv, OpenIsKnown, OpenIsUndone, Leaving, Swept
  <2>1. CASE CtlStep
    <3>1. UNCHANGED <<exit, ui, todo, started, array>>
      BY <2>1 DEF CtlStep, CtlTests, CtlEnters, CtlOpens, CtlPasses, CtlWaits, CtlResumes, cams, mem
    <3>2. \A o \in Openers : op[o] # "unused" => op'[o] = op[o] /\ slot'[o] = slot[o]
      BY <2>1 DEF CtlStep, CtlTests, CtlEnters, CtlOpens, CtlPasses, CtlWaits, CtlResumes,
                  NextOpener, TypeOK
    <3> QED BY <3>1, <3>2
  <2>2. CASE OpenersStep
    <3> PICK o \in Openers : OpenerStep(o)
      BY <2>2 DEF OpenersStep
    <3>0. UNCHANGED <<exit, ui, todo, slot>> /\ (\A p \in Openers : p # o => op'[p] = op[p])
          /\ op' \in [Openers -> {"unused", "start", "route", "opened", "failed",
                                "clean", "report", "leave", "undo", "done"}]
      BY DEF OpenerStep, OpenerFindsTaken, OpenerCreates, OpenerOpens, OpenerMarks,
             OpenerCleans, OpenerCleaned, OpenerReports, OpenerLeaves, OpenerUndoes,
             OpenerKeeps, Goes, TypeOK
    <3>1. CASE OpenerFindsTaken(o)
      BY <3>0, <3>1 DEF OpenerFindsTaken, Goes, TypeOK, cams, mem
    <3>2. CASE OpenerCreates(o)
      BY <3>0, <3>2 DEF OpenerCreates, Goes, TypeOK, cams
    <3>3. CASE OpenerOpens(o)
      BY <3>0, <3>3 DEF OpenerOpens, Goes, TypeOK, cams, mem
    <3>4. CASE OpenerMarks(o)
      BY <3>0, <3>4 DEF OpenerMarks, Goes, TypeOK, mem
    <3>5. CASE OpenerCleans(o)
      BY <3>0, <3>5 DEF OpenerCleans, StopsNothing, StopReads, Goes, TypeOK, cams
    <3>6. CASE OpenerCleaned(o)
      BY <3>0, <3>6 DEF OpenerCleaned, StopFrees, Goes, TypeOK, cams
    <3>7. CASE OpenerReports(o)
      BY <3>0, <3>7 DEF OpenerReports, Goes, TypeOK, mem
    <3>8. CASE OpenerLeaves(o)
      BY <3>0, <3>8 DEF OpenerLeaves, StopsNothing, StopReads, Goes, TypeOK, cams
    <3>9. CASE OpenerUndoes(o)
      BY <3>0, <3>9 DEF OpenerUndoes, StopFrees, Goes, TypeOK, cams
    <3> QED BY <3>1, <3>2, <3>3, <3>4, <3>5, <3>6, <3>7, <3>8, <3>9 DEF OpenerStep
  <2>3. CASE UiRefreshes \/ UiShowsFewer \/ UiShowsAll \/ UiExits
    BY <2>3 DEF UiRefreshes, UiShowsFewer, UiShowsAll, UiExits, UiKeeps, cams, mem
  <2>4. CASE UiGoesOn
    <3> USE DEF UiKeeps, First, Stopping
    <3>1. CASE UiNotifiesAll
      BY <3>1 DEF UiNotifiesAll, cams, mem
    <3>2. CASE UiJoins
      BY <3>2 DEF UiJoins, cams, mem
    <3>3. CASE UiPasses
      BY <3>3 DEF UiPasses, cams, mem
    <3>4. CASE UiStops
      BY <3>4 DEF UiStops, StopsNothing, StopReads, Unmark, TypeOK, cams
    <3>5. CASE UiStopped
      BY <3>5 DEF UiStopped, StopFrees, Unmark, TypeOK
    <3>6. CASE UiReturns
      BY <3>6 DEF UiReturns, cams, mem
    <3> QED BY <2>4, <3>1, <3>2, <3>3, <3>4, <3>5, <3>6 DEF UiGoesOn
  <2>5. CASE UNCHANGED vars
    BY <2>5 DEF vars, cams, mem
  <2> QED BY <2>1, <2>2, <2>3, <2>4, <2>5 DEF Next
<1> QED BY <1>1, <1>2, TypeCorrect, PTL DEF Spec

\* No camera stays open behind a screen that was left (onDestroy and "fix2").
THEOREM ExitClean == Spec => []NothingLeftOpen
<1>1. OpenInv => NothingLeftOpen
  BY DEF OpenInv, OpenIsUndone, Swept, NothingLeftOpen, OpenersDone
<1> QED BY <1>1, OpenCorrect, PTL

\* What the run checks of every state holds for any number of cameras.
THEOREM ScreenCorrect == Spec => []ScreenInv
<1>1. TypeOK /\ OpenInv => ScreenInv BY DEF ScreenInv
<1> QED BY <1>1, TypeCorrect, OpenCorrect, PTL
=============================================================================
