------------------------ MODULE VideoSession_proofs ------------------------
(***************************************************************************)
(* Proofs about VideoSession: its types; that a raised link flag means an  *)
(* accepted INVITE, however slow the network; and that no thread outlives  *)
(* the instance if the threads answer within the time QuitInstance waits.  *)
(***************************************************************************)
EXTENDS VideoSession, TLAPS

USE DEF Off, Left, Running, Quit

HeartWorks == heart \notin {"none", "new"}
RecvWorks  == recv  \notin {"none", "new"}

\* Where the flag of a thread and the thread itself stand while it may run.
HeartIs(flag) == HeartWorks /\ heartFlag = flag
RecvIs(flag)  == RecvWorks /\ recv # "blocked" /\ recvFlag = flag

\* Without slow exchanges and slow starts the flags tell the truth of the threads.
ThreadsInv == slow = {} =>
  /\ inst = "made" <=> ui # "none"
  /\ ui \in {"none", "route", "connect", "invite", "threads", "failed", "close"}
       => heart = "none" /\ recv = "none"
  /\ ui \in {"route", "connect", "invite", "threads", "failed"}
       => heartFlag = Off /\ recvFlag = Off
  /\ ui = "playing" => /\ HeartIs(Running) \/ (heart = "new" /\ heartFlag = Off)
                       /\ RecvIs(Running) \/ (recv = "new" /\ recvFlag = Off)
  /\ ui = "quitHeart" => /\ HeartIs(Quit) \/ (heart = "none" /\ heartFlag = Left)
                         /\ RecvIs(Running)
  /\ ui = "askRecv" => /\ heart = "none"
                       /\ RecvIs(Running) \/ (recv = "none" /\ recvFlag = Off)
  /\ ui = "quitRecv" => /\ heart = "none"
                        /\ RecvIs(Quit) \/ (recv = "none" /\ recvFlag = Left)

\* The link flag is up only after an INVITE that nothing has undone since.
LinkInv ==
  /\ ui \in {"route", "connect", "invite", "failed"} => ~bLinked
  /\ ui \in {"route", "connect", "invite", "threads", "failed"} => heart = "none"
  /\ heart \in {"route", "astray", "connect", "invite"} => ~bLinked
  /\ bLinked /\ ui \in {"threads", "playing"} => invited /\ ctl \in {"up", "dead"}
  /\ ui = "none" => inst # "made"

-----------------------------------------------------------------------------
\* Init and each step keep the types.

\* The types hold at the start.
LEMMA TypeInit == Init => TypeOK
<1>1. Init => bLinked \in BOOLEAN /\ invited \in BOOLEAN
  BY DEF Init
<1>2. Init => silent \in 0 .. KeepSleeps - 1 /\ idle \in 0 .. Limit + 1 /\ glitches \in 0 .. MaxGlitch
  BY VideoSessionAssumption DEF Init, VideoSessionAssumption
<1> QED BY <1>1, <1>2 DEF Init, TypeOK, Link

\* The link flag stays a truth value.
LEMMA FlagTypes == TypeOK /\ Next => bLinked' \in BOOLEAN /\ invited' \in BOOLEAN
<1> SUFFICES ASSUME TypeOK, Next PROVE bLinked' \in BOOLEAN /\ invited' \in BOOLEAN
  OBVIOUS
<1>1. (bLinked /\ ~TimedOut(idle + 1)) \in BOOLEAN  OBVIOUS
<1>2. bLinked \in BOOLEAN /\ invited \in BOOLEAN  BY DEF TypeOK
<1>3. CASE RecvFails  BY <1>1, <1>2, <1>3 DEF RecvFails, net
<1>4. CASE UiCreates \/ UiStops \/ UiGoesOn \/ HeartStep \/ CtlLost \/ DataLost
  BY <1>2, <1>4
  DEF UiCreates, UiStops, UiGoesOn, UiRoute, UiConnects, UiInvites, UiStartsThreads,
      UiHeartDone, UiAsksRecv, UiRecvDone, UiCloses, HeartStep, HeartBegins, HeartQuits,
      HeartRebuilds, HeartGivesUp, HeartBeats, HeartRoute, HeartConnects, HeartInvites,
      CtlLost, DataLost, Accepted, Refused, net
<1>5. CASE RecvBegins \/ RecvQuits \/ RecvTop \/ RecvPauses \/ RecvReads \/ RecvBlocks
  BY <1>2, <1>5 DEF RecvBegins, RecvQuits, RecvTop, RecvPauses, RecvReads, RecvBlocks, net
<1> QED BY <1>3, <1>4, <1>5 DEF Next, RecvStep

\* The user's thread keeps the types.
LEMMA TypeUi == TypeOK /\ (UiCreates \/ UiStops \/ UiGoesOn) => TypeOK'
<1> SUFFICES ASSUME TypeOK, UiCreates \/ UiStops \/ UiGoesOn PROVE TypeOK'
  OBVIOUS
<1>0. bLinked' \in BOOLEAN /\ invited' \in BOOLEAN  BY FlagTypes DEF Next
<1> USE <1>0, VideoSessionAssumption
        DEF TypeOK, VideoSessionAssumption, Link, flags, net, Glitch, NoGlitch
<1>1. CASE UiCreates        BY <1>1 DEF UiCreates
<1>2. CASE UiStops          BY <1>2 DEF UiStops
<1>3. CASE UiRoute          BY <1>3 DEF UiRoute
<1>4. CASE UiConnects       BY <1>4 DEF UiConnects, Connects, Hangs
<1>5. CASE UiInvites        BY <1>5 DEF UiInvites, Accepted, Refused
<1>6. CASE UiStartsThreads  BY <1>6 DEF UiStartsThreads
<1>7. CASE UiHeartDone      BY <1>7 DEF UiHeartDone
<1>8. CASE UiAsksRecv       BY <1>8 DEF UiAsksRecv
<1>9. CASE UiRecvDone       BY <1>9 DEF UiRecvDone
<1>10. CASE UiCloses        BY <1>10 DEF UiCloses
<1> QED BY <1>1, <1>2, <1>3, <1>4, <1>5, <1>6, <1>7, <1>8, <1>9, <1>10 DEF UiGoesOn

\* The threads of the session, and a lost connection, keep the types.
LEMMA TypeThreads == TypeOK /\ (HeartStep \/ RecvStep \/ CtlLost \/ DataLost) => TypeOK'
<1> SUFFICES ASSUME TypeOK, HeartStep \/ RecvStep \/ CtlLost \/ DataLost PROVE TypeOK'
  OBVIOUS
<1>0. bLinked' \in BOOLEAN /\ invited' \in BOOLEAN  BY FlagTypes DEF Next
<1> USE <1>0, VideoSessionAssumption
        DEF TypeOK, VideoSessionAssumption, Link, flags, net, Glitch, NoGlitch, HeartWakes
<1>1. CASE HeartBegins    BY <1>1 DEF HeartBegins
<1>2. CASE HeartQuits     BY <1>2 DEF HeartQuits
<1>3. CASE HeartRebuilds  BY <1>3 DEF HeartRebuilds
<1>4. CASE HeartGivesUp   BY <1>4 DEF HeartGivesUp
<1>5. CASE HeartBeats     BY <1>5 DEF HeartBeats, Silence
<1>6. CASE HeartRoute     BY <1>6 DEF HeartRoute
<1>7. CASE HeartConnects  BY <1>7 DEF HeartConnects, Connects, Hangs
<1>8. CASE HeartInvites   BY <1>8 DEF HeartInvites, Accepted, Refused
<1>9. CASE RecvBegins     BY <1>9 DEF RecvBegins
<1>10. CASE RecvQuits     BY <1>10 DEF RecvQuits
<1>11. CASE RecvTop       BY <1>11 DEF RecvTop
<1>12. CASE RecvPauses    BY <1>12 DEF RecvPauses
<1>13. CASE RecvReads     BY <1>13 DEF RecvReads
<1>14. CASE RecvBlocks    BY <1>14 DEF RecvBlocks
<1>15. CASE RecvFails
  <2>1. idle' \in 0 .. Limit + 1  BY <1>15 DEF RecvFails
  <2>2. recv' = "top" /\ UNCHANGED <<ui, heart, inst, flags, net, silent, slow, glitches>>
    BY <1>15 DEF RecvFails
  <2> QED BY <2>1, <2>2
<1>16. CASE CtlLost       BY <1>16 DEF CtlLost
<1>17. CASE DataLost      BY <1>17 DEF DataLost
<1> QED
  BY <1>1, <1>2, <1>3, <1>4, <1>5, <1>6, <1>7, <1>8, <1>9, <1>10, <1>11, <1>12, <1>13,
     <1>14, <1>15, <1>16, <1>17 DEF HeartStep, RecvStep

\* Every variable keeps its type, for any bounds and whatever is slow.
THEOREM TypeCorrect == Spec => []TypeOK
<1>1. TypeOK /\ UNCHANGED vars => TypeOK'
  BY DEF TypeOK, vars, flags, net
<1> QED BY TypeInit, TypeUi, TypeThreads, <1>1, PTL DEF Spec, Next

-----------------------------------------------------------------------------
\* The link flag.

\* At the start the session has no link.
LEMMA LinkInit == Init => LinkInv
BY DEF Init, LinkInv

\* The user's thread keeps LinkInv.
LEMMA LinkUi == LinkInv /\ (UiCreates \/ UiStops \/ UiGoesOn) => LinkInv'
<1> SUFFICES ASSUME LinkInv, UiCreates \/ UiStops \/ UiGoesOn PROVE LinkInv'
  OBVIOUS
<1> USE DEF LinkInv, flags, net
<1>1. CASE UiCreates        BY <1>1 DEF UiCreates
<1>2. CASE UiStops          BY <1>2 DEF UiStops
<1>3. CASE UiRoute          BY <1>3 DEF UiRoute
<1>4. CASE UiConnects       BY <1>4 DEF UiConnects, Connects, Hangs
<1>5. CASE UiInvites        BY <1>5 DEF UiInvites, Accepted, Refused
<1>6. CASE UiStartsThreads  BY <1>6 DEF UiStartsThreads
<1>7. CASE UiHeartDone      BY <1>7 DEF UiHeartDone
<1>8. CASE UiAsksRecv       BY <1>8 DEF UiAsksRecv
<1>9. CASE UiRecvDone       BY <1>9 DEF UiRecvDone
<1>10. CASE UiCloses        BY <1>10 DEF UiCloses
<1> QED BY <1>1, <1>2, <1>3, <1>4, <1>5, <1>6, <1>7, <1>8, <1>9, <1>10 DEF UiGoesOn

\* The threads of the session, and a lost connection, keep LinkInv.
LEMMA LinkThreads == LinkInv /\ (HeartStep \/ RecvStep \/ CtlLost \/ DataLost) => LinkInv'
<1> SUFFICES ASSUME LinkInv, HeartStep \/ RecvStep \/ CtlLost \/ DataLost PROVE LinkInv'
  OBVIOUS
<1> USE DEF LinkInv, flags, net, HeartWakes
<1>1. CASE HeartBegins    BY <1>1 DEF HeartBegins
<1>2. CASE HeartQuits     BY <1>2 DEF HeartQuits
<1>3. CASE HeartRebuilds  BY <1>3 DEF HeartRebuilds
<1>4. CASE HeartGivesUp   BY <1>4 DEF HeartGivesUp
<1>5. CASE HeartBeats     BY <1>5 DEF HeartBeats
<1>6. CASE HeartRoute     BY <1>6 DEF HeartRoute
<1>7. CASE HeartConnects  BY <1>7 DEF HeartConnects, Connects, Hangs
<1>8. CASE HeartInvites   BY <1>8 DEF HeartInvites, Accepted, Refused
<1>9. CASE RecvBegins \/ RecvQuits \/ RecvTop \/ RecvPauses \/ RecvReads \/ RecvBlocks
  BY <1>9 DEF RecvBegins, RecvQuits, RecvTop, RecvPauses, RecvReads, RecvBlocks
<1>10. CASE RecvFails
  <2>1. bLinked' => bLinked  BY <1>10 DEF RecvFails
  <2> QED BY <1>10, <2>1 DEF RecvFails
<1>11. CASE CtlLost \/ DataLost  BY <1>11 DEF CtlLost, DataLost
<1> QED
  BY <1>1, <1>2, <1>3, <1>4, <1>5, <1>6, <1>7, <1>8, <1>9, <1>10, <1>11
  DEF HeartStep, RecvStep

\* While the camera plays, a raised m_bLinked stands for an accepted INVITE on
\* the present control connection, whatever is slow.
THEOREM LinkTruth == Spec => []LinkedIsInvited
<1>1. LinkInv /\ UNCHANGED vars => LinkInv'
  BY DEF LinkInv, vars, flags, net
<1>2. LinkInv => LinkedIsInvited
  BY DEF LinkInv, LinkedIsInvited
<1> QED BY LinkInit, LinkUi, LinkThreads, <1>1, <1>2, PTL DEF Spec, Next

-----------------------------------------------------------------------------
\* The threads, where nothing is slow.

\* At the start the session has no threads.
LEMMA ThreadsInit == Init => ThreadsInv
BY DEF Init, ThreadsInv

\* The user's thread keeps ThreadsInv.
LEMMA ThreadsUi ==
  ThreadsInv /\ (UiCreates \/ UiStops \/ UiGoesOn) => ThreadsInv'
<1> SUFFICES ASSUME ThreadsInv, UiCreates \/ UiStops \/ UiGoesOn PROVE ThreadsInv'
  OBVIOUS
<1> USE DEF ThreadsInv, HeartIs, RecvIs, HeartWorks, RecvWorks, flags
<1>1. CASE UiCreates        BY <1>1 DEF UiCreates
<1>2. CASE UiStops          BY <1>2 DEF UiStops
<1>3. CASE UiRoute          BY <1>3 DEF UiRoute
<1>4. CASE UiConnects       BY <1>4 DEF UiConnects
<1>5. CASE UiInvites        BY <1>5 DEF UiInvites
<1>6. CASE UiStartsThreads  BY <1>6 DEF UiStartsThreads
<1>7. CASE UiHeartDone      BY <1>7 DEF UiHeartDone
<1>8. CASE UiAsksRecv       BY <1>8 DEF UiAsksRecv
<1>9. CASE UiRecvDone       BY <1>9 DEF UiRecvDone
<1>10. CASE UiCloses        BY <1>10 DEF UiCloses
<1> QED BY <1>1, <1>2, <1>3, <1>4, <1>5, <1>6, <1>7, <1>8, <1>9, <1>10 DEF UiGoesOn

\* The threads of the session, and a lost connection, keep ThreadsInv.
LEMMA ThreadsSteps ==
  ThreadsInv /\ (HeartStep \/ RecvStep \/ CtlLost \/ DataLost) => ThreadsInv'
<1> SUFFICES ASSUME ThreadsInv, HeartStep \/ RecvStep \/ CtlLost \/ DataLost
             PROVE  ThreadsInv'
  OBVIOUS
<1> USE DEF ThreadsInv, HeartIs, RecvIs, HeartWorks, RecvWorks, flags, HeartWakes
<1>1. CASE HeartBegins    BY <1>1 DEF HeartBegins
<1>2. CASE HeartQuits     BY <1>2 DEF HeartQuits
<1>3. CASE HeartRebuilds  BY <1>3 DEF HeartRebuilds
<1>4. CASE HeartGivesUp \/ HeartBeats  BY <1>4 DEF HeartGivesUp, HeartBeats
<1>5. CASE HeartRoute     BY <1>5 DEF HeartRoute
<1>6. CASE HeartConnects  BY <1>6 DEF HeartConnects
<1>7. CASE HeartInvites   BY <1>7 DEF HeartInvites
<1>8. CASE RecvBegins     BY <1>8 DEF RecvBegins
<1>9. CASE RecvQuits      BY <1>9 DEF RecvQuits
<1>10. CASE RecvTop \/ RecvPauses \/ RecvReads \/ RecvFails
  BY <1>10 DEF RecvTop, RecvPauses, RecvReads, RecvFails
<1>11. CASE RecvBlocks    BY <1>11 DEF RecvBlocks
<1>12. CASE CtlLost \/ DataLost  BY <1>12 DEF CtlLost, DataLost
<1> QED
  BY <1>1, <1>2, <1>3, <1>4, <1>5, <1>6, <1>7, <1>8, <1>9, <1>10, <1>11, <1>12
  DEF HeartStep, RecvStep

\* If every exchange and every start of a thread ends within the time QuitInstance
\* waits, no thread of the instance is left when StopPlay frees it.
THEOREM MemorySafety == Spec => []NoUseAfterFree
<1>1. ThreadsInv /\ UNCHANGED vars => ThreadsInv'
  BY DEF ThreadsInv, HeartIs, RecvIs, HeartWorks, RecvWorks, vars, flags
<1>2. ThreadsInv => NoUseAfterFree
  BY DEF ThreadsInv, NoUseAfterFree
<1> QED BY ThreadsInit, ThreadsUi, ThreadsSteps, <1>1, <1>2, PTL DEF Spec, Next

\* What the run checks of every state holds for any bounds.
THEOREM CameraCorrect == Spec => []CameraInv
<1>1. TypeOK /\ LinkedIsInvited => CameraInv BY DEF CameraInv
<1> QED BY <1>1, TypeCorrect, LinkTruth, PTL
=============================================================================
