------------------------- MODULE ClientLink_proofs -------------------------
(***************************************************************************)
(* Proofs about ClientLink: its types, that no thread outlives the socket   *)
(* object and the instance, and that a raised link flag and a heartbeat on  *)
(* the wire both mean an accepted login.                                    *)
(***************************************************************************)
EXTENDS ClientLink, TLAPS

USE DEF Off, Left, Running, Quit

-----------------------------------------------------------------------------
\* What a queue of messages stays when it is read, filled or relabelled.

\* The messages that the actions put into a queue are messages.
LEMMA MessageTypes ==
  /\ LoginReply \subseteq Message /\ Response \subseteq Message
  /\ {"Heart", "Old", "Alarm", "LoginOK", "LoginNo"} \subseteq Message
BY DEF Message, Response, LoginReply

\* A queue without messages is one.
LEMMA EmptyQueue == <<>> \in Seq(Message)
OBVIOUS

\* A queue stays one when a message is put in or taken out.
LEMMA QueueTypes ==
  ASSUME NEW q \in Seq(Message)
  PROVE  /\ q # <<>> => Tail(q) \in Seq(Message)
         /\ \A m \in Message : Append(q, m) \in Seq(Message)
         /\ [i \in DOMAIN q |-> IF q[i] = "Heart" THEN "Old" ELSE q[i]] \in Seq(Message)
<1>1. [i \in DOMAIN q |-> IF q[i] = "Heart" THEN "Old" ELSE q[i]] \in Seq(Message)
  <2>1. \A i \in 1 .. Len(q) : (IF q[i] = "Heart" THEN "Old" ELSE q[i]) \in Message
    BY MessageTypes
  <2> QED BY <2>1
<1> QED BY <1>1

\* A message of the shortened queue was in the queue.
LEMMA TailElements ==
  ASSUME NEW q \in Seq(Message), q # <<>>, NEW i \in DOMAIN Tail(q)
  PROVE  i + 1 \in DOMAIN q /\ Tail(q)[i] = q[i + 1]
OBVIOUS

-----------------------------------------------------------------------------
\* The types hold at the start.
LEMMA TypeInit == Init => TypeOK
<1>1. Init => auth \in BOOLEAN /\ answered \in BOOLEAN
  BY DEF Init
<1>2. Init => fails \in 0 .. MaxFails /\ poll \in 0 .. Polls - 1
  BY ClientLinkAssumption DEF Init, ClientLinkAssumption
<1>3. Init => glitches \in 0 .. MaxGlitch /\ inbox \in Seq(Message)
  BY ClientLinkAssumption, EmptyQueue DEF Init, ClientLinkAssumption
<1> QED BY <1>1, <1>2, <1>3 DEF Init, TypeOK

\* The requesting threads' steps keep the types.
LEMMA TypeUi ==
  TypeOK /\ (PrepareToLink \/ QuitHeart \/ InitLib \/ UiStep) => TypeOK'
<1> SUFFICES ASSUME TypeOK, PrepareToLink \/ QuitHeart \/ InitLib \/ UiStep
             PROVE  TypeOK'
  OBVIOUS
<1> USE ClientLinkAssumption, EmptyQueue
        DEF TypeOK, ClientLinkAssumption, threads, flags, memory, net, beats
<1>1. CASE PrepareToLink  BY <1>1 DEF PrepareToLink
<1>2. CASE LoginConnects
  <2>1. auth' \in BOOLEAN /\ answered' \in BOOLEAN BY <1>2 DEF LoginConnects, Connected
  <2> QED BY <1>2, <2>1 DEF LoginConnects, Connected
<1>3. CASE LoginNoRoute   BY <1>3 DEF LoginNoRoute, Glitch
<1>4. CASE LoginReads     BY <1>4, QueueTypes DEF LoginReads, Consume
<1>5. CASE LoginTimesOut  BY <1>5 DEF LoginTimesOut, TimesOut, Glitch
<1>6. CASE LoginFails     BY <1>6 DEF LoginFails, Disonnect
<1>7. CASE StartRecv      BY <1>7 DEF StartRecv
<1>8. CASE StartHeart     BY <1>8 DEF StartHeart
<1>9. CASE QuitHeart      BY <1>9 DEF QuitHeart
<1>10. CASE WaitHeart     BY <1>10 DEF WaitHeart
<1>11. CASE WaitRecv      BY <1>11 DEF WaitRecv
<1>12. CASE Logout        BY <1>12 DEF Logout, Disonnect
<1>13. CASE DeleteLib     BY <1>13 DEF DeleteLib
<1>14. CASE InitLib
  <2>1. auth' \in BOOLEAN /\ answered' \in BOOLEAN BY <1>14 DEF InitLib
  <2> QED BY <1>14, <2>1 DEF InitLib
<1> QED
  BY <1>1, <1>2, <1>3, <1>4, <1>5, <1>6, <1>7, <1>8, <1>9, <1>10, <1>11, <1>12,
     <1>13, <1>14 DEF UiStep

\* The heartbeat thread's steps keep the types.
LEMMA TypeHeart == TypeOK /\ HeartStep => TypeOK'
<1> SUFFICES ASSUME TypeOK, HeartStep
             PROVE  TypeOK'
  OBVIOUS
<1> USE ClientLinkAssumption, EmptyQueue
        DEF TypeOK, ClientLinkAssumption, flags, memory, net, beats, HeartKeeps
<1>1. CASE HeartQuits      BY <1>1 DEF HeartQuits
<1>2. CASE HeartSleeps     BY <1>2 DEF HeartSleeps
<1>3. CASE HeartDisonnects
  <2>1. auth' \in BOOLEAN /\ answered' \in BOOLEAN BY <1>3 DEF HeartDisonnects, Disonnect
  <2> QED BY <1>3, <2>1 DEF HeartDisonnects, Disonnect
<1>4. CASE HeartConnects
  <2>1. auth' \in BOOLEAN /\ answered' \in BOOLEAN BY <1>4 DEF HeartConnects, Connected
  <2> QED BY <1>4, <2>1 DEF HeartConnects, Connected
<1>5. CASE HeartNoRoute    BY <1>5 DEF HeartNoRoute, Glitch
<1>6. CASE HeartRegisters  BY <1>6, QueueTypes DEF HeartRegisters, Consume
<1>7. CASE HeartRegisterTimesOut
  BY <1>7 DEF HeartRegisterTimesOut, TimesOut, Glitch
<1>8. CASE HeartLinked     BY <1>8 DEF HeartLinked
<1>9. CASE HeartWakes      BY <1>9 DEF HeartWakes
<1>10. CASE HeartSends
  <2>1. auth' \in BOOLEAN /\ answered' \in BOOLEAN BY <1>10 DEF HeartSends
  <2> QED BY <1>10, <2>1, QueueTypes DEF HeartSends
<1>11. CASE HeartSendFails BY <1>11 DEF HeartSendFails, Miss, TooMany
<1>12. CASE HeartAnswered
  <2>1. auth' \in BOOLEAN /\ answered' \in BOOLEAN BY <1>12 DEF HeartAnswered
  <2> QED BY <1>12, <2>1 DEF HeartAnswered
<1>13. CASE HeartTimesOut  BY <1>13 DEF HeartTimesOut, Miss, TooMany, TimesOut, Glitch
<1> QED
  BY <1>1, <1>2, <1>3, <1>4, <1>5, <1>6, <1>7, <1>8, <1>9, <1>10, <1>11, <1>12,
     <1>13 DEF HeartStep

\* The receive thread's steps keep the types.
LEMMA TypeRecv == TypeOK /\ RecvStep => TypeOK'
<1> SUFFICES ASSUME TypeOK, RecvStep
             PROVE  TypeOK'
  OBVIOUS
<1> USE DEF TypeOK, flags, memory, net, beats, RecvKeeps
<1>1. CASE RecvQuits BY <1>1 DEF RecvQuits
<1>2. CASE RecvTop   BY <1>2 DEF RecvTop
<1>3. CASE RecvPeeks BY <1>3 DEF RecvPeeks
<1>4. CASE RecvReads BY <1>4, QueueTypes DEF RecvReads, Consume
<1>5. CASE RecvFails BY <1>5 DEF RecvFails
<1>6. CASE RecvDropsLink BY <1>6 DEF RecvDropsLink
<1> QED BY <1>1, <1>2, <1>3, <1>4, <1>5, <1>6 DEF RecvStep

\* The server's steps and the loss of the connection keep the types.
LEMMA TypeNet == TypeOK /\ (ServerAnswers \/ ServerPushes \/ PeerLost) => TypeOK'
<1> SUFFICES ASSUME TypeOK, ServerAnswers \/ ServerPushes \/ PeerLost
             PROVE  TypeOK'
  OBVIOUS
<1> USE ClientLinkAssumption, EmptyQueue, MessageTypes
        DEF TypeOK, ClientLinkAssumption, threads, flags, memory, net, beats, Glitch
<1>1. CASE ServerAnswers
  <2>1. auth' \in BOOLEAN /\ answered' \in BOOLEAN BY <1>1 DEF ServerAnswers
  <2>2. inbox' \in Seq(Message) BY SMTT(30), <1>1, QueueTypes DEF ServerAnswers
  <2>3. asked' \subseteq {"login", "heart"} BY <1>1 DEF ServerAnswers
  <2>4. glitches' \in 0..MaxGlitch BY <1>1 DEF ServerAnswers
  <2>5. UNCHANGED <<threads, flags, memory, conn, beats>> BY <1>1 DEF ServerAnswers
  <2> QED BY <2>1, <2>2, <2>3, <2>4, <2>5
<1>2. CASE ServerPushes  BY <1>2, QueueTypes DEF ServerPushes
<1>3. CASE PeerLost
  <2>1. auth' \in BOOLEAN /\ answered' \in BOOLEAN BY <1>3 DEF PeerLost
  <2>2. inbox' \in Seq(Message) BY <1>3 DEF PeerLost
  <2> QED BY <1>3, <2>1, <2>2 DEF PeerLost
<1> QED BY <1>1, <1>2, <1>3

\* So every step keeps the types.
LEMMA TypeStep == TypeOK /\ [Next]_vars => TypeOK'
<1>1. TypeOK /\ UNCHANGED vars => TypeOK'
  BY DEF TypeOK, vars, threads, flags, memory, net, beats
<1> QED BY <1>1, TypeUi, TypeHeart, TypeRecv, TypeNet DEF Next

\* Every variable keeps its type, for any bounds.
THEOREM TypeCorrect == Spec => []TypeOK
BY TypeInit, TypeStep, PTL DEF Spec

-----------------------------------------------------------------------------
\* The session: where threads run, what they use, what the flag means.

\* SessionInv holds at the start, where there is no session.
LEMMA SessionInit == Init => SessionInv
<1> SUFFICES ASSUME Init PROVE SessionInv
  OBVIOUS
<1>1. ~auth /\ asked = {} /\ DOMAIN inbox = {} BY DEF Init
<1>2. ThreadsInSession BY DEF Init, ThreadsInSession, HeartRuns, RecvRuns
<1>3. MemoryInSession BY DEF Init, MemoryInSession, InSession
<1>4. LoginTruth BY <1>1 DEF Init, LoginTruth, InSession
<1>5. BeatsOnlyLoggedIn BY <1>1 DEF BeatsOnlyLoggedIn
<1> QED BY <1>2, <1>3, <1>4, <1>5 DEF SessionInv

\* Threads and memory, whatever the step.
LEMMA PlacesStep ==
  TypeOK /\ ThreadsInSession /\ MemoryInSession /\ Next
    => ThreadsInSession' /\ MemoryInSession'
<1> SUFFICES ASSUME TypeOK, ThreadsInSession, MemoryInSession, Next
             PROVE  ThreadsInSession' /\ MemoryInSession'
  OBVIOUS
<1> USE DEF TypeOK, ThreadsInSession, MemoryInSession, InSession, HeartRuns, RecvRuns,
            threads, flags, memory
<1>1. CASE PrepareToLink  BY <1>1 DEF PrepareToLink
<1>2. CASE LoginConnects  BY <1>2 DEF LoginConnects
<1>3. CASE LoginNoRoute   BY <1>3 DEF LoginNoRoute
<1>4. CASE LoginReads     BY <1>4 DEF LoginReads
<1>5. CASE LoginTimesOut  BY <1>5 DEF LoginTimesOut
<1>6. CASE LoginFails     BY <1>6 DEF LoginFails
<1>7. CASE StartRecv      BY <1>7 DEF StartRecv
<1>8. CASE StartHeart     BY <1>8 DEF StartHeart
<1>9. CASE QuitHeart      BY <1>9 DEF QuitHeart
<1>10. CASE WaitHeart     BY <1>10 DEF WaitHeart, HeartHasLeft
<1>11. CASE WaitRecv      BY <1>11 DEF WaitRecv, RecvHasLeft
<1>12. CASE Logout        BY <1>12 DEF Logout
<1>13. CASE DeleteLib     BY <1>13 DEF DeleteLib
<1>14. CASE InitLib       BY <1>14 DEF InitLib
<1>15. CASE HeartStep
  <2> USE DEF HeartKeeps
  <2>1. CASE HeartQuits BY <2>1 DEF HeartQuits
  <2>2. CASE HeartStep /\ ~HeartQuits
    BY <2>2 DEF HeartStep, HeartSleeps, HeartDisonnects, HeartConnects, HeartNoRoute,
       HeartRegisters, HeartRegisterTimesOut, HeartLinked, HeartWakes, HeartSends,
       HeartSendFails, HeartAnswered, HeartTimesOut, Miss
  <2> QED BY <1>15, <2>1, <2>2
<1>16. CASE RecvStep
  BY <1>16 DEF RecvKeeps, RecvStep, RecvQuits, RecvTop, RecvPeeks, RecvReads, RecvFails,
     RecvDropsLink
<1>17. CASE ServerAnswers \/ ServerPushes \/ PeerLost
  BY <1>17 DEF ServerAnswers, ServerPushes, PeerLost
<1> QED
  BY <1>1, <1>2, <1>3, <1>4, <1>5, <1>6, <1>7, <1>8, <1>9, <1>10, <1>11, <1>12,
     <1>13, <1>14, <1>15, <1>16, <1>17 DEF Next, UiStep

\* The login, for the steps that touch neither connection nor heart thread.
LEMMA LoginTruthUi ==
  TypeOK /\ SessionInv /\ (PrepareToLink \/ QuitHeart \/ InitLib \/ UiStep)
    => LoginTruth' /\ BeatsOnlyLoggedIn'
<1> SUFFICES ASSUME TypeOK, SessionInv,
                    PrepareToLink \/ QuitHeart \/ InitLib \/ UiStep
             PROVE  LoginTruth' /\ BeatsOnlyLoggedIn'
  OBVIOUS
<1> USE DEF TypeOK, SessionInv, ThreadsInSession, LoginTruth, BeatsOnlyLoggedIn,
            InSession, HeartRuns, threads, flags, memory, net
<1>1. CASE PrepareToLink  BY <1>1 DEF PrepareToLink
<1>2. CASE LoginConnects  BY <1>2 DEF LoginConnects, Connected
<1>3. CASE LoginNoRoute   BY <1>3 DEF LoginNoRoute
<1>4. CASE LoginReads     BY <1>4, TailElements DEF LoginReads, Consume
<1>5. CASE LoginTimesOut  BY <1>5 DEF LoginTimesOut
<1>6. CASE LoginFails     BY <1>6 DEF LoginFails, Disonnect
<1>7. CASE StartRecv      BY <1>7 DEF StartRecv
<1>8. CASE StartHeart     BY <1>8 DEF StartHeart
<1>9. CASE QuitHeart      BY <1>9 DEF QuitHeart
<1>10. CASE WaitHeart     BY <1>10 DEF WaitHeart
<1>11. CASE WaitRecv      BY <1>11 DEF WaitRecv
<1>12. CASE Logout        BY <1>12 DEF Logout, Disonnect
<1>13. CASE DeleteLib     BY <1>13 DEF DeleteLib
<1>14. CASE InitLib       BY <1>14 DEF InitLib
<1> QED
  BY <1>1, <1>2, <1>3, <1>4, <1>5, <1>6, <1>7, <1>8, <1>9, <1>10, <1>11, <1>12,
     <1>13, <1>14 DEF UiStep

\* The heartbeat thread's steps keep what a login says.
LEMMA LoginTruthHeart ==
  TypeOK /\ SessionInv /\ HeartStep => LoginTruth' /\ BeatsOnlyLoggedIn'
<1> SUFFICES ASSUME TypeOK, SessionInv, HeartStep
             PROVE  LoginTruth' /\ BeatsOnlyLoggedIn'
  OBVIOUS
<1> USE DEF TypeOK, SessionInv, ThreadsInSession, LoginTruth, BeatsOnlyLoggedIn,
            InSession, HeartRuns, flags, memory, net, HeartKeeps
<1>1. CASE HeartQuits      BY <1>1 DEF HeartQuits
<1>2. CASE HeartSleeps     BY <1>2 DEF HeartSleeps
<1>3. CASE HeartDisonnects BY <1>3 DEF HeartDisonnects, Disonnect
<1>4. CASE HeartConnects   BY <1>4 DEF HeartConnects, Connected
<1>5. CASE HeartNoRoute    BY <1>5 DEF HeartNoRoute
<1>6. CASE HeartRegisters
  <2>1. inbox # <<>> /\ (Head(inbox) = "LoginOK" => auth)
    BY <1>6 DEF HeartRegisters, Consume
  <2>2. \A i \in DOMAIN inbox' : inbox'[i] = "LoginOK" => auth'
    BY <1>6, <2>1, TailElements DEF HeartRegisters, Consume
  <2>3. ~auth <=> ~auth' BY <1>6 DEF HeartRegisters, Consume
  <2>4. heart' \in {"linked", "beat"} => auth'
    BY <1>6, <2>1, <2>3 DEF HeartRegisters
  <2>5. ui' \in InSession /\ linkFlag' = 1 => auth'
    BY <1>6, <2>1, <2>3 DEF HeartRegisters
  <2>6. heart' \in {"reconnect", "register"} => linkFlag' = 0
    BY <1>6 DEF HeartRegisters, Response, LoginReply
  <2> QED BY <1>6, <2>2, <2>3, <2>4, <2>5, <2>6 DEF HeartRegisters, Consume
<1>7. CASE HeartRegisterTimesOut BY <1>7 DEF HeartRegisterTimesOut
<1>8. CASE HeartLinked     BY <1>8 DEF HeartLinked
<1>9. CASE HeartWakes      BY <1>9 DEF HeartWakes
<1>10. CASE HeartSends     BY <1>10 DEF HeartSends
<1>11. CASE HeartSendFails BY <1>11 DEF HeartSendFails, Miss
<1>12. CASE HeartAnswered  BY <1>12 DEF HeartAnswered
<1>13. CASE HeartTimesOut  BY <1>13 DEF HeartTimesOut, Miss
<1> QED
  BY <1>1, <1>2, <1>3, <1>4, <1>5, <1>6, <1>7, <1>8, <1>9, <1>10, <1>11, <1>12,
     <1>13 DEF HeartStep

\* The receive thread's steps keep what a login says.
LEMMA LoginTruthRecv ==
  TypeOK /\ SessionInv /\ RecvStep => LoginTruth' /\ BeatsOnlyLoggedIn'
<1> SUFFICES ASSUME TypeOK, SessionInv, RecvStep
             PROVE  LoginTruth' /\ BeatsOnlyLoggedIn'
  OBVIOUS
<1> USE DEF TypeOK, SessionInv, LoginTruth, BeatsOnlyLoggedIn, InSession,
            flags, memory, net, RecvKeeps
<1>1. CASE RecvReads BY <1>1, TailElements DEF RecvReads, Consume
<1>2. CASE RecvDropsLink BY <1>2 DEF RecvDropsLink
<1>3. CASE RecvQuits \/ RecvTop \/ RecvPeeks \/ RecvFails
  BY <1>3 DEF RecvQuits, RecvTop, RecvPeeks, RecvFails
<1> QED BY <1>1, <1>2, <1>3 DEF RecvStep

\* The server's steps and the loss of the connection keep what a login says.
LEMMA LoginTruthNet ==
  TypeOK /\ SessionInv /\ (ServerAnswers \/ ServerPushes \/ PeerLost)
    => LoginTruth' /\ BeatsOnlyLoggedIn'
<1> SUFFICES ASSUME TypeOK, SessionInv, ServerAnswers \/ ServerPushes \/ PeerLost
             PROVE  LoginTruth' /\ BeatsOnlyLoggedIn'
  OBVIOUS
<1> USE DEF TypeOK, SessionInv, LoginTruth, BeatsOnlyLoggedIn, InSession,
            threads, flags, memory
<1>1. CASE ServerAnswers
  <2>1. PICK r \in asked :
          /\ asked' = asked \ {r}
          /\ \/ r = "heart" /\ inbox' = Append(inbox, "Heart") /\ UNCHANGED auth
             \/ r # "heart" /\ inbox' = Append(inbox, "LoginOK") /\ auth' = TRUE
             \/ r # "heart" /\ inbox' = Append(inbox, "LoginNo") /\ UNCHANGED auth
    BY <1>1 DEF ServerAnswers
  <2>2. auth => auth' BY <2>1
  <2>3. \A i \in DOMAIN inbox' : inbox'[i] = "LoginOK" => auth'
    BY <2>1, <2>2
  <2>4. "heart" \in asked' => auth' BY <2>1, <2>2
  <2>5. UNCHANGED <<ui, heart, linkFlag, conn>> /\ conn = "up"
    BY <1>1 DEF ServerAnswers
  <2>6. heart # "reconnect" /\ ui \notin {"idle", "connect"} BY <2>5
  <2> QED BY <2>2, <2>3, <2>4, <2>5, <2>6
<1>2. CASE ServerPushes  BY <1>2 DEF ServerPushes
<1>3. CASE PeerLost      BY <1>3 DEF PeerLost
<1> QED BY <1>1, <1>2, <1>3

\* So every step keeps SessionInv.
LEMMA SessionStep == TypeOK /\ SessionInv /\ [Next]_vars => SessionInv'
<1>1. SessionInv /\ UNCHANGED vars => SessionInv'
  BY DEF SessionInv, ThreadsInSession, MemoryInSession, LoginTruth, BeatsOnlyLoggedIn,
     InSession, HeartRuns, RecvRuns, vars, threads, flags, memory, net
<1> QED
  BY <1>1, PlacesStep, LoginTruthUi, LoginTruthHeart, LoginTruthRecv, LoginTruthNet
  DEF SessionInv, Next

\* The session invariant holds for any bounds.
THEOREM SessionCorrect == Spec => []SessionInv
<1>1. Init => TypeOK /\ SessionInv BY TypeInit, SessionInit
<1>2. TypeOK /\ SessionInv /\ [Next]_vars => (TypeOK /\ SessionInv)'
  BY TypeStep, SessionStep
<1> QED BY <1>1, <1>2, PTL DEF Spec

\* No thread outlives the socket object or the instance it works on.
THEOREM MemorySafety == Spec => []NoUseAfterFree
<1>1. SessionInv => NoUseAfterFree
  BY DEF SessionInv, ThreadsInSession, MemoryInSession, InSession, NoUseAfterFree
<1> QED BY <1>1, SessionCorrect, PTL

\* A raised link flag means an accepted login on a connection that was made.
THEOREM FlagTruth == Spec => []LinkFlagTruth
<1>1. SessionInv => LinkFlagTruth
  BY DEF SessionInv, LoginTruth, InSession, LinkFlagTruth
<1> QED BY <1>1, SessionCorrect, PTL

\* A heartbeat is only ever on its way where a login was accepted.
THEOREM BeatTruth == Spec => []BeatsOnlyLoggedIn
<1>1. SessionInv => BeatsOnlyLoggedIn BY DEF SessionInv
<1> QED BY <1>1, SessionCorrect, PTL

\* What the run checks of every state holds for any bounds.
THEOREM LinkCorrect == Spec => []LinkInv
<1>1. TypeOK /\ SessionInv => LinkInv BY DEF LinkInv
<1> QED BY <1>1, TypeCorrect, SessionCorrect, PTL
=============================================================================
