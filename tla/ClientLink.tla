----------------------------- MODULE ClientLink -----------------------------
(***************************************************************************)
(* The signalling link to the CMU server (src/jni/clientlink.c and the     *)
(* login and logout of src/jni/st_cuapi.c).  One library instance is       *)
(* shared by three threads:                                                *)
(*   ui     the Java thread that calls RequestLogin and RequestLogout;     *)
(*   heart  Thread_Client_Heart, which beats and rebuilds a lost link;     *)
(*   recv   Thread_Client_Recv, which reads the socket.                    *)
(* The threads talk through plain ints (m_bLinkFlag, m_heartpthreadflag,   *)
(* m_recvpthreadflag) and through the socket object m_TcpSocket.           *)
(***************************************************************************)
EXTENDS Naturals, Sequences

CONSTANTS
  MaxFails,   \* heartbeats that may fail in a row (3: "count > 3")
  Polls,      \* polls of the quit flag between two heartbeats (50)
  InboxCap,   \* bound: messages queued on the connection
  MaxGlitch   \* bound: slow answers, refusals and connection failures

ASSUME ClientLinkAssumption ==
  /\ MaxFails \in Nat /\ Polls \in Nat \ {0} /\ InboxCap \in Nat \ {0}
  /\ MaxGlitch \in Nat

VARIABLES
  ui, heart, recv,    \* where each thread stands
  linkFlag,           \* m_bLinkFlag
  heartFlag, recvFlag,\* m_heartpthreadflag, m_recvpthreadflag
  sock,               \* the tcpsocket_t m_TcpSocket points to
  lib,                \* the LIB_INSTANCE_PARA itself
  conn,               \* the descriptor m_hSocket and what it is connected to
  inbox,              \* what the server sent on conn and nobody has read
  asked,              \* what the server still has to answer on conn
  auth,               \* the server has accepted a login on conn
  answered,           \* ResponseList holds the answer to the last heartbeat
  fails, poll,        \* count and i of Thread_Client_Heart
  glitches            \* how much of MaxGlitch is used up

threads == <<ui, heart, recv>>
flags   == <<linkFlag, heartFlag, recvFlag>>
memory  == <<sock, lib>>
net     == <<conn, inbox, asked, auth>>
beats   == <<answered, fails, poll>>
vars    == <<threads, flags, memory, net, beats, glitches>>

\* Values of a thread flag: not started, left, running, asked to quit.
Off == 0    Left == 1    Running == 2    Quit == 10

LoginReply == {"LoginOK", "LoginNo"}
Response   == LoginReply \cup {"Heart", "Old"}   \* httpObject->type = RESP_TYPE
Message    == Response \cup {"Alarm"}

HeartRuns == heart \notin {"off", "gone"}
RecvRuns  == recv  \notin {"off", "gone"}

-----------------------------------------------------------------------------
\* What the calls on the socket do.

\* clientlinkDisonnect: a logout message, link flag down, descriptor closed.
Disonnect ==
  /\ linkFlag' = 0
  /\ conn' = "none" /\ inbox' = <<>> /\ asked' = {} /\ auth' = FALSE

\* m_connect and the login request of clientlinkRegisterServer.
Connected == conn' = "up" /\ asked' = {"login"} /\ inbox' = <<>> /\ auth' = FALSE

\* One recv_httppackage that finds a message.
Consume == inbox # <<>> /\ inbox' = Tail(inbox) /\ UNCHANGED <<conn, asked, auth>>

\* The network misbehaves, within the bound.
Glitch == glitches < MaxGlitch /\ glitches' = glitches + 1

\* The reply to request r can no longer reach the thread that reads inbox.
Hopeless(r, replies) ==
  \/ conn # "up"
  \/ r \notin asked /\ \A i \in DOMAIN inbox : inbox[i] \notin replies

\* A wait for the reply to r runs out: free when it is hopeless, else a glitch.
TimesOut(r, replies) == (Hopeless(r, replies) /\ UNCHANGED glitches) \/ Glitch

Init ==
  /\ ui = "idle" /\ heart = "off" /\ recv = "off"
  /\ linkFlag = 0 /\ heartFlag = Off /\ recvFlag = Off
  /\ sock = "null" /\ lib = "live"
  /\ conn = "none" /\ inbox = <<>> /\ asked = {} /\ auth = FALSE
  /\ answered = FALSE /\ fails = 0 /\ poll = 0
  /\ glitches = 0

-----------------------------------------------------------------------------
\* The Java thread: RequestLogin.

\* clientlinkPrepareToLink makes the socket object with an open descriptor.
PrepareToLink ==
  /\ ui = "idle" /\ linkFlag = 0
  /\ sock' = "live" /\ conn' = "open"
  /\ ui' = "connect"
  /\ UNCHANGED <<heart, recv, flags, lib, inbox, asked, auth, beats, glitches>>

\* m_connect succeeds: the link flag goes up before the login is accepted.
LoginConnects ==
  /\ ui = "connect"
  /\ Connected
  /\ linkFlag' = 1
  /\ ui' = "register"
  /\ UNCHANGED <<heart, recv, heartFlag, recvFlag, memory, beats, glitches>>

\* The server's name is not found (set_tcp_link, -3), and all stays as it is; or
\* m_connect fails: uninit_clientlink closes and frees the socket (-4).
LoginNoRoute ==
  /\ ui = "connect"
  /\ Glitch
  /\ \/ UNCHANGED <<sock, conn, heartFlag, recvFlag>>
     \/ /\ sock' = "freed" /\ conn' = "none"
        /\ heartFlag' = Off /\ recvFlag' = Off
  /\ ui' = "failed"
  /\ UNCHANGED <<heart, recv, linkFlag, lib, inbox, asked, auth, beats>>

\* clientlinkRegisterServer reads one message: it skips what is no response
\* and takes anything but an accepting login reply for a failure (-8 .. -16).
LoginReads ==
  /\ ui = "register"
  /\ Consume
  /\ ui' = CASE Head(inbox) = "LoginOK"    -> "startRecv"
             [] Head(inbox) \notin Response -> "register"
             [] OTHER                       -> "refused"
  /\ UNCHANGED <<heart, recv, flags, memory, beats, glitches>>

\* The read fails for lack of a message (-7), or other messages have used up
\* CmdTimeOut.  Then the code goes on to look for a result in the last of these,
\* which has none: taken as a refusal (an abstraction).
LoginTimesOut ==
  /\ ui = "register"
  /\ TimesOut("login", LoginReply)
  /\ ui' = "refused"
  /\ UNCHANGED <<heart, recv, flags, memory, net, beats>>

\* RequestLogin disconnects and frees the socket object.
LoginFails ==
  /\ ui = "refused"
  /\ Disonnect
  /\ sock' = "freed" /\ heartFlag' = Off /\ recvFlag' = Off
  /\ ui' = "failed"
  /\ UNCHANGED <<heart, recv, lib, beats, glitches>>

\* clientlinkStartThreads, first half.
StartRecv ==
  /\ ui = "startRecv"
  /\ recvFlag' = Running /\ recv' = "top"
  /\ ui' = "startHeart"
  /\ UNCHANGED <<heart, linkFlag, heartFlag, memory, net, beats, glitches>>

\* clientlinkStartThreads, second half; both threads are taken to be created.
StartHeart ==
  /\ ui = "startHeart"
  /\ heartFlag' = Running
  /\ heart' = "loop"
  /\ ui' = "in"
  /\ UNCHANGED <<recv, linkFlag, recvFlag, memory, net, beats, glitches>>

-----------------------------------------------------------------------------
\* The Java thread: RequestLogout, then DeleteLibInstance.

\* clientlinkQuitInstance asks the heart thread to leave ...
QuitHeart ==
  /\ ui = "in"
  /\ heartFlag' = IF heartFlag >= Running THEN Quit ELSE heartFlag
  /\ ui' = "waitHeart"
  /\ UNCHANGED <<heart, recv, linkFlag, recvFlag, memory, net, beats, glitches>>

\* A mutant: clientlinkQuitInstance does not wait for the heart thread.
HeartHasLeft_SkipsWait == TRUE

\* ... and spins until it has left.
HeartHasLeft == heartFlag < Running

WaitHeart ==
  /\ ui = "waitHeart" /\ HeartHasLeft
  /\ recvFlag' = IF recvFlag >= Running THEN Quit ELSE recvFlag
  /\ ui' = "waitRecv"
  /\ UNCHANGED <<heart, recv, linkFlag, heartFlag, memory, net, beats, glitches>>

\* The same for the receive thread.
RecvHasLeft == recvFlag < Running

WaitRecv ==
  /\ ui = "waitRecv" /\ RecvHasLeft
  /\ ui' = "leave"
  /\ UNCHANGED <<heart, recv, flags, memory, net, beats, glitches>>

\* The last disconnect; uninit_clientlink frees the socket object; the
\* response list is emptied.
Logout ==
  /\ ui = "leave"
  /\ Disonnect
  /\ sock' = "freed" /\ heartFlag' = Off /\ recvFlag' = Off
  /\ answered' = FALSE
  /\ ui' = "out"
  /\ UNCHANGED <<heart, recv, lib, fails, poll, glitches>>

DeleteLib ==
  /\ ui = "out"
  /\ lib' = "freed" /\ ui' = "gone"
  /\ UNCHANGED <<heart, recv, flags, sock, net, beats, glitches>>

\* The next login of the application makes a new instance.
InitLib ==
  /\ ui \in {"gone", "failed"}
  /\ ui' = "idle" /\ heart' = "off" /\ recv' = "off"
  /\ linkFlag' = 0 /\ heartFlag' = Off /\ recvFlag' = Off
  /\ sock' = "null" /\ lib' = "live"
  /\ conn' = "none" /\ inbox' = <<>> /\ asked' = {} /\ auth' = FALSE
  /\ answered' = FALSE /\ fails' = 0 /\ poll' = 0
  /\ UNCHANGED glitches

-----------------------------------------------------------------------------
\* Thread_Client_Heart.

HeartKeeps == <<ui, recv, recvFlag, memory>>

HeartQuits ==
  /\ heart = "loop" /\ heartFlag = Quit
  /\ heartFlag' = Left /\ heart' = "gone"
  /\ UNCHANGED <<ui, recv, linkFlag, recvFlag, memory, net, beats, glitches>>

\* A mutant: the link flag is not looked at on every poll.
HeartSleeps_AnyFlag ==
  /\ heart = "loop" /\ heartFlag # Quit
  /\ heart' = "slept"
  /\ UNCHANGED <<HeartKeeps, linkFlag, heartFlag, net, beats, glitches>>

HeartSleeps ==
  /\ heart = "loop" /\ heartFlag # Quit /\ linkFlag # 0
  /\ heart' = "slept"
  /\ UNCHANGED <<HeartKeeps, linkFlag, heartFlag, net, beats, glitches>>

\* The link flag is down: close what is left of the link.
HeartDisonnects ==
  /\ heart = "loop" /\ heartFlag # Quit /\ linkFlag = 0
  /\ Disonnect
  /\ heart' = "reconnect"
  /\ UNCHANGED <<HeartKeeps, heartFlag, beats, glitches>>

\* A mutant: the link counts as up as soon as the connection stands.
HeartConnects_FlagsEarly ==
  /\ heart = "reconnect"
  /\ Connected
  /\ linkFlag' = 1
  /\ heart' = "register"
  /\ UNCHANGED <<HeartKeeps, heartFlag, beats, glitches>>

\* clientlinkReconnect: socket, m_connect, login request.
HeartConnects ==
  /\ heart = "reconnect"
  /\ Connected
  /\ heart' = "register"
  /\ UNCHANGED <<HeartKeeps, linkFlag, heartFlag, beats, glitches>>

\* The name does not resolve (the descriptor stays open) or m_connect fails.
HeartNoRoute ==
  /\ heart = "reconnect"
  /\ Glitch
  /\ conn' \in {"none", "open"} /\ UNCHANGED <<inbox, asked, auth>>
  /\ heart' = "slept"
  /\ UNCHANGED <<HeartKeeps, linkFlag, heartFlag, beats>>

\* clientlinkRegisterServer in the heart thread.
HeartRegisters ==
  /\ heart = "register"
  /\ Consume
  /\ linkFlag' = IF Head(inbox) = "LoginOK" THEN 1 ELSE linkFlag
  /\ heart' = CASE Head(inbox) = "LoginOK"    -> "linked"
                [] Head(inbox) \notin Response -> "register"
                [] OTHER                       -> "slept"
  /\ UNCHANGED <<HeartKeeps, heartFlag, beats, glitches>>

HeartRegisterTimesOut ==
  /\ heart = "register"
  /\ TimesOut("login", LoginReply)
  /\ heart' = "slept"
  /\ UNCHANGED <<HeartKeeps, linkFlag, heartFlag, net, beats>>

\* The thread raises the flag once more; "count" is not reset here.
HeartLinked ==
  /\ heart = "linked"
  /\ linkFlag' = 1
  /\ heart' = "slept"
  /\ UNCHANGED <<HeartKeeps, heartFlag, net, beats, glitches>>

\* After the sleep: the next poll, or after the last one the heartbeat.
HeartWakes ==
  /\ heart = "slept"
  /\ IF poll + 1 < Polls
       THEN poll' = poll + 1 /\ heart' = "loop"
       ELSE poll' = 0 /\ heart' = IF linkFlag = 1 THEN "beat" ELSE "loop"
  /\ UNCHANGED <<HeartKeeps, linkFlag, heartFlag, net, answered, fails, glitches>>

\* clientlinkSendHeart sends with a new sequence number: an answer to an
\* earlier heartbeat is now one that nobody waits for.
HeartSends ==
  /\ heart = "beat" /\ conn # "none"
  /\ asked' = IF conn = "up" THEN {"heart"} ELSE {}
  /\ inbox' = [i \in DOMAIN inbox |-> IF inbox[i] = "Heart" THEN "Old" ELSE inbox[i]]
  /\ answered' = FALSE
  /\ heart' = "await"
  /\ UNCHANGED <<HeartKeeps, linkFlag, heartFlag, conn, auth, fails, poll, glitches>>

\* "count > 3".
TooMany(n) == n > MaxFails

\* A mutant: too many failures reset the counter but leave the flag up.
Miss_FlagStays ==
  /\ fails' = IF TooMany(fails + 1) THEN 0 ELSE fails + 1
  /\ heart' = "loop" /\ UNCHANGED linkFlag

\* One more heartbeat failed; too many in a row take the link down.
Miss ==
  /\ fails'    = IF TooMany(fails + 1) THEN 0 ELSE fails + 1
  /\ linkFlag' = IF TooMany(fails + 1) THEN 0 ELSE linkFlag
  /\ heart' = "loop"

HeartSendFails ==
  /\ heart = "beat" /\ conn # "up"
  /\ Miss
  /\ UNCHANGED <<HeartKeeps, heartFlag, net, answered, poll, glitches>>

\* WaitForResponse finds the answer.
HeartAnswered ==
  /\ heart = "await" /\ answered
  /\ answered' = FALSE /\ fails' = 0
  /\ heart' = "loop"
  /\ UNCHANGED <<HeartKeeps, linkFlag, heartFlag, net, poll, glitches>>

HeartTimesOut ==
  /\ heart = "await" /\ ~answered
  /\ \/ TimesOut("heart", {"Heart"})
     \/ linkFlag = 0 /\ UNCHANGED glitches   \* the receive thread does not read
  /\ Miss
  /\ UNCHANGED <<HeartKeeps, heartFlag, net, answered, poll>>

HeartStep ==
  \/ HeartQuits \/ HeartSleeps \/ HeartDisonnects \/ HeartConnects
  \/ HeartNoRoute \/ HeartRegisters \/ HeartRegisterTimesOut \/ HeartLinked
  \/ HeartWakes \/ HeartSends \/ HeartSendFails \/ HeartAnswered \/ HeartTimesOut

-----------------------------------------------------------------------------
\* Thread_Client_Recv.  Nothing keeps linkFlag and conn from changing between
\* the test at the top of its loop and its reads.

RecvKeeps == <<ui, heart, heartFlag, memory>>

RecvQuits ==
  /\ recv = "top" /\ recvFlag = Quit
  /\ recvFlag' = Left /\ recv' = "gone"
  /\ UNCHANGED <<RecvKeeps, linkFlag, net, beats, glitches>>

\* A mutant: the thread reads on although it was asked to quit.
RecvTop_ReadsOn ==
  /\ recv = "top" /\ linkFlag # 0
  /\ recv' = "peek"
  /\ UNCHANGED <<RecvKeeps, flags, net, beats, glitches>>

RecvTop ==
  /\ recv = "top" /\ recvFlag # Quit /\ linkFlag # 0
  /\ recv' = "peek"
  /\ UNCHANGED <<RecvKeeps, flags, net, beats, glitches>>

\* test_recvbuf: a byte to read, or a timeout, an error or the end of the
\* stream, after which "if (m_bLinkFlag != 1) m_bLinkFlag = 0" changes nothing.
RecvPeeks ==
  /\ recv = "peek"
  /\ recv' = IF inbox # <<>> THEN "read" ELSE "top"
  /\ UNCHANGED <<RecvKeeps, flags, net, beats, glitches>>

\* recv_httppackage and clientlinkProcessRecvData: a response goes into
\* ResponseList, anything else is handled on the spot.
RecvReads ==
  /\ recv = "read"
  /\ Consume
  /\ answered' = (answered \/ Head(inbox) = "Heart")
  /\ recv' = "top"
  /\ UNCHANGED <<RecvKeeps, flags, fails, poll, glitches>>

\* What was peeked at is gone: the call fails, and errno decides whether the
\* failure counts (it may be left over from an earlier call).
RecvFails ==
  /\ recv = "read" /\ inbox = <<>>
  /\ recv' \in IF conn = "none" THEN {"error"} ELSE {"error", "top"}
  /\ UNCHANGED <<RecvKeeps, flags, net, beats, glitches>>

RecvDropsLink ==
  /\ recv = "error"
  /\ linkFlag' = 0 /\ recv' = "top"
  /\ UNCHANGED <<RecvKeeps, recvFlag, net, beats, glitches>>

RecvStep == RecvQuits \/ RecvTop \/ RecvPeeks \/ RecvReads \/ RecvFails \/ RecvDropsLink

-----------------------------------------------------------------------------
\* The CMU server and the network (external).

ServerAnswers ==
  /\ conn = "up" /\ Len(inbox) < InboxCap
  /\ \E r \in asked :
       /\ asked' = asked \ {r}
       /\ IF r = "heart"
            THEN inbox' = Append(inbox, "Heart") /\ UNCHANGED <<auth, glitches>>
            ELSE \/ inbox' = Append(inbox, "LoginOK") /\ auth' = TRUE /\ UNCHANGED glitches
                 \/ inbox' = Append(inbox, "LoginNo") /\ UNCHANGED auth /\ Glitch
  /\ UNCHANGED <<threads, flags, memory, conn, beats>>

ServerPushes ==
  /\ conn = "up" /\ Len(inbox) + 1 < InboxCap
  /\ inbox' = Append(inbox, "Alarm")
  /\ UNCHANGED <<threads, flags, memory, conn, asked, auth, beats, glitches>>

\* The peer closes or vanishes; what had arrived may still be read.
PeerLost ==
  /\ conn = "up" /\ Glitch
  /\ conn' = "down" /\ asked' = {} /\ inbox' \in {inbox, <<>>}
  /\ UNCHANGED <<threads, flags, memory, auth, beats>>

-----------------------------------------------------------------------------
UiStep ==
  \/ LoginConnects \/ LoginNoRoute \/ LoginReads \/ LoginTimesOut \/ LoginFails
  \/ StartRecv \/ StartHeart \/ WaitHeart \/ WaitRecv \/ Logout \/ DeleteLib

Next ==
  \/ PrepareToLink \/ QuitHeart \/ InitLib \/ UiStep
  \/ HeartStep \/ RecvStep
  \/ ServerAnswers \/ ServerPushes \/ PeerLost

Spec == Init /\ [][Next]_vars

\* Each thread is scheduled again and again and a live server answers; the
\* time limit of clientlinkRegisterServer ends its loop whatever the server
\* pushes meanwhile.  Nobody promises that a user logs in or out.
FairSpec ==
  /\ Spec
  /\ WF_vars(UiStep) /\ WF_vars(HeartStep) /\ WF_vars(RecvStep)
  /\ WF_vars(LoginTimesOut) /\ WF_vars(HeartRegisterTimesOut)
  /\ WF_vars(ServerAnswers)

-----------------------------------------------------------------------------
\* The types of the variables.
TypeOK ==
  /\ ui \in {"idle", "connect", "register", "refused", "failed", "startRecv",
             "startHeart", "in", "waitHeart", "waitRecv", "leave", "out", "gone"}
  /\ heart \in {"off", "loop", "slept", "reconnect", "register", "linked",
                "beat", "await", "gone"}
  /\ recv \in {"off", "top", "peek", "read", "error", "gone"}
  /\ linkFlag \in {0, 1}
  /\ heartFlag \in {Off, Left, Running, Quit} /\ recvFlag \in {Off, Left, Running, Quit}
  /\ sock \in {"null", "live", "freed"} /\ lib \in {"live", "freed"}
  /\ conn \in {"none", "open", "up", "down"}
  /\ inbox \in Seq(Message) /\ asked \subseteq {"login", "heart"}
  /\ auth \in BOOLEAN /\ answered \in BOOLEAN
  /\ fails \in 0 .. MaxFails /\ poll \in 0 .. Polls - 1
  /\ glitches \in 0 .. MaxGlitch

\* A thread that runs finds the socket object and the instance it works on
\* alive: RequestLogout and DeleteLibInstance free them only when both threads
\* have left (clientlinkQuitInstance, uninit_clientlink).
NoUseAfterFree == HeartRuns \/ RecvRuns => sock = "live" /\ lib = "live"

\* While the session runs, a raised m_bLinkFlag means a descriptor on which
\* the server has accepted a login: nobody beats or reads on a link that is
\* still being rebuilt, although two threads write the flag without a lock.
LinkFlagTruth == ui = "in" /\ linkFlag = 1 => auth /\ conn \in {"up", "down"}

\* A heartbeat goes out only on a connection whose login was accepted, and the
\* heart thread never beats while its own reconnect is under way.
BeatsOnlyLoggedIn == "heart" \in asked => auth

\* What these three rest on.  From the accepted login to the last disconnect
\* the user stands at one of these places ...
InSession == {"startRecv", "startHeart", "in", "waitHeart", "waitRecv", "leave"}

\* ... the two threads run only there and only while their flag says so ...
ThreadsInSession ==
  /\ HeartRuns => ui \in {"in", "waitHeart"} /\ heartFlag \in {Running, Quit}
  /\ RecvRuns  => /\ ui \in {"startHeart", "in", "waitHeart", "waitRecv"}
                  /\ recvFlag \in {Running, Quit}

\* ... the objects they use are there ...
MemoryInSession ==
  /\ ui \in InSession \cup {"connect", "register", "refused"} => sock = "live"
  /\ ui # "gone" => lib = "live"

\* ... and the heart thread is the only one that replaces the connection.
LoginTruth ==
  /\ auth => conn \in {"up", "down"}
  /\ ui \in {"idle", "connect"} \/ heart = "reconnect" => ~auth /\ conn # "up"
  /\ \A i \in DOMAIN inbox : inbox[i] = "LoginOK" => auth
  /\ heart \in {"reconnect", "register"} => linkFlag = 0
  /\ heart \in {"linked", "beat"} => auth
  /\ ui \in InSession /\ linkFlag = 1 => auth

\* The inductive invariant: whoever raises the link flag, beats or frees the
\* socket object does so at a place where the session allows it.
SessionInv ==
  ThreadsInSession /\ MemoryInSession /\ LoginTruth /\ BeatsOnlyLoggedIn

\* What holds in every state of a link.
LinkInv == TypeOK /\ SessionInv

\* RequestLogout gets through once it has begun: both threads notice the quit
\* request from wherever they are.
LogoutCompletes == (ui = "waitHeart") ~> (ui = "gone")

\* A link that is down comes up again as long as the user stays logged in.
LinkRecovers == (ui = "in" /\ linkFlag = 0) ~> (linkFlag = 1 \/ ui # "in")

\* A peer that is gone is noticed: by the heartbeat, since test_recvbuf drops
\* the end of the stream.
DeadPeerNoticed == (ui = "in" /\ conn = "down") ~> (conn # "down" \/ ui # "in")
=============================================================================
