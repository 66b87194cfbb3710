---------------------------- MODULE VideoSession ----------------------------
(***************************************************************************)
(* One playing camera: an instance of src/jni/VideoInstance.c and the      *)
(* calls of StartPlay and StopPlay that make and free it.                  *)
(*   ui     the thread in StartPlay or StopPlay;                           *)
(*   heart  Thread_MDUHeart: beats on the control connection to the media  *)
(*          server, notices its silence and rebuilds both connections;     *)
(*   recv   Thread_MduRealVideo: reads the data connection.                *)
(* They share m_bLinked, one flag per thread and the two descriptors.      *)
(***************************************************************************)
EXTENDS Integers

CONSTANTS
  KeepSleeps, \* sleeps of the heart without an answer that end the link:
              \* MDU_KEEP_CIRCUIT (15 s) in sleeps of 5 s
  Epoch,      \* the clock when the last data came, in reads of 500 ms
  IntMax,     \* INT_MAX in the same unit
  Limit,      \* reads without data that are too many (20: 10 s)
  MaxGlitch   \* bound: refusals, failures and losses

ASSUME VideoSessionAssumption ==
  /\ KeepSleeps \in Nat \ {0} /\ Epoch \in Nat /\ IntMax \in Nat /\ Limit \in Nat
  /\ MaxGlitch \in Nat

VARIABLES
  ui, heart, recv,     \* where each thread stands
  inst,                \* the VideoInstance_t: none, made, freed
  heartFlag, recvFlag, \* m_MduHeartThreadflag, m_RecvDataThreadflag
  bLinked,             \* m_bLinked
  ctl, data,           \* m_hTcpSocket, m_hTcpDataSocket
  invited,             \* the server sends the stream for this ctl
  silent,              \* sleeps of the heart since dwLastRecv
  idle,                \* reads of the receive thread since its dwLastRecv
  slow,                \* what may take longer than the 1.5 s QuitInstance waits for
                       \* each thread: "net" an exchange, "start" a thread's start
  glitches             \* how much of MaxGlitch is used up

flags == <<heartFlag, recvFlag>>
net   == <<ctl, data, invited>>
vars  == <<ui, heart, recv, inst, flags, bLinked, net, silent, idle, slow, glitches>>

\* Values of a thread flag: not started, left, running, asked to quit.
Off == 0    Left == 1    Running == 2    Quit == 10

\* A descriptor: -1, a new socket, one whose peer answers, one whose peer does not.
Link == {"none", "open", "up", "dead"}

Glitch   == glitches < MaxGlitch /\ glitches' = glitches + 1
NoGlitch == glitches' = glitches

Init ==
  /\ ui = "none" /\ heart = "none" /\ recv = "none" /\ inst = "none"
  /\ heartFlag = Off /\ recvFlag = Off /\ bLinked = FALSE
  /\ ctl = "none" /\ data = "none" /\ invited = FALSE
  /\ silent = 0 /\ idle = 0 /\ glitches = 0
  /\ slow \in SUBSET {"net", "start"}

-----------------------------------------------------------------------------
\* What the calls on the connections do.

\* m_connect_tcp fails only when nothing happens in time: of a refusal it never
\* looks at the SO_ERROR it asks for.
Connects ==
  \/ ctl' = "up" /\ NoGlitch
  \/ ctl' = "dead" /\ Glitch
Hangs    == "net" \in slow /\ Glitch

\* videoi_InviteMedia gets its 200; whether the data connection is made it does
\* not look at.
Accepted ==
  /\ ctl = "up"
  /\ invited' = TRUE /\ bLinked' = TRUE
  /\ \/ data' = "up" /\ NoGlitch
     \/ data' = "dead" /\ Glitch

\* Nothing could be sent, no answer came, or a refusal.
Refused ==
  \/ ctl = "dead" /\ NoGlitch
  \/ ctl = "up" /\ Glitch

-----------------------------------------------------------------------------
\* StartPlay.

UiCreates ==
  /\ ui = "none" /\ heart = "none" /\ recv = "none"
  /\ inst' = "made" /\ ctl' = "open" /\ data' = "open" /\ invited' = FALSE
  /\ heartFlag' = Off /\ recvFlag' = Off /\ bLinked' = FALSE
  /\ ui' = "route"
  /\ UNCHANGED <<heart, recv, silent, idle, glitches, slow>>

UiRoute ==
  /\ ui = "route"
  /\ \/ ui' = "connect" /\ NoGlitch
     \/ ui' = "failed" /\ Glitch
  /\ UNCHANGED <<heart, recv, inst, flags, bLinked, net, silent, idle, slow>>

UiConnects ==
  /\ ui = "connect"
  /\ \/ ui' = "invite" /\ Connects
     \/ ui' = "failed" /\ Hangs /\ UNCHANGED ctl
  /\ UNCHANGED <<heart, recv, inst, flags, bLinked, data, invited, silent, idle, slow>>

UiInvites ==
  /\ ui = "invite"
  /\ \/ ui' = "threads" /\ Accepted
     \/ ui' = "failed" /\ Refused /\ UNCHANGED <<bLinked, data, invited>>
  /\ UNCHANGED <<heart, recv, inst, flags, ctl, silent, idle, slow>>

UiStartsThreads ==
  /\ ui = "threads"
  /\ heart' = "new" /\ recv' = "new" /\ ui' = "playing"
  /\ UNCHANGED <<inst, flags, bLinked, net, silent, idle, glitches, slow>>

-----------------------------------------------------------------------------
\* StopPlay: BreakSession and CancelInvite (a BYE each), then QuitInstance.

\* It comes at any time, and at once when StartPlay has failed.  A thread that
\* was created has begun by then, unless starts are slow.
UiStops ==
  /\ ui \in {"playing", "failed"}
  /\ "start" \in slow \/ (heart # "new" /\ recv # "new")
  /\ invited' = FALSE
  /\ heartFlag' = IF heartFlag >= Running THEN Quit ELSE heartFlag
  /\ ui' = IF heartFlag >= Running THEN "quitHeart" ELSE "askRecv"
  /\ UNCHANGED <<heart, recv, inst, recvFlag, bLinked, ctl, data, silent, idle, glitches, slow>>

\* The heart has left, or 300 polls are over.  A heart in the middle of a
\* reconnection may take longer than they do.
UiHeartDone ==
  /\ ui = "quitHeart"
  /\ \/ heartFlag = Left \/ heart = "none"
     \/ "net" \in slow /\ heart \in {"route", "astray", "connect", "invite"}
  /\ heartFlag' = Off /\ ui' = "askRecv"
  /\ UNCHANGED <<heart, recv, inst, recvFlag, bLinked, net, silent, idle, glitches, slow>>

\* A mutant: the receive thread is asked to quit and not waited for.
UiAsksRecv_NoWait ==
  /\ ui = "askRecv"
  /\ recvFlag' = IF recvFlag >= Running THEN Quit ELSE recvFlag
  /\ ui' = "close"
  /\ UNCHANGED <<heart, recv, inst, heartFlag, bLinked, net, silent, idle, glitches, slow>>

UiAsksRecv ==
  /\ ui = "askRecv"
  /\ recvFlag' = IF recvFlag >= Running THEN Quit ELSE recvFlag
  /\ ui' = IF recvFlag >= Running THEN "quitRecv" ELSE "close"
  /\ UNCHANGED <<heart, recv, inst, heartFlag, bLinked, net, silent, idle, glitches, slow>>

\* A mutant: the wait has no end of its own.
UiRecvDone_Endless ==
  /\ ui = "quitRecv" /\ recvFlag = Left
  /\ recvFlag' = Off /\ ui' = "close"
  /\ UNCHANGED <<heart, recv, inst, heartFlag, bLinked, net, silent, idle, glitches, slow>>

\* recv(2) has no timeout of its own: a packet that comes only in part blocks.
UiRecvDone ==
  /\ ui = "quitRecv"
  /\ recvFlag = Left \/ recv \in {"none", "blocked"}
  /\ recvFlag' = Off /\ ui' = "close"
  /\ UNCHANGED <<heart, recv, inst, heartFlag, bLinked, net, silent, idle, glitches, slow>>

UiCloses ==
  /\ ui = "close"
  /\ ctl' = "none" /\ data' = "none" /\ inst' = "freed" /\ ui' = "none"
  /\ UNCHANGED <<heart, recv, flags, bLinked, invited, silent, idle, glitches, slow>>

-----------------------------------------------------------------------------
\* The heart thread.  (What a thread does with a freed instance is not modelled.)

HeartBegins ==
  /\ heart = "new" /\ inst = "made"
  /\ heartFlag' = Running /\ silent' = 0 /\ heart' = "sleep"
  /\ UNCHANGED <<ui, recv, inst, recvFlag, bLinked, net, idle, glitches, slow>>

HeartQuits ==
  /\ heart = "sleep" /\ heartFlag = Quit
  /\ heartFlag' = Left /\ heart' = "none"
  /\ UNCHANGED <<ui, recv, inst, recvFlag, bLinked, net, silent, idle, glitches, slow>>

\* Five seconds have passed.
HeartWakes == heart = "sleep" /\ heartFlag # Quit /\ inst = "made"

\* Both connections are broken off and replaced.  The receive thread's reads end
\* well within the sleep that went before, but for one that blocks.
HeartRebuilds ==
  /\ HeartWakes /\ ~bLinked /\ recv # "read"
  /\ silent' = 0 /\ ctl' = "open" /\ data' = "open" /\ invited' = FALSE
  /\ heart' = "route"
  /\ UNCHANGED <<ui, recv, inst, flags, bLinked, idle, glitches, slow>>

\* Too many sleeps without an answer.
Silence == silent + 1 >= KeepSleeps

\* A mutant: a silent server is reconnected to with the flag still up.
HeartGivesUp_FlagUp ==
  /\ HeartWakes /\ bLinked /\ Silence /\ recv # "read"
  /\ silent' = 0 /\ ctl' = "open" /\ data' = "open" /\ invited' = FALSE
  /\ heart' = "route"
  /\ UNCHANGED <<ui, recv, inst, flags, bLinked, idle, glitches, slow>>

HeartGivesUp ==
  /\ HeartWakes /\ bLinked /\ Silence
  /\ silent' = 0 /\ bLinked' = FALSE
  /\ UNCHANGED <<ui, heart, recv, inst, flags, net, idle, glitches, slow>>

\* A mutant: a heartbeat counts as answered when it is sent.
HeartBeats_Unheard ==
  /\ HeartWakes /\ bLinked /\ ~Silence
  /\ silent' = 0 /\ glitches' = glitches
  /\ UNCHANGED <<ui, heart, recv, inst, flags, bLinked, net, idle, slow>>

\* A heartbeat, and half a second for the answer.
HeartBeats ==
  /\ HeartWakes /\ bLinked /\ ~Silence
  /\ \/ ctl = "up" /\ silent' = 0 /\ NoGlitch
     \/ ctl = "up" /\ silent' = silent + 1 /\ Glitch
     \/ ctl # "up" /\ silent' = silent + 1 /\ NoGlitch
  /\ UNCHANGED <<ui, heart, recv, inst, flags, bLinked, net, idle, slow>>

\* voidei_Reconnect goes on without a route, to a wrong address.  dwLastRecv was
\* set before it: if the route is as long in coming as it may be, the silence is
\* all but complete when the link is there.
HeartRoute ==
  /\ heart = "route" /\ inst = "made"
  /\ \/ heart' = "connect" /\ UNCHANGED silent /\ NoGlitch
     \/ heart' = "connect" /\ silent' = KeepSleeps - 1 /\ "net" \in slow /\ Glitch
     \/ heart' = "astray" /\ UNCHANGED silent /\ Glitch
  /\ UNCHANGED <<ui, recv, inst, flags, bLinked, net, idle, slow>>

HeartConnects ==
  /\ heart \in {"connect", "astray"} /\ inst = "made"
  /\ \/ heart = "connect" /\ heart' = "invite" /\ Connects
     \/ heart = "astray" /\ heart' = "invite" /\ ctl' = "dead" /\ NoGlitch
     \/ heart' = "sleep" /\ Hangs /\ UNCHANGED ctl
  /\ UNCHANGED <<ui, recv, inst, flags, bLinked, data, invited, silent, idle, slow>>

HeartInvites ==
  /\ heart = "invite" /\ inst = "made"
  /\ \/ Accepted
     \/ Refused /\ UNCHANGED <<bLinked, data, invited>>
  /\ heart' = "sleep"
  /\ UNCHANGED <<ui, recv, inst, flags, ctl, silent, idle, slow>>

HeartStep ==
  \/ HeartBegins \/ HeartQuits \/ HeartRebuilds \/ HeartGivesUp \/ HeartBeats
  \/ HeartRoute \/ HeartConnects \/ HeartInvites

-----------------------------------------------------------------------------
\* The receive thread.

RecvBegins ==
  /\ recv = "new" /\ inst = "made"
  /\ recvFlag' = Running /\ idle' = 0 /\ recv' = "top"
  /\ UNCHANGED <<ui, heart, inst, heartFlag, bLinked, net, silent, glitches, slow>>

RecvQuits ==
  /\ recv = "top" /\ recvFlag = Quit
  /\ recvFlag' = Left /\ recv' = "none"
  /\ UNCHANGED <<ui, heart, inst, heartFlag, bLinked, net, silent, idle, glitches, slow>>

RecvTop ==
  /\ recv = "top" /\ recvFlag # Quit /\ inst = "made" /\ bLinked
  /\ recv' = "read"
  /\ UNCHANGED <<ui, heart, inst, flags, bLinked, net, silent, idle, glitches, slow>>

\* Without the link it only resets its clock.
RecvPauses ==
  /\ recv = "top" /\ recvFlag # Quit /\ inst = "made" /\ ~bLinked /\ idle # 0
  /\ idle' = 0
  /\ UNCHANGED <<ui, heart, recv, inst, flags, bLinked, net, silent, glitches, slow>>

RecvReads ==
  /\ recv = "read" /\ data = "up"
  /\ recv' = "top" /\ idle' = 0
  /\ UNCHANGED <<ui, heart, inst, flags, bLinked, net, silent, glitches, slow>>

RecvBlocks ==
  /\ recv = "read" /\ data = "up" /\ "net" \in slow /\ Glitch
  /\ recv' = "blocked" /\ data' = "dead"
  /\ UNCHANGED <<ui, heart, inst, flags, bLinked, ctl, invited, silent, idle, slow>>

\* curtime is an int and keeps the low 32 bits of the clock; dwLastRecv is wider.
IntOf(t) == ((t + IntMax + 1) % (2 * (IntMax + 1))) - (IntMax + 1)
TimedOut(reads) == IntOf(Epoch + reads) - Epoch > Limit

\* Nothing came in 500 ms, or the descriptor is of no use.
RecvFails ==
  /\ recv = "read" /\ data # "up"
  /\ bLinked' = (bLinked /\ ~TimedOut(idle + 1))
  /\ idle' = IF idle <= Limit THEN idle + 1 ELSE idle
  /\ recv' = "top"
  /\ UNCHANGED <<ui, heart, inst, flags, net, silent, glitches, slow>>

RecvStep ==
  \/ RecvBegins \/ RecvQuits \/ RecvTop \/ RecvPauses \/ RecvReads \/ RecvBlocks
  \/ RecvFails

-----------------------------------------------------------------------------
\* The network loses a connection; nobody is told.

CtlLost ==
  /\ ctl = "up" /\ Glitch /\ ctl' = "dead"
  /\ UNCHANGED <<ui, heart, recv, inst, flags, bLinked, data, invited, silent, idle, slow>>

DataLost ==
  /\ data = "up" /\ Glitch /\ data' = "dead"
  /\ UNCHANGED <<ui, heart, recv, inst, flags, bLinked, ctl, invited, silent, idle, slow>>

UiGoesOn ==
  \/ UiRoute \/ UiConnects \/ UiInvites \/ UiStartsThreads
  \/ UiHeartDone \/ UiAsksRecv \/ UiRecvDone \/ UiCloses

Next == UiCreates \/ UiStops \/ UiGoesOn \/ HeartStep \/ RecvStep \/ CtlLost \/ DataLost

Spec == Init /\ [][Next]_vars

\* The threads run; when to play and when to stop is the user's choice.
FairSpec == Spec /\ WF_vars(UiGoesOn) /\ WF_vars(HeartStep) /\ WF_vars(RecvStep)

-----------------------------------------------------------------------------
\* The types of the variables; the heart never counts more than KeepSleeps.
TypeOK ==
  /\ ui \in {"none", "route", "connect", "invite", "threads", "playing", "failed",
             "quitHeart", "askRecv", "quitRecv", "close"}
  /\ heart \in {"none", "new", "sleep", "route", "astray", "connect", "invite"}
  /\ recv \in {"none", "new", "top", "read", "blocked"}
  /\ inst \in {"none", "made", "freed"}
  /\ heartFlag \in {Off, Left, Running, Quit} /\ recvFlag \in {Off, Left, Running, Quit}
  /\ bLinked \in BOOLEAN /\ invited \in BOOLEAN
  /\ ctl \in Link /\ data \in Link
  /\ silent \in 0 .. KeepSleeps - 1 /\ idle \in 0 .. Limit + 1 /\ glitches \in 0 .. MaxGlitch
  /\ slow \subseteq {"net", "start"}

\* Unless something is slow no thread of the instance is left when StopPlay frees
\* it (videoi_QuitInstance).  A call that runs into CmdTimeOut is slow: without
\* "net" what fails fails at once, as on a connection that was reset.
NoUseAfterFree == slow = {} /\ inst # "made" => heart = "none" /\ recv = "none"

\* While the camera plays, a raised m_bLinked stands for an INVITE the server
\* accepted on the present control connection.
LinkedIsInvited == bLinked /\ ui \in {"threads", "playing"} => invited /\ ctl \in {"up", "dead"}

\* What holds in every state of a camera, fast or slow.
CameraInv == TypeOK /\ LinkedIsInvited

\* StopPlay returns, whatever the threads are blocked in.
StopCompletes == (ui = "quitHeart" \/ ui = "quitRecv") ~> ui = "none"

Playing == ui = "playing"

\* A control connection that died is replaced.
CtlRecovers == (Playing /\ ctl = "dead") ~> (~Playing \/ ctl = "up")

\* The receive thread's "timeout test" (VideoInstance.c:319): a data connection
\* that died is replaced.
DataRecovers == (Playing /\ data = "dead") ~> (~Playing \/ data = "up")
=============================================================================
