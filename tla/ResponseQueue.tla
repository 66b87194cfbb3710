--------------------------- MODULE ResponseQueue ---------------------------
(***************************************************************************)
(* Requests to the CMU server over the one signalling link, and the list   *)
(* (ResponseList) by which their answers come back: a thread sends a       *)
(* request that carries a command and a number made of the time of day,    *)
(* the receive thread puts every answer into the list, and the thread      *)
(* looks for the answer with its command and number (WaitForResponse in    *)
(* src/jni/netglobal.c).                                                   *)
(***************************************************************************)
EXTENDS Naturals, Sequences, FiniteSets

CONSTANTS
  Threads,     \* the threads that send requests
  Cmds,        \* the commands
  CmdOf,       \* the command each thread sends
  Day,         \* values of the number: the milliseconds of a day
  Keep,        \* age at which an answer is thrown away (3 s)
  Wait,        \* how long a thread waits (CmdTimeOut, 10 s)
  MaxRequests, \* bound: requests made
  MaxTime,     \* bound: the clock
  Crowded      \* TRUE: threads may make a request at the same moment

ASSUME ResponseQueueAssumption ==
  /\ CmdOf \in [Threads -> Cmds] /\ Crowded \in BOOLEAN
  /\ Day \in Nat \ {0} /\ Keep \in Nat \ {0} /\ Wait \in Nat
  /\ MaxRequests \in Nat /\ MaxTime \in Nat
  \* An answer that nobody wants is thrown away, and a request given up, long
  \* before its number comes again.
  /\ Keep + Wait < Day

VARIABLES
  now,      \* the clock
  call,     \* the request each thread is busy with
  ResponseList, \* the answers nobody has taken, the newest first
  asked,    \* requests the server has not answered
  requests, \* requests made so far
  taken     \* ghost: the requests whose answers were taken

queueVars == <<now, call, ResponseList, asked, requests, taken>>

Idle == [st |-> "idle", id |-> 0]

\* An id tells requests apart that the program cannot tell apart.
Request == [id : Nat, cmd : Cmds, seq : Nat, at : Nat]

QueueInit ==
  /\ now = 0 /\ call = [t \in Threads |-> Idle]
  /\ ResponseList = <<>> /\ asked = {} /\ requests = 0 /\ taken = {}

-----------------------------------------------------------------------------
CreateSeqByTime == now % Day

\* Is another request with this command and number under way?
SameMoment(cmd) ==
  \E u \in Threads : call[u].st # "idle" /\ CmdOf[u] = cmd /\ call[u].seq = CreateSeqByTime

\* Each command makes its number like this but for GetDeviceList, whose rand() is
\* seeded by the second: it has one caller, and two of its numbers agree within a
\* day only by accident, which is left out.
Sends(t) ==
  /\ call[t].st = "idle" /\ requests < MaxRequests
  /\ Crowded \/ ~SameMoment(CmdOf[t])
  /\ requests' = requests + 1
  /\ call' = [call EXCEPT ![t] = [st |-> "sent", id |-> requests + 1,
                                  seq |-> CreateSeqByTime, at |-> now]]
  /\ asked' = asked \cup {[id |-> requests + 1, cmd |-> CmdOf[t],
                           seq |-> CreateSeqByTime, at |-> now]}
  /\ UNCHANGED <<now, ResponseList, taken>>

\* IsElementTimeOut
Old(answer) == now - answer.at >= Keep
Young == {i \in DOMAIN ResponseList : ~Old(ResponseList[i])}

\* A mutant: nothing is thrown away.
StartsToWait_Hoards(t) ==
  /\ call[t].st = "sent"
  /\ call' = [call EXCEPT ![t] = [@ EXCEPT !.st = "waits", !.at = now]]
  /\ UNCHANGED <<now, asked, requests, taken, ResponseList>>

\* WaitForResponse first throws away what is old, whoever it is for; what is not old
\* stays in its order.
StartsToWait(t) ==
  /\ call[t].st = "sent"
  /\ \E place \in [1 .. Cardinality(Young) -> Young] :
       /\ \A i, j \in DOMAIN place : i < j => place[i] < place[j]
       /\ ResponseList' = [i \in DOMAIN place |-> ResponseList[place[i]]]
  /\ call' = [call EXCEPT ![t] = [@ EXCEPT !.st = "waits", !.at = now]]
  /\ UNCHANGED <<now, asked, requests, taken>>

\* The first answer in the list with the command and the number of the request.
IsFor(answer, t) == answer.cmd = CmdOf[t] /\ answer.seq = call[t].seq
FirstFor(i, t) ==
  /\ IsFor(ResponseList[i], t)
  /\ \A j \in 1 .. i - 1 : ~IsFor(ResponseList[j], t)

Without(i) ==
  SubSeq(ResponseList, 1, i - 1) \o SubSeq(ResponseList, i + 1, Len(ResponseList))

\* A mutant: the command alone decides.
Takes_AnyNumber(t) ==
  /\ call[t].st = "waits"
  /\ \E i \in DOMAIN ResponseList :
       /\ ResponseList[i].cmd = CmdOf[t]
       /\ ResponseList' = Without(i)
       /\ taken' = taken \cup {ResponseList[i].id}
  /\ call' = [call EXCEPT ![t] = Idle]
  /\ UNCHANGED <<now, asked, requests>>

\* The branch for elements that are no responses matches by command alone, but no
\* caller waits for a command that clientlinkProcessRecvData enters as such (the
\* five of its list): these only lie in the list until they are old.
Takes(t) ==
  /\ call[t].st = "waits"
  /\ \E i \in DOMAIN ResponseList :
       /\ FirstFor(i, t)
       /\ ResponseList' = Without(i)
       /\ taken' = taken \cup {ResponseList[i].id}
  /\ call' = [call EXCEPT ![t] = Idle]
  /\ UNCHANGED <<now, asked, requests>>

\* The time is tested before the list is looked at once more.
TimesOut(t) ==
  /\ call[t].st = "waits" /\ now - call[t].at > Wait
  /\ call' = [call EXCEPT ![t] = Idle]
  /\ UNCHANGED <<now, ResponseList, asked, requests, taken>>

\* The server answers in any order, as late as it likes on the same day; the
\* receive thread puts the answer, with its time, at the front of the list.
ServerAnswers ==
  \E r \in asked :
    /\ asked' = asked \ {r}
    /\ now - r.at < Day - Keep
    /\ ResponseList' = <<[r EXCEPT !.at = now]>> \o ResponseList
    /\ UNCHANGED <<now, call, requests, taken>>

ServerForgets ==
  \E r \in asked : asked' = asked \ {r} /\ UNCHANGED <<now, call, ResponseList, requests, taken>>

\* Time goes on.  A waiting thread looks and tests the time far more often, and
\* begins to wait as soon as it has sent.
Tick ==
  /\ now < MaxTime /\ now' = now + 1
  /\ \A t \in Threads : /\ call[t].st # "sent"
                        /\ call[t].st = "waits" => now - call[t].at <= Wait
  /\ UNCHANGED <<call, ResponseList, asked, requests, taken>>

ThreadStep(t) == Sends(t) \/ StartsToWait(t) \/ Takes(t) \/ TimesOut(t)

QueueNext == (\E t \in Threads : ThreadStep(t)) \/ ServerAnswers \/ ServerForgets \/ Tick

QueueSpec == QueueInit /\ [][QueueNext]_queueVars

-----------------------------------------------------------------------------
\* The types of the variables.
Busy == [st : {"sent", "waits"}, id : Nat, seq : Nat, at : Nat]
QueueTypeOK ==
  /\ now \in Nat /\ requests \in Nat /\ taken \subseteq Nat
  /\ call \in [Threads -> {Idle} \cup Busy]
  /\ ResponseList \in Seq(Request) /\ asked \subseteq Request

\* Of the answers that wait in the list, at most one can be for a given thread:
\* a leftover with the number of a request under way is gone before that request
\* looks at the list.
OneAnswerEach ==
  \A t \in Threads, i, j \in DOMAIN ResponseList :
    call[t].st = "waits" /\ IsFor(ResponseList[i], t) /\ IsFor(ResponseList[j], t) => i = j

\* What it rests on.  A request is under way for as long as its thread waits, and
\* when a thread begins to wait the list has nothing older than Keep ...
InTime ==
  \A t \in Threads : call[t].st # "idle" =>
    /\ call[t].seq = call[t].at % Day /\ call[t].at <= now /\ now <= call[t].at + Wait + 1
    /\ call[t].st = "sent" => call[t].at = now
    /\ call[t].st = "waits" =>
         \A i \in DOMAIN ResponseList : call[t].at < ResponseList[i].at + Keep

\* ... a request, or its answer, that was sent at s is the one of the thread that has
\* this command and the same time, which has not gone away before the clock goes on ...
Traced(x, s) ==
  /\ x.seq = s % Day
  /\ \A t \in Threads : call[t].st # "idle" =>
       (call[t].id = x.id <=> CmdOf[t] = x.cmd /\ call[t].at = s)
  /\ s = now => \E t \in Threads : call[t].st # "idle" /\ call[t].id = x.id
AnswerTraced(x) ==
  x.at <= now /\ \E s \in 0 .. x.at : x.at - s < Day - Keep /\ Traced(x, s)
AllTraced ==
  /\ \A r \in asked : r.at <= now /\ Traced(r, r.at)
  /\ \A i \in DOMAIN ResponseList : AnswerTraced(ResponseList[i])

\* ... and no request is counted twice.
Known == 1 .. requests
CallsOnce ==
  \A t \in Threads : call[t].st # "idle" =>
    call[t].id \in Known \ taken /\ \A u \in Threads : call[u].id = call[t].id => u = t
AskedOnce ==
  \A r \in asked :
    r.id \in Known \ taken /\ \A q \in asked : q.id = r.id => q = r
AnswerOnce(x) == x.id \in Known \ taken /\ \A r \in asked : r.id # x.id
AnswersApart ==
  \A i, j \in DOMAIN ResponseList : ResponseList[i].id = ResponseList[j].id => i = j
AnswersOnce == AnswersApart /\ \A i \in DOMAIN ResponseList : AnswerOnce(ResponseList[i])
TakenKnown == taken \subseteq Known
EachOnce == CallsOnce /\ AskedOnce /\ AnswersOnce /\ TakenKnown

\* What holds in every state of the list.
QueueInv == QueueTypeOK /\ OneAnswerEach /\ InTime /\ AllTraced /\ EachOnce

\* Every thread gets the answer to its own request (Exchange).
Exch == INSTANCE Exchange WITH asking <- [t \in Threads |-> call[t].id]
IsExchange == Exch!Spec
=============================================================================
