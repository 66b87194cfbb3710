---------------------------- MODULE Received_proofs ----------------------------
(***************************************************************************)
(* What the receive thread of the CMU link hands to the other threads: the *)
(* answers to their requests (ResponseQueue) and the alarms (AlarmTable).  *)
(*                                                                         *)
(* Answers.  While no two threads make a like request in one millisecond,  *)
(* ResponseQueue implements Exchange, for any number of threads, commands  *)
(* and requests and any times that keep Keep + Wait below a day.  The      *)
(* invariant traces every request and every answer to the moment s at      *)
(* which the request was sent: whoever is busy with it has its command and *)
(* sent at s (AllTraced), and a thread that waits has begun less than Keep *)
(* after anything in the list came (InTime).  So an answer with the        *)
(* command and the number of a waiting thread was asked for less than a    *)
(* day from when that thread asked, hence at the same moment, hence it is  *)
(* that thread's (OwnAnswer).                                              *)
(*                                                                         *)
(* Alarms.  AlarmInv is an invariant of AlarmTable, for any number of      *)
(* devices, entries, lines and reconnections.  What makes ReadsClaimed     *)
(* hold is that before the first reconnection the claimed entries are      *)
(* those below g_alarm_count, and what makes EntriesOwn hold that a device *)
(* takes the first free entry after it has passed all that are claimed.    *)
(***************************************************************************)
EXTENDS AlarmTable, ResponseQueue, Integers, FiniteSetTheorems, SequenceTheorems, TLAPS

\* Two times less than a day apart with the same number are the same.
LEMMA MultipleApart ==
  ASSUME NEW d \in Nat, d > 0, NEW s \in Nat, NEW u \in Nat, s % d = u % d
  PROVE  \E q \in Int : s - u = d * q
OBVIOUS

\* Numbers less than d apart with the same remainder are the same.
LEMMA SameResidue ==
  ASSUME NEW d \in Nat, d > 0, NEW s \in Nat, NEW u \in Nat, s % d = u % d, s < u + d, u < s + d
  PROVE  s = u
<1>1. PICK q \in Int : s - u = d * q
  BY MultipleApart
<1>2. ~ (q >= 1)
  BY <1>1
<1>3. ~ (q <= -1)
  BY <1>1
<1>4. q = 0
  BY <1>2, <1>3
<1> QED BY <1>1, <1>4

\* The number a request gets is a number.
LEMMA NumberType == ASSUME NEW n \in Nat PROVE n % Day \in Nat
BY ResponseQueueAssumption

\* What the invariant says of a list, as a whole.
AnswersInv == QueueTypeOK /\ InTime /\ AllTraced /\ EachOnce

\* An answer that a waiting thread takes for its own is its own.
LEMMA OwnAnswer ==
  ASSUME AnswersInv, NEW t \in Threads, call[t].st = "waits",
         NEW i \in DOMAIN ResponseList, IsFor(ResponseList[i], t)
  PROVE  ResponseList[i].id = call[t].id
<1> DEFINE x == ResponseList[i]
<1>1. x \in Request
  BY DEF AnswersInv, QueueTypeOK
<1>2. x.at \in Nat /\ call[t] \in Busy
  BY <1>1 DEF Request, AnswersInv, QueueTypeOK, Idle
<1>3. PICK s \in 0 .. x.at : x.at - s < Day - Keep /\ Traced(x, s)
  BY DEF AnswersInv, AllTraced, AnswerTraced
<1>4. /\ x.at <= now /\ now <= call[t].at + Wait + 1 /\ call[t].at < x.at + Keep
      /\ call[t].at \in Nat /\ now \in Nat /\ call[t].seq = call[t].at % Day
  BY <1>2 DEF AnswersInv, AllTraced, AnswerTraced, InTime, Busy, QueueTypeOK
<1>5. s % Day = call[t].at % Day
  BY <1>3, <1>4 DEF Traced, IsFor
<1>6. s \in Nat /\ s < call[t].at + Day /\ call[t].at < s + Day
  BY <1>2, <1>3, <1>4, ResponseQueueAssumption
<1>7. s = call[t].at
  <2>1. Day \in Nat /\ Day > 0 /\ call[t].at \in Nat
    BY <1>4, ResponseQueueAssumption
  <2> QED BY <1>5, <1>6, <2>1, SameResidue
<1> QED BY <1>3, <1>7 DEF Traced, IsFor

\* As every answer in the list is the thread's own, and each is asked for once, a
\* waiting thread has at most one.
LEMMA OneForEach == AnswersInv => OneAnswerEach
<1> SUFFICES ASSUME AnswersInv, NEW t \in Threads, NEW i \in DOMAIN ResponseList, NEW j \in DOMAIN ResponseList,
                    call[t].st = "waits", IsFor(ResponseList[i], t), IsFor(ResponseList[j], t)
             PROVE  i = j
  BY DEF OneAnswerEach
<1>1. ResponseList[i].id = ResponseList[j].id
  BY OwnAnswer
<1> QED BY <1>1 DEF AnswersInv, EachOnce, AnswersOnce, AnswersApart

-----------------------------------------------------------------------------
\* The list after a step has nothing but what it had before, each once.
Thinned ==
  \E place \in [DOMAIN ResponseList' -> DOMAIN ResponseList] :
    /\ \A i, j \in DOMAIN ResponseList' : place[i] = place[j] => i = j
    /\ \A i \in DOMAIN ResponseList' : ResponseList'[i] = ResponseList[place[i]]

\* What throws away old answers only thins the list, to those that are not old.
LEMMA PurgeThins ==
  ASSUME QueueTypeOK, NEW t \in Threads, StartsToWait(t)
  PROVE  /\ Thinned /\ ResponseList' \in Seq(Request)
         /\ \A i \in DOMAIN ResponseList' : ~Old(ResponseList'[i])
<1>1. PICK place \in [1 .. Cardinality(Young) -> Young] :
        /\ \A i, j \in DOMAIN place : i < j => place[i] < place[j]
        /\ ResponseList' = [i \in DOMAIN place |-> ResponseList[place[i]]]
  BY DEF StartsToWait
<1>2. ResponseList \in Seq(Request) /\ DOMAIN ResponseList = 1 .. Len(ResponseList) /\ Len(ResponseList) \in Nat
  BY DEF QueueTypeOK
<1>3. Young \subseteq DOMAIN ResponseList /\ IsFiniteSet(Young) /\ Cardinality(Young) \in Nat
  <2>1. Young \subseteq 1 .. Len(ResponseList)
    BY <1>2 DEF Young
  <2>2. IsFiniteSet(1 .. Len(ResponseList))
    BY <1>2, FS_Interval
  <2> QED BY <1>2, <2>1, <2>2, FS_Subset, FS_CardinalityType
<1>4. DOMAIN ResponseList' = 1 .. Cardinality(Young) /\ DOMAIN place = 1 .. Cardinality(Young)
  BY <1>1
<1>5. \A i \in DOMAIN ResponseList' : ResponseList'[i] = ResponseList[place[i]] /\ place[i] \in Young
  BY <1>1, <1>4
<1>6. ResponseList' \in Seq(Request)
  <2>1. \A i \in 1 .. Cardinality(Young) : ResponseList[place[i]] \in Request
    BY <1>1, <1>2, <1>3
  <2>2. ResponseList' = [i \in 1 .. Cardinality(Young) |-> ResponseList[place[i]]]
    BY <1>1
  <2> QED BY <1>3, <2>1, <2>2
<1>7. ASSUME NEW i \in DOMAIN ResponseList', NEW j \in DOMAIN ResponseList', place[i] = place[j]
      PROVE  i = j
  <2>1. i \in Nat /\ j \in Nat /\ place[i] \in Nat
    BY <1>2, <1>3, <1>4, <1>5
  <2>2. ~ (i < j) /\ ~ (j < i)
    BY <1>1, <1>4, <1>7, <2>1
  <2> QED BY <2>1, <2>2
<1>8. place \in [DOMAIN ResponseList' -> DOMAIN ResponseList]
  BY <1>1, <1>3, <1>4
<1>9. \A i \in DOMAIN ResponseList' : ~Old(ResponseList'[i])
  BY <1>5 DEF Young
<1> QED BY <1>5, <1>6, <1>7, <1>8, <1>9 DEF Thinned

\* Taking an answer out thins the list, and the answer is gone.
LEMMA WithoutThins ==
  ASSUME QueueTypeOK, AnswersOnce, NEW k \in DOMAIN ResponseList, ResponseList' = Without(k)
  PROVE  /\ Thinned /\ ResponseList' \in Seq(Request)
         /\ \A i \in DOMAIN ResponseList' : ResponseList'[i].id # ResponseList[k].id
<1> DEFINE n == Len(ResponseList)
           place == [i \in 1 .. n - 1 |-> IF i < k THEN i ELSE i + 1]
<1>1. ResponseList \in Seq(Request) /\ DOMAIN ResponseList = 1 .. n /\ n \in Nat /\ k \in 1 .. n
  BY DEF QueueTypeOK
<1>2. /\ SubSeq(ResponseList, 1, k - 1) \in Seq(Request) /\ Len(SubSeq(ResponseList, 1, k - 1)) = k - 1
      /\ \A i \in 1 .. k - 1 : SubSeq(ResponseList, 1, k - 1)[i] = ResponseList[i]
  BY <1>1
<1>9. /\ SubSeq(ResponseList, k + 1, n) \in Seq(Request) /\ Len(SubSeq(ResponseList, k + 1, n)) = n - k
      /\ \A i \in 1 .. n - k : SubSeq(ResponseList, k + 1, n)[i] = ResponseList[k + i]
  BY <1>1
<1>3. /\ ResponseList' \in Seq(Request) /\ Len(ResponseList') = n - 1
      /\ \A i \in 1 .. n - 1 : ResponseList'[i] = ResponseList[place[i]]
  <2>1. /\ ResponseList' \in Seq(Request) /\ Len(ResponseList') = (k - 1) + (n - k)
        /\ \A i \in 1 .. (k - 1) + (n - k) :
             ResponseList'[i] = IF i <= k - 1 THEN SubSeq(ResponseList, 1, k - 1)[i]
                                ELSE SubSeq(ResponseList, k + 1, n)[i - (k - 1)]
    <3> DEFINE front == SubSeq(ResponseList, 1, k - 1)
               back  == SubSeq(ResponseList, k + 1, n)
    <3>1. front \in Seq(Request) /\ back \in Seq(Request) /\ Len(front) = k - 1 /\ Len(back) = n - k
      BY <1>2, <1>9
    <3>2. ResponseList' = front \o back
      BY DEF Without
    <3> HIDE DEF front, back
    <3>3. /\ front \o back \in Seq(Request) /\ Len(front \o back) = Len(front) + Len(back)
          /\ \A i \in 1 .. Len(front) + Len(back) :
               (front \o back)[i] = IF i <= Len(front) THEN front[i] ELSE back[i - Len(front)]
      BY <3>1, ConcatProperties
    <3> QED BY <3>1, <3>2, <3>3 DEF front, back
  <2>2. (k - 1) + (n - k) = n - 1
    BY <1>1
  <2>3. ASSUME NEW i \in 1 .. n - 1
        PROVE  ResponseList'[i] = ResponseList[place[i]]
    <3>1. CASE i < k
      BY <1>1, <1>2, <2>1, <2>2, <3>1
    <3>2. CASE i >= k
      <4>1. i - (k - 1) \in 1 .. n - k /\ k + (i - (k - 1)) = i + 1 /\ ~ (i <= k - 1)
        BY <1>1, <3>2
      <4>2. ResponseList'[i] = ResponseList[k + (i - (k - 1))]
        BY <1>9, <2>1, <2>2, <4>1
      <4> QED BY <1>1, <3>2, <4>1, <4>2
    <3> QED BY <1>1, <3>1, <3>2
  <2> QED BY <2>1, <2>2, <2>3
<1>4. DOMAIN ResponseList' = 1 .. n - 1
  BY <1>3
<1>5. place \in [DOMAIN ResponseList' -> DOMAIN ResponseList]
  BY <1>1, <1>4
<1>6. \A i, j \in 1 .. n - 1 : place[i] = place[j] => i = j
  BY <1>1
<1>7. \A i \in 1 .. n - 1 : place[i] # k
  BY <1>1
<1> HIDE DEF place
<1>8. \A i \in DOMAIN ResponseList' : ResponseList'[i].id # ResponseList[k].id
  BY <1>3, <1>4, <1>5, <1>7 DEF AnswersOnce, AnswersApart
<1>10. /\ \A i, j \in DOMAIN ResponseList' : place[i] = place[j] => i = j
       /\ \A i \in DOMAIN ResponseList' : ResponseList'[i] = ResponseList[place[i]]
  BY <1>3, <1>4, <1>6
<1>11. Thinned
  BY <1>5, <1>10 DEF Thinned
<1> QED BY <1>3, <1>8, <1>11

\* A new answer in front leaves the others behind it.
LEMMA FrontAdds ==
  ASSUME QueueTypeOK, NEW x \in Request, ResponseList' = <<x>> \o ResponseList
  PROVE  /\ ResponseList' \in Seq(Request)
         /\ \A i \in DOMAIN ResponseList' :
              \/ i = 1 /\ ResponseList'[i] = x
              \/ i # 1 /\ i - 1 \in DOMAIN ResponseList /\ ResponseList'[i] = ResponseList[i - 1]
<1>1. ResponseList \in Seq(Request) /\ <<x>> \in Seq(Request) /\ Len(<<x>>) = 1 /\ <<x>>[1] = x
      /\ Len(ResponseList) \in Nat
  BY DEF QueueTypeOK
<1>2. /\ ResponseList' \in Seq(Request) /\ Len(ResponseList') = 1 + Len(ResponseList)
      /\ \A i \in 1 .. 1 + Len(ResponseList) :
           ResponseList'[i] = IF i <= 1 THEN <<x>>[i] ELSE ResponseList[i - 1]
  BY <1>1, ConcatProperties
<1>3. /\ DOMAIN ResponseList' = 1 .. 1 + Len(ResponseList)
      /\ DOMAIN ResponseList = 1 .. Len(ResponseList)
  BY <1>1, <1>2
<1>4. ASSUME NEW i \in 1 .. 1 + Len(ResponseList)
      PROVE  \/ i = 1 /\ ResponseList'[i] = x
             \/ i # 1 /\ i - 1 \in DOMAIN ResponseList /\ ResponseList'[i] = ResponseList[i - 1]
  <2>1. CASE i = 1
    BY <1>1, <1>2, <2>1
  <2>2. CASE i # 1
    BY <1>1, <1>2, <1>3, <2>2
  <2> QED BY <2>1, <2>2
<1> QED BY <1>2, <1>3, <1>4

-----------------------------------------------------------------------------
\* The answers of a thinned list are still each there once.
LEMMA ThinnedApart ==
  ASSUME AnswersApart, Thinned
  PROVE  AnswersApart'
BY DEF AnswersApart, Thinned

\* What holds of every answer holds of those left in a thinned list.
LEMMA ThinnedFrom ==
  ASSUME Thinned, NEW i \in DOMAIN ResponseList'
  PROVE  \E j \in DOMAIN ResponseList : ResponseList'[i] = ResponseList[j]
BY DEF Thinned

-----------------------------------------------------------------------------
\* While no two threads make a like request at one moment, a request under way and
\* the one that is made are told apart.
LEMMA SendsApart ==
  ASSUME ~Crowded, AnswersInv, NEW t \in Threads, Sends(t), NEW x, NEW s \in Nat,
         x.id \in Known, s <= now, Traced(x, s)
  PROVE  Traced(x, s)'
<1>1. /\ call[t].st = "idle" /\ now' = now /\ requests \in Nat /\ now \in Nat
      /\ call' = [call EXCEPT ![t] = [st |-> "sent", id |-> requests + 1,
                                      seq |-> now % Day, at |-> now]]
      /\ call \in [Threads -> {Idle} \cup Busy]
  BY DEF Sends, AnswersInv, QueueTypeOK, CreateSeqByTime
<1>2. ~ \E u \in Threads : call[u].st # "idle" /\ CmdOf[u] = CmdOf[t] /\ call[u].seq = now % Day
  BY DEF Sends, SameMoment, CreateSeqByTime
<1>3. x.id # requests + 1
  BY <1>1 DEF Known
<1>4. ~ (x.cmd = CmdOf[t] /\ s = now)
  <2> SUFFICES ASSUME x.cmd = CmdOf[t], s = now PROVE FALSE
    OBVIOUS
  <2>1. PICK u \in Threads : call[u].st # "idle" /\ call[u].id = x.id
    BY DEF Traced
  <2>2. CmdOf[u] = CmdOf[t] /\ call[u].at = now
    BY <2>1 DEF Traced
  <2>3. call[u].seq = now % Day
    BY <2>1, <2>2 DEF AnswersInv, InTime
  <2> QED BY <1>2, <2>1, <2>2, <2>3
<1>5. ASSUME NEW u \in Threads, call'[u].st # "idle"
      PROVE  call'[u].id = x.id <=> CmdOf[u] = x.cmd /\ call'[u].at = s
  <2>1. CASE u = t
    BY <1>1, <1>3, <1>4, <2>1
  <2>2. CASE u # t
    BY <1>1, <1>5, <2>2 DEF Traced
  <2> QED BY <2>1, <2>2
<1>6. ASSUME s = now
      PROVE  \E u \in Threads : call'[u].st # "idle" /\ call'[u].id = x.id
  <2>1. PICK u \in Threads : call[u].st # "idle" /\ call[u].id = x.id
    BY <1>6 DEF Traced
  <2> QED BY <1>1, <2>1
<1> QED BY <1>1, <1>5, <1>6 DEF Traced

\* The request that is made is its thread's.
LEMMA SendsTraced ==
  ASSUME ~Crowded, AnswersInv, NEW t \in Threads, Sends(t), NEW x,
         x.id = requests + 1, x.cmd = CmdOf[t], x.seq = CreateSeqByTime
  PROVE  Traced(x, now)'
<1>1. /\ call[t].st = "idle" /\ now' = now /\ requests \in Nat /\ now \in Nat
      /\ call' = [call EXCEPT ![t] = [st |-> "sent", id |-> requests + 1,
                                      seq |-> now % Day, at |-> now]]
      /\ call \in [Threads -> {Idle} \cup Busy]
  BY DEF Sends, AnswersInv, QueueTypeOK, CreateSeqByTime
<1>2. ~ \E u \in Threads : call[u].st # "idle" /\ CmdOf[u] = CmdOf[t] /\ call[u].seq = now % Day
  BY DEF Sends, SameMoment, CreateSeqByTime
<1>3. ASSUME NEW u \in Threads, call'[u].st # "idle"
      PROVE  call'[u].id = x.id <=> CmdOf[u] = x.cmd /\ call'[u].at = now
  <2>1. CASE u = t
    BY <1>1, <2>1
  <2>2. CASE u # t
    <3>1. call[u].st # "idle" /\ call'[u] = call[u]
      BY <1>1, <1>3, <2>2
    <3>2. call[u].id # requests + 1
      BY <1>1, <3>1 DEF AnswersInv, EachOnce, CallsOnce, Known
    <3>3. ~ (CmdOf[u] = CmdOf[t] /\ call[u].at = now)
      BY <1>2, <3>1 DEF AnswersInv, InTime
    <3> QED BY <3>1, <3>2, <3>3
  <2> QED BY <2>1, <2>2
<1>4. call'[t].st # "idle" /\ call'[t].id = x.id
  BY <1>1
<1> QED BY <1>1, <1>3, <1>4 DEF Traced, CreateSeqByTime

\* A thread that begins to wait keeps its request.
LEMMA WaitsTraced ==
  ASSUME AnswersInv, NEW t \in Threads, StartsToWait(t), NEW x, NEW s, Traced(x, s)
  PROVE  Traced(x, s)'
<1>1. /\ call[t].st = "sent" /\ now' = now /\ call[t].at = now
      /\ call' = [call EXCEPT ![t] = [@ EXCEPT !.st = "waits", !.at = now]]
      /\ call[t] \in Busy /\ call \in [Threads -> {Idle} \cup Busy]
  BY DEF StartsToWait, AnswersInv, InTime, QueueTypeOK, Idle
<1>2. \A u \in Threads : /\ call'[u].id = call[u].id /\ call'[u].at = call[u].at
                         /\ call'[u].st # "idle" <=> call[u].st # "idle"
  <2> SUFFICES ASSUME NEW u \in Threads
               PROVE  /\ call'[u].id = call[u].id /\ call'[u].at = call[u].at
                      /\ call'[u].st # "idle" <=> call[u].st # "idle"
    OBVIOUS
  <2>1. CASE u = t
    BY <1>1, <2>1 DEF Busy
  <2>2. CASE u # t
    BY <1>1, <2>2
  <2> QED BY <2>1, <2>2
<1> QED BY <1>1, <1>2 DEF Traced

\* A thread that goes away leaves the requests of the others, and of its own what is
\* not of this moment.
LEMMA LeavesTraced ==
  ASSUME QueueTypeOK, NEW t \in Threads, call' = [call EXCEPT ![t] = Idle], now' = now,
         NEW x, NEW s, Traced(x, s), s # now \/ call[t].id # x.id
  PROVE  Traced(x, s)'
<1>1. \A u \in Threads : call'[u].st # "idle" => u # t /\ call'[u] = call[u]
  BY DEF QueueTypeOK, Idle
<1>2. \A u \in Threads : u # t => call'[u] = call[u]
  BY DEF QueueTypeOK
<1> QED BY <1>1, <1>2 DEF Traced

-----------------------------------------------------------------------------
\* What an action makes of the requests under way, read off its definition.
LEMMA CallAfter ==
  ASSUME QueueTypeOK, NEW t \in Threads, NEW c, call' = [call EXCEPT ![t] = c]
  PROVE  /\ call'[t] = c /\ \A u \in Threads : u # t => call'[u] = call[u]
         /\ c \in {Idle} \cup Busy => call' \in [Threads -> {Idle} \cup Busy]
BY DEF QueueTypeOK

\* A thread that is idle has no request; another is busy with one.
LEMMA IdleOrBusy ==
  ASSUME QueueTypeOK, NEW t \in Threads
  PROVE  /\ call[t].st = "idle" => call[t].id = 0
         /\ call[t].st # "idle" => call[t] \in Busy
BY DEF QueueTypeOK, Idle, Busy

\* A request that is sent is traced to the present moment.
LEMMA SendsStep ==
  ASSUME ~Crowded, AnswersInv, NEW t \in Threads, Sends(t)
  PROVE  AnswersInv'
<1> DEFINE new == [id |-> requests + 1, cmd |-> CmdOf[t], seq |-> CreateSeqByTime, at |-> now]
           c   == [st |-> "sent", id |-> requests + 1, seq |-> CreateSeqByTime, at |-> now]
<1>1. /\ call[t].st = "idle" /\ UNCHANGED <<now, ResponseList, taken>> /\ requests' = requests + 1
      /\ call' = [call EXCEPT ![t] = c] /\ asked' = asked \cup {new}
  BY DEF Sends
<1>2. QueueTypeOK /\ now \in Nat /\ requests \in Nat /\ CreateSeqByTime \in Nat /\ taken \subseteq Nat
  BY NumberType DEF AnswersInv, QueueTypeOK, CreateSeqByTime
<1>3. c \in Busy /\ new \in Request /\ CmdOf[t] \in Cmds
  BY <1>2, ResponseQueueAssumption DEF Busy, Request
<1>4. /\ call'[t] = c /\ \A u \in Threads : u # t => call'[u] = call[u]
      /\ call' \in [Threads -> {Idle} \cup Busy]
  BY <1>1, <1>2, <1>3, CallAfter
<1>5. QueueTypeOK'
  BY <1>1, <1>2, <1>3, <1>4 DEF QueueTypeOK
<1>6. InTime'
  <2> SUFFICES ASSUME NEW u \in Threads, call'[u].st # "idle"
               PROVE  /\ call'[u].seq = call'[u].at % Day /\ call'[u].at <= now
                      /\ now <= call'[u].at + Wait + 1
                      /\ call'[u].st = "sent" => call'[u].at = now
                      /\ call'[u].st = "waits" =>
                           \A i \in DOMAIN ResponseList : call'[u].at < ResponseList[i].at + Keep
    BY <1>1 DEF InTime
  <2>1. CASE u = t
    BY <1>2, <1>4, <2>1, ResponseQueueAssumption DEF CreateSeqByTime
  <2>2. CASE u # t
    BY <1>4, <2>2 DEF AnswersInv, InTime
  <2> QED BY <2>1, <2>2
<1>7. /\ \A r \in asked : r.id \in Known /\ r.at \in Nat
      /\ \A i \in DOMAIN ResponseList : ResponseList[i].id \in Known /\ ResponseList[i].at \in Nat
  <2>1. \A r \in asked : r.id \in Known /\ r.at \in Nat
    BY DEF AnswersInv, EachOnce, AskedOnce, QueueTypeOK, Request
  <2>2. ASSUME NEW i \in DOMAIN ResponseList
        PROVE  ResponseList[i].id \in Known /\ ResponseList[i].at \in Nat
    <3>1. ResponseList[i] \in Request
      BY DEF AnswersInv, QueueTypeOK
    <3> QED BY <3>1 DEF AnswersInv, EachOnce, AnswersOnce, AnswerOnce, Request
  <2> QED BY <2>1, <2>2
<1>8. AllTraced'
  <2>1. ASSUME NEW r \in asked
        PROVE  r.at <= now /\ Traced(r, r.at)'
    BY <1>7, SendsApart DEF AnswersInv, AllTraced
  <2>2. ASSUME NEW r, r = new
        PROVE  r.at <= now /\ Traced(r, r.at)'
    <3>1. /\ r.id = requests + 1 /\ r.cmd = CmdOf[t] /\ r.seq = CreateSeqByTime /\ r.at = now
          /\ now <= now /\ now' = now
      BY <1>1, <1>2, <2>2
    <3>2. Traced(r, now)'
      BY <3>1, SendsTraced
    <3> QED BY <3>1, <3>2
  <2>3. ASSUME NEW i \in DOMAIN ResponseList
        PROVE  AnswerTraced(ResponseList[i])'
    <3>1. PICK s \in 0 .. ResponseList[i].at :
            ResponseList[i].at - s < Day - Keep /\ Traced(ResponseList[i], s)
      BY DEF AnswersInv, AllTraced, AnswerTraced
    <3>2. ResponseList[i].at <= now /\ s \in Nat /\ s <= now
      BY <1>2, <1>7, <3>1 DEF AnswersInv, AllTraced, AnswerTraced
    <3>3. ASSUME NEW x, x = ResponseList[i]
          PROVE  Traced(x, s)'
      BY <1>7, <3>1, <3>2, <3>3, SendsApart
    <3>4. ResponseList'[i] = ResponseList[i]
      BY <1>1
    <3> QED BY <1>1, <3>1, <3>2, <3>3, <3>4 DEF AnswerTraced
  <2>4. ASSUME NEW r \in asked'
        PROVE  r.at <= now /\ Traced(r, r.at)'
    BY <1>1, <2>1, <2>2
  <2> QED BY <1>1, <2>3, <2>4 DEF AllTraced
<1>9. EachOnce'
  <2>1. Known' = Known \cup {requests + 1} /\ requests + 1 \notin Known
    BY <1>1, <1>2 DEF Known
  <2>2. requests + 1 \notin taken
    BY <1>2 DEF AnswersInv, EachOnce, TakenKnown, Known
  <2>3. CallsOnce'
    <3> SUFFICES ASSUME NEW u \in Threads, call'[u].st # "idle"
                 PROVE  /\ call'[u].id \in Known' \ taken
                        /\ \A v \in Threads : call'[v].id = call'[u].id => v = u
      BY <1>1 DEF CallsOnce
    <3>1. \A v \in Threads : v # t => call'[v].id # requests + 1
      BY <1>2, <1>4, <2>1, IdleOrBusy DEF AnswersInv, EachOnce, CallsOnce
    <3>2. CASE u = t
      BY <1>4, <2>1, <2>2, <3>1, <3>2
    <3>3. CASE u # t
      <4>1. call'[u] = call[u] /\ call[u].id \in Known \ taken
            /\ \A v \in Threads : call[v].id = call[u].id => v = u
        BY <1>4, <3>3 DEF AnswersInv, EachOnce, CallsOnce
      <4> QED BY <1>4, <2>1, <3>3, <4>1
    <3> QED BY <3>2, <3>3
  <2>4. AskedOnce'
    BY <1>1, <2>1, <2>2 DEF AskedOnce, AnswersInv, EachOnce
  <2>5. AnswersOnce'
    BY <1>1, <2>1 DEF AnswersOnce, AnswersApart, AnswerOnce, AnswersInv, EachOnce
  <2>6. TakenKnown'
    BY <1>1, <2>1 DEF AnswersInv, EachOnce, TakenKnown
  <2> QED BY <2>3, <2>4, <2>5, <2>6 DEF EachOnce
<1> QED BY <1>5, <1>6, <1>8, <1>9 DEF AnswersInv

\* A thread begins to wait: the list is thinned to what is not old, and its request
\* is as it was.
LEMMA StartsToWaitStep ==
  ASSUME AnswersInv, NEW t \in Threads, StartsToWait(t)
  PROVE  AnswersInv'
<1> DEFINE c == [call[t] EXCEPT !.st = "waits", !.at = now]
<1>1. /\ call[t].st = "sent" /\ UNCHANGED <<now, asked, requests, taken>>
      /\ call' = [call EXCEPT ![t] = c]
  BY DEF StartsToWait
<1>2. QueueTypeOK /\ now \in Nat /\ call[t] \in Busy /\ call[t].at = now
  BY <1>1, IdleOrBusy DEF AnswersInv, QueueTypeOK, InTime
<1>3. c \in Busy /\ c.id = call[t].id /\ c.at = now /\ c.seq = call[t].seq /\ c.st = "waits"
  BY <1>2 DEF Busy
<1> HIDE DEF c
<1>4. /\ call'[t] = c /\ \A u \in Threads : u # t => call'[u] = call[u]
      /\ call' \in [Threads -> {Idle} \cup Busy]
  BY <1>1, <1>2, <1>3, CallAfter
<1>5. /\ Thinned /\ ResponseList' \in Seq(Request)
      /\ \A i \in DOMAIN ResponseList' : ~Old(ResponseList'[i])
  BY <1>2, PurgeThins
<1>6. QueueTypeOK'
  BY <1>1, <1>4, <1>5 DEF AnswersInv, QueueTypeOK
<1>7. InTime'
  <2> SUFFICES ASSUME NEW u \in Threads, call'[u].st # "idle"
               PROVE  /\ call'[u].seq = call'[u].at % Day /\ call'[u].at <= now
                      /\ now <= call'[u].at + Wait + 1
                      /\ call'[u].st = "sent" => call'[u].at = now
                      /\ call'[u].st = "waits" =>
                           \A i \in DOMAIN ResponseList' : call'[u].at < ResponseList'[i].at + Keep
    BY <1>1 DEF InTime
  <2>1. CASE u = t
    <3>1. call[t].seq = call[t].at % Day
      BY <1>1 DEF AnswersInv, InTime
    <3>2. \A i \in DOMAIN ResponseList' : ResponseList'[i].at \in Nat /\ ~ (now - ResponseList'[i].at >= Keep)
      <4> SUFFICES ASSUME NEW i \in DOMAIN ResponseList'
                   PROVE  ResponseList'[i].at \in Nat /\ ~ (now - ResponseList'[i].at >= Keep)
        OBVIOUS
      <4>1. ResponseList'[i] \in Request /\ ~Old(ResponseList'[i])
        BY <1>5
      <4> QED BY <4>1 DEF Old, Request
    <3>3. \A i \in DOMAIN ResponseList' : now < ResponseList'[i].at + Keep
      BY <1>2, <3>2, ResponseQueueAssumption
    <3> QED BY <1>2, <1>3, <1>4, <2>1, <3>1, <3>3, ResponseQueueAssumption
  <2>2. CASE u # t
    <3>1. call'[u] = call[u]
      BY <1>4, <2>2
    <3>2. call[u].st = "waits" => \A i \in DOMAIN ResponseList' : call[u].at < ResponseList'[i].at + Keep
      BY <1>5, ThinnedFrom DEF AnswersInv, InTime
    <3> QED BY <3>1, <3>2 DEF AnswersInv, InTime
  <2> QED BY <2>1, <2>2
<1>8. AllTraced'
  <2>1. ASSUME NEW r \in asked
        PROVE  r.at <= now /\ Traced(r, r.at)'
    BY WaitsTraced DEF AnswersInv, AllTraced
  <2>2. ASSUME NEW i \in DOMAIN ResponseList', NEW x, x = ResponseList'[i]
        PROVE  AnswerTraced(x)'
    <3>1. AnswerTraced(x)
      BY <1>5, <2>2, ThinnedFrom DEF AnswersInv, AllTraced
    <3> QED BY <1>1, <3>1, WaitsTraced DEF AnswerTraced
  <2> QED BY <1>1, <2>1, <2>2 DEF AllTraced
<1>9. EachOnce'
  <2>1. \A u \in Threads : call'[u].id = call[u].id /\ (call'[u].st # "idle" <=> call[u].st # "idle")
    BY <1>1, <1>3, <1>4
  <2>2. CallsOnce'
    BY <1>1, <2>1 DEF AnswersInv, EachOnce, CallsOnce, Known
  <2>3. AskedOnce' /\ TakenKnown'
    BY <1>1 DEF AnswersInv, EachOnce, AskedOnce, TakenKnown, Known
  <2>4. \A i \in DOMAIN ResponseList' : AnswerOnce(ResponseList'[i])
    BY <1>5, ThinnedFrom DEF AnswersInv, EachOnce, AnswersOnce
  <2>5. AnswersOnce'
    BY <1>1, <1>5, <2>4, ThinnedApart DEF AnswersInv, EachOnce, AnswersOnce, AnswerOnce, Known
  <2> QED BY <2>2, <2>3, <2>5 DEF EachOnce
<1> QED BY <1>6, <1>7, <1>8, <1>9 DEF AnswersInv

\* What a thread does that goes away, with or without an answer.
LEMMA LeavesStep ==
  ASSUME AnswersInv, NEW t \in Threads, call[t].st = "waits", call' = [call EXCEPT ![t] = Idle],
         UNCHANGED <<now, asked, requests>>,
         Thinned, ResponseList' \in Seq(Request),
         \/ taken' = taken /\ now - call[t].at > Wait
         \/ /\ taken' = taken \cup {call[t].id}
            /\ \A i \in DOMAIN ResponseList' : ResponseList'[i].id # call[t].id
            /\ \A r \in asked : r.id # call[t].id
  PROVE  AnswersInv'
<1>1. QueueTypeOK /\ now \in Nat /\ call[t] \in Busy /\ call[t].at \in Nat /\ call[t].id \in Nat
  BY IdleOrBusy DEF AnswersInv, QueueTypeOK, Busy
<1>2. /\ call'[t] = Idle /\ \A u \in Threads : u # t => call'[u] = call[u]
      /\ call' \in [Threads -> {Idle} \cup Busy]
  BY <1>1, CallAfter
<1>3. \A u \in Threads : call'[u].st # "idle" => u # t /\ call'[u] = call[u]
  BY <1>2 DEF Idle
<1>4. QueueTypeOK'
  BY <1>1, <1>2 DEF QueueTypeOK
<1>5. InTime'
  <2> SUFFICES ASSUME NEW u \in Threads, call'[u].st # "idle"
               PROVE  /\ call[u].seq = call[u].at % Day /\ call[u].at <= now
                      /\ now <= call[u].at + Wait + 1
                      /\ call[u].st = "sent" => call[u].at = now
                      /\ call[u].st = "waits" =>
                           \A i \in DOMAIN ResponseList' : call[u].at < ResponseList'[i].at + Keep
    BY <1>3 DEF InTime
  <2>1. call[u].st = "waits" => \A i \in DOMAIN ResponseList' : call[u].at < ResponseList'[i].at + Keep
    BY ThinnedFrom DEF AnswersInv, InTime
  <2> QED BY <1>3, <2>1 DEF AnswersInv, InTime
<1>6. ASSUME NEW x, NEW s, Traced(x, s), taken' # taken => x.id # call[t].id
      PROVE  Traced(x, s)'
  <2>1. CASE call[t].id # x.id
    BY <1>1, <1>6, <2>1, LeavesTraced
  <2>2. CASE call[t].id = x.id /\ taken' = taken /\ now - call[t].at > Wait
    <3>1. call[t].at = s
      BY <1>6, <2>2 DEF Traced
    <3>2. s # now
      BY <1>1, <2>2, <3>1, ResponseQueueAssumption
    <3> QED BY <1>1, <1>6, <3>2, LeavesTraced
  <2>3. taken' # taken \/ (taken' = taken /\ now - call[t].at > Wait) \/ call[t].id \in taken
    OBVIOUS
  <2>4. call[t].id \notin taken
    BY DEF AnswersInv, EachOnce, CallsOnce
  <2> QED BY <1>6, <2>1, <2>2, <2>3, <2>4
<1>7. AllTraced'
  <2>1. ASSUME NEW r \in asked
        PROVE  Traced(r, r.at)'
    BY <1>6 DEF AnswersInv, AllTraced
  <2>2. ASSUME NEW i \in DOMAIN ResponseList', NEW x, x = ResponseList'[i]
        PROVE  AnswerTraced(x)'
    <3>1. AnswerTraced(x)
      BY <2>2, ThinnedFrom DEF AnswersInv, AllTraced
    <3> QED BY <1>6, <2>2, <3>1 DEF AnswerTraced
  <2> QED BY <2>1, <2>2 DEF AnswersInv, AllTraced
<1>8. EachOnce'
  <2>1. Known' = Known /\ call[t].id \in Known /\ taken' \subseteq taken \cup {call[t].id}
    BY DEF Known, AnswersInv, EachOnce, CallsOnce
  <2>2. CallsOnce'
    <3> SUFFICES ASSUME NEW u \in Threads, call'[u].st # "idle"
                 PROVE  /\ call'[u].id \in Known \ taken'
                        /\ \A v \in Threads : call'[v].id = call'[u].id => v = u
      BY <2>1 DEF CallsOnce
    <3>1. u # t /\ call'[u] = call[u] /\ call[u].id \in Known \ taken /\ call[u].id # call[t].id
      BY <1>3 DEF AnswersInv, EachOnce, CallsOnce
    <3>2. call[u].id # 0 /\ Idle.id = 0
      BY <3>1 DEF Known, Idle
    <3> QED BY <1>2, <1>3, <2>1, <3>1, <3>2 DEF AnswersInv, EachOnce, CallsOnce
  <2>3. AskedOnce' /\ TakenKnown'
    BY <2>1 DEF AnswersInv, EachOnce, AskedOnce, TakenKnown
  <2>4. ASSUME NEW i \in DOMAIN ResponseList', NEW x, x = ResponseList'[i]
        PROVE  AnswerOnce(x)'
    <3>1. AnswerOnce(x)
      BY <2>4, ThinnedFrom DEF AnswersInv, EachOnce, AnswersOnce
    <3> QED BY <2>1, <2>4, <3>1 DEF AnswerOnce
  <2>5. AnswersOnce'
    BY <2>4, ThinnedApart DEF AnswersInv, EachOnce, AnswersOnce
  <2> QED BY <2>2, <2>3, <2>5 DEF EachOnce
<1> QED BY <1>4, <1>5, <1>7, <1>8 DEF AnswersInv

\* What a list is that does not change.
LEMMA SameThins ==
  ASSUME QueueTypeOK, ResponseList' = ResponseList
  PROVE  Thinned /\ ResponseList' \in Seq(Request)
<1> DEFINE place == [i \in DOMAIN ResponseList |-> i]
<1>1. /\ place \in [DOMAIN ResponseList' -> DOMAIN ResponseList]
      /\ \A i, j \in DOMAIN ResponseList' : place[i] = place[j] => i = j
      /\ \A i \in DOMAIN ResponseList' : ResponseList'[i] = ResponseList[place[i]]
  OBVIOUS
<1>2. Thinned
  BY <1>1 DEF Thinned
<1> QED BY <1>2 DEF QueueTypeOK

\* What a thread takes from the list is the answer to its own request, and no copy of
\* it is left.
LEMMA TakesOwn ==
  ASSUME AnswersInv, NEW t \in Threads, Takes(t)
  PROVE  /\ call[t].st = "waits" /\ call' = [call EXCEPT ![t] = Idle]
         /\ UNCHANGED <<now, asked, requests>> /\ taken' = taken \cup {call[t].id}
         /\ Thinned /\ ResponseList' \in Seq(Request)
         /\ \A i \in DOMAIN ResponseList' : ResponseList'[i].id # call[t].id
         /\ \A r \in asked : r.id # call[t].id
<1>1. /\ call[t].st = "waits" /\ call' = [call EXCEPT ![t] = Idle] /\ UNCHANGED <<now, asked, requests>>
  BY DEF Takes
<1>2. PICK i \in DOMAIN ResponseList :
        FirstFor(i, t) /\ ResponseList' = Without(i) /\ taken' = taken \cup {ResponseList[i].id}
  BY DEF Takes
<1>3. ResponseList[i].id = call[t].id
  BY <1>1, <1>2, OwnAnswer DEF FirstFor
<1>4. /\ Thinned /\ ResponseList' \in Seq(Request)
      /\ \A k \in DOMAIN ResponseList' : ResponseList'[k].id # ResponseList[i].id
  BY <1>2, WithoutThins DEF AnswersInv, EachOnce
<1>5. \A r \in asked : r.id # call[t].id
  BY <1>3 DEF AnswersInv, EachOnce, AnswersOnce, AnswerOnce
<1> QED BY <1>1, <1>2, <1>3, <1>4, <1>5

\* A thread that has its answer is idle again.
LEMMA TakesStep ==
  ASSUME AnswersInv, NEW t \in Threads, Takes(t)
  PROVE  AnswersInv'
BY TakesOwn, LeavesStep

\* A thread that gives up is idle again, and its answer may still come.
LEMMA TimesOutStep ==
  ASSUME AnswersInv, NEW t \in Threads, TimesOut(t)
  PROVE  AnswersInv'
<1>1. /\ call[t].st = "waits" /\ now - call[t].at > Wait /\ call' = [call EXCEPT ![t] = Idle]
      /\ UNCHANGED <<now, ResponseList, asked, requests, taken>>
  BY DEF TimesOut
<1>2. Thinned /\ ResponseList' \in Seq(Request)
  BY <1>1, SameThins DEF AnswersInv
<1> QED BY <1>1, <1>2, LeavesStep

\* An answer comes: it is of this time, so it is not old to whoever waits, and it is
\* its request's.
LEMMA ServerAnswersStep ==
  ASSUME AnswersInv, ServerAnswers
  PROVE  AnswersInv'
<1>1. PICK r \in asked :
        /\ asked' = asked \ {r} /\ now - r.at < Day - Keep
        /\ ResponseList' = <<[r EXCEPT !.at = now]>> \o ResponseList
        /\ UNCHANGED <<now, call, requests, taken>>
  BY DEF ServerAnswers
<1> DEFINE new == [r EXCEPT !.at = now]
<1>2. QueueTypeOK /\ now \in Nat /\ r \in Request /\ r.at \in Nat
  BY DEF AnswersInv, QueueTypeOK, Request
<1>3. /\ new \in Request /\ new.id = r.id /\ new.cmd = r.cmd /\ new.seq = r.seq /\ new.at = now
      /\ ResponseList' = <<new>> \o ResponseList
  BY <1>1, <1>2 DEF Request
<1> HIDE DEF new
<1>4. /\ ResponseList' \in Seq(Request)
      /\ \A i \in DOMAIN ResponseList' :
           \/ i = 1 /\ ResponseList'[i] = new
           \/ i # 1 /\ i - 1 \in DOMAIN ResponseList /\ ResponseList'[i] = ResponseList[i - 1]
  BY <1>2, <1>3, FrontAdds
<1>5. DOMAIN ResponseList' \subseteq Nat
  BY <1>4
<1>6. QueueTypeOK'
  BY <1>1, <1>2, <1>4 DEF QueueTypeOK
<1>7. InTime'
  <2>1. ASSUME NEW t \in Threads, call[t].st = "waits", NEW i \in DOMAIN ResponseList'
        PROVE  call[t].at < ResponseList'[i].at + Keep
    <3>1. CASE ResponseList'[i] = new
      <4>1. call[t].at <= now /\ call[t].at \in Nat
        BY <1>2, <2>1, IdleOrBusy DEF AnswersInv, InTime, Busy
      <4> QED BY <1>2, <1>3, <3>1, <4>1, ResponseQueueAssumption
    <3>2. CASE i - 1 \in DOMAIN ResponseList /\ ResponseList'[i] = ResponseList[i - 1]
      BY <2>1, <3>2 DEF AnswersInv, InTime
    <3> QED BY <1>4, <3>1, <3>2
  <2>2. InTime /\ now' = now /\ call' = call
    BY <1>1 DEF AnswersInv
  <2> QED BY <2>1, <2>2 DEF InTime
<1>8. AllTraced'
  <2>1. \A q \in asked' : q.at <= now /\ Traced(q, q.at)'
    BY <1>1 DEF AnswersInv, AllTraced, Traced
  <2>2. ASSUME NEW x, AnswerTraced(x)
        PROVE  AnswerTraced(x)'
    BY <1>1, <2>2 DEF AnswerTraced, Traced
  <2>3. ASSUME NEW x, x = new
        PROVE  AnswerTraced(x)
    <3>1. r.at <= now /\ Traced(r, r.at)
      BY DEF AnswersInv, AllTraced
    <3>2. Traced(x, r.at)
      BY <1>3, <2>3, <3>1 DEF Traced
    <3>3. r.at \in 0 .. x.at /\ x.at - r.at < Day - Keep /\ x.at <= now
      BY <1>1, <1>2, <1>3, <2>3, <3>1
    <3> QED BY <3>2, <3>3 DEF AnswerTraced
  <2>4. ASSUME NEW i \in DOMAIN ResponseList', NEW x, x = ResponseList'[i]
        PROVE  AnswerTraced(x)'
    <3>1. CASE x = new
      BY <2>2, <2>3, <3>1
    <3>2. CASE i - 1 \in DOMAIN ResponseList /\ x = ResponseList[i - 1]
      BY <2>2, <3>2 DEF AnswersInv, AllTraced
    <3> QED BY <1>4, <2>4, <3>1, <3>2
  <2> QED BY <1>1, <2>1, <2>4 DEF AllTraced
<1>9. EachOnce'
  <2>1. CallsOnce' /\ AskedOnce' /\ TakenKnown' /\ Known' = Known
    BY <1>1 DEF AnswersInv, EachOnce, CallsOnce, AskedOnce, TakenKnown, Known
  <2>2. /\ r.id \in Known \ taken /\ \A q \in asked' : q.id # r.id
        /\ \A i \in DOMAIN ResponseList : ResponseList[i].id # r.id
    BY <1>1 DEF AnswersInv, EachOnce, AskedOnce, AnswersOnce, AnswerOnce
  <2>3. ASSUME NEW i \in DOMAIN ResponseList', NEW x, x = ResponseList'[i]
        PROVE  AnswerOnce(x)'
    <3>1. CASE x = new
      BY <1>1, <1>3, <2>1, <2>2, <3>1 DEF AnswerOnce
    <3>2. CASE i - 1 \in DOMAIN ResponseList /\ x = ResponseList[i - 1]
      BY <1>1, <2>1, <3>2 DEF AnswerOnce, AnswersInv, EachOnce, AnswersOnce
    <3> QED BY <1>4, <2>3, <3>1, <3>2
  <2>4. ASSUME NEW i \in DOMAIN ResponseList', NEW j \in DOMAIN ResponseList',
               ResponseList'[i].id = ResponseList'[j].id
        PROVE  i = j
    <3>1. i # 1 /\ j # 1 => ResponseList'[i] = ResponseList[i - 1] /\ ResponseList'[j] = ResponseList[j - 1]
                            /\ i - 1 \in DOMAIN ResponseList /\ j - 1 \in DOMAIN ResponseList
      BY <1>4
    <3>2. i # 1 /\ j # 1 => i - 1 = j - 1
      BY <2>4, <3>1 DEF AnswersInv, EachOnce, AnswersOnce, AnswersApart
    <3>3. i = 1 <=> j = 1
      BY <1>3, <1>4, <2>2, <2>4
    <3> QED BY <1>5, <3>2, <3>3
  <2> QED BY <2>1, <2>3, <2>4 DEF EachOnce, AnswersOnce, AnswersApart
<1> QED BY <1>6, <1>7, <1>8, <1>9 DEF AnswersInv

\* A request that is never answered disturbs nobody.
LEMMA ServerForgetsStep ==
  ASSUME AnswersInv, ServerForgets
  PROVE  AnswersInv'
<1>1. asked' \subseteq asked /\ UNCHANGED <<now, call, ResponseList, requests, taken>>
  BY DEF ServerForgets
<1>2. QueueTypeOK' /\ InTime'
  BY <1>1 DEF AnswersInv, QueueTypeOK, InTime
<1>3. AllTraced'
  BY <1>1 DEF AnswersInv, AllTraced, AnswerTraced, Traced
<1>4. EachOnce'
  <2>1. CallsOnce' /\ AskedOnce' /\ TakenKnown'
    BY <1>1 DEF AnswersInv, EachOnce, CallsOnce, AskedOnce, TakenKnown, Known
  <2>2. AnswersOnce'
    BY <1>1 DEF AnswersInv, EachOnce, AnswersOnce, AnswersApart, AnswerOnce, Known
  <2> QED BY <2>1, <2>2 DEF EachOnce
<1> QED BY <1>2, <1>3, <1>4 DEF AnswersInv

\* The clock goes on: no request is of the new time yet.
LEMMA TickStep ==
  ASSUME AnswersInv, Tick
  PROVE  AnswersInv'
<1>1. /\ now' = now + 1 /\ UNCHANGED <<call, ResponseList, asked, requests, taken>>
      /\ \A t \in Threads : call[t].st # "sent" /\ (call[t].st = "waits" => now - call[t].at <= Wait)
  BY DEF Tick
<1>2. QueueTypeOK /\ now \in Nat
  BY DEF AnswersInv, QueueTypeOK
<1>3. QueueTypeOK' /\ EachOnce'
  BY <1>1, <1>2 DEF AnswersInv, QueueTypeOK, EachOnce, CallsOnce, AskedOnce, AnswersOnce, AnswersApart,
                    AnswerOnce, TakenKnown, Known
<1>4. InTime'
  <2> SUFFICES ASSUME NEW t \in Threads, call[t].st # "idle"
               PROVE  /\ call[t].at <= now + 1 /\ now + 1 <= call[t].at + Wait + 1
                      /\ call[t].st = "sent" => call[t].at = now + 1
    BY <1>1 DEF AnswersInv, InTime
  <2>1. call[t] \in Busy
    BY <1>2, IdleOrBusy
  <2>2. call[t].st = "waits" /\ call[t].at \in Nat
    BY <1>1, <2>1 DEF Busy
  <2> QED BY <1>1, <1>2, <2>2, ResponseQueueAssumption DEF AnswersInv, InTime
<1>5. ASSUME NEW x, NEW s \in Nat, s <= now, Traced(x, s)
      PROVE  Traced(x, s)'
  <2>1. s # now + 1
    BY <1>2, <1>5
  <2> QED BY <1>1, <1>5, <2>1 DEF Traced
<1>6. AllTraced'
  <2>1. ASSUME NEW r \in asked
        PROVE  r.at <= now + 1 /\ Traced(r, r.at)'
    <3>1. r.at \in Nat /\ r.at <= now /\ Traced(r, r.at)
      BY <1>2 DEF QueueTypeOK, Request, AnswersInv, AllTraced
    <3> QED BY <1>2, <1>5, <3>1
  <2>2. ASSUME NEW i \in DOMAIN ResponseList
        PROVE  AnswerTraced(ResponseList[i])'
    <3>1. ResponseList[i] \in Request
      BY <1>2 DEF QueueTypeOK
    <3>2. ResponseList[i].at \in Nat /\ ResponseList[i].at <= now
      BY <3>1 DEF AnswersInv, AllTraced, AnswerTraced, Request
    <3>3. PICK s \in 0 .. ResponseList[i].at :
            ResponseList[i].at - s < Day - Keep /\ Traced(ResponseList[i], s)
      BY DEF AnswersInv, AllTraced, AnswerTraced
    <3>4. s \in Nat /\ s <= now /\ ResponseList[i].at <= now + 1
      BY <1>2, <3>2, <3>3
    <3>5. ASSUME NEW x, x = ResponseList[i]
          PROVE  AnswerTraced(x)'
      BY <1>1, <1>5, <3>3, <3>4, <3>5 DEF AnswerTraced
    <3> QED BY <1>1, <3>5
  <2> QED BY <1>1, <2>1, <2>2 DEF AllTraced
<1> QED BY <1>3, <1>4, <1>6 DEF AnswersInv

\* So every step keeps AnswersInv.
LEMMA QueueStep ==
  ASSUME ~Crowded, AnswersInv, [QueueNext]_queueVars
  PROVE  AnswersInv'
<1>1. CASE UNCHANGED queueVars
  BY <1>1 DEF queueVars, AnswersInv, QueueTypeOK, InTime, AllTraced, AnswerTraced, Traced,
              EachOnce, CallsOnce, AskedOnce, AnswersOnce, AnswersApart, AnswerOnce, TakenKnown, Known
<1>2. CASE \E t \in Threads : ThreadStep(t)
  BY <1>2, SendsStep, StartsToWaitStep, TakesStep, TimesOutStep DEF ThreadStep
<1>3. CASE ServerAnswers \/ ServerForgets \/ Tick
  BY <1>3, ServerAnswersStep, ServerForgetsStep, TickStep
<1> QED BY <1>1, <1>2, <1>3 DEF QueueNext

\* At the start nothing is asked and nothing is answered.
LEMMA QueueStarts == QueueInit => AnswersInv
<1> SUFFICES ASSUME QueueInit PROVE AnswersInv
  OBVIOUS
<1>1. /\ now = 0 /\ call = [t \in Threads |-> Idle] /\ DOMAIN ResponseList = {}
      /\ asked = {} /\ requests = 0 /\ taken = {} /\ ResponseList \in Seq(Request)
  BY DEF QueueInit
<1>2. \A t \in Threads : call[t].st = "idle"
  BY <1>1 DEF Idle
<1>3. QueueTypeOK /\ InTime /\ AllTraced
  BY <1>1, <1>2 DEF QueueTypeOK, InTime, AllTraced
<1>4. EachOnce
  BY <1>1, <1>2 DEF EachOnce, CallsOnce, AskedOnce, AnswersOnce, AnswersApart, TakenKnown
<1> QED BY <1>3, <1>4 DEF AnswersInv

\* The list is as QueueInv says in every state: of the answers in it at most one can be
\* for a thread that waits, and every answer is traced to the request it is for.
THEOREM QueueCorrect == ~Crowded => (QueueSpec => []QueueInv)
<1> SUFFICES ASSUME ~Crowded PROVE QueueSpec => []QueueInv
  OBVIOUS
<1>1. AnswersInv /\ [QueueNext]_queueVars => AnswersInv'
  BY QueueStep
<1>2. AnswersInv => QueueInv
  BY OneForEach DEF AnswersInv, QueueInv
<1> QED BY <1>1, <1>2, QueueStarts, PTL DEF QueueSpec

\* Every thread gets the answer to its own request, once, or none in time, although the
\* number that goes with it is but the time of day and the list is one for all.
THEOREM QueueIsExchange == ~Crowded => (QueueSpec => IsExchange)
<1> SUFFICES ASSUME ~Crowded PROVE QueueSpec => IsExchange
  OBVIOUS
<1> DEFINE asking == [t \in Threads |-> call[t].id]
<1>1. QueueInit => Exch!Init
  BY DEF QueueInit, Exch!Init, Idle
<1>2. ASSUME AnswersInv, NEW t \in Threads, ThreadStep(t)
      PROVE  Exch!Next \/ UNCHANGED <<asking, requests, taken>>
  <2>1. QueueTypeOK
    BY <1>2 DEF AnswersInv
  <2>2. CASE Sends(t)
    <3>1. /\ call[t].id = 0 /\ requests' = requests + 1 /\ taken' = taken
          /\ asking' = [asking EXCEPT ![t] = requests + 1]
      BY <2>1, <2>2, IdleOrBusy DEF Sends, QueueTypeOK
    <3> QED BY <3>1 DEF Exch!Next, Exch!Ask
  <2>3. CASE StartsToWait(t)
    <3>1. call[t] \in Busy /\ call' = [call EXCEPT ![t] = [@ EXCEPT !.st = "waits", !.at = now]]
          /\ UNCHANGED <<requests, taken>>
      BY <2>1, <2>3, IdleOrBusy DEF StartsToWait
    <3>2. asking' = asking
      BY <2>1, <3>1 DEF QueueTypeOK, Busy
    <3> QED BY <3>1, <3>2
  <2>4. ASSUME call[t].st = "waits", call' = [call EXCEPT ![t] = Idle]
        PROVE  asking' = [asking EXCEPT ![t] = 0] /\ call[t].id # 0 /\ call[t].id \notin taken
    <3>1. asking' = [asking EXCEPT ![t] = 0]
      BY <2>1, <2>4 DEF QueueTypeOK, Idle
    <3>2. call[t].id # 0 /\ call[t].id \notin taken
      BY <1>2, <2>4 DEF AnswersInv, EachOnce, CallsOnce, Known
    <3> QED BY <3>1, <3>2
  <2>5. CASE Takes(t)
    <3>1. /\ call[t].st = "waits" /\ call' = [call EXCEPT ![t] = Idle]
          /\ requests' = requests /\ taken' = taken \cup {call[t].id}
      BY <1>2, <2>5, TakesOwn
    <3> QED BY <2>4, <3>1 DEF Exch!Next, Exch!Get
  <2>6. CASE TimesOut(t)
    <3>1. /\ call[t].st = "waits" /\ call' = [call EXCEPT ![t] = Idle] /\ UNCHANGED <<requests, taken>>
      BY <2>6 DEF TimesOut
    <3> QED BY <2>4, <3>1 DEF Exch!Next, Exch!GiveUp
  <2> QED BY <1>2, <2>2, <2>3, <2>5, <2>6 DEF ThreadStep
<1>3. ASSUME ServerAnswers \/ ServerForgets \/ Tick \/ UNCHANGED queueVars
      PROVE  UNCHANGED <<asking, requests, taken>>
  BY <1>3 DEF ServerAnswers, ServerForgets, Tick, queueVars
<1>4. AnswersInv /\ [QueueNext]_queueVars => [Exch!Next]_<<asking, requests, taken>>
  BY <1>2, <1>3 DEF QueueNext
<1>5. AnswersInv /\ [QueueNext]_queueVars => AnswersInv'
  BY QueueStep
<1> QED BY <1>1, <1>4, <1>5, QueueStarts, PTL DEF QueueSpec, IsExchange, Exch!Spec

-----------------------------------------------------------------------------
\* What a remainder is.
LEMMA ModBounds == \A a \in Nat, b \in Nat \ {0} : a % b \in 0 .. b - 1
  OBVIOUS

\* The number of the next turn is a number.
LEMMA NextTurn == ASSUME turn \in Nat PROVE (turn + 1) % Turns \in Nat
<1>1. Turns \in Nat \ {0} /\ turn + 1 \in Nat BY AlarmTableAssumption DEF AlarmTableAssumption
<1>2. (turn + 1) % Turns \in 0 .. Turns - 1 BY <1>1, ModBounds
<1> QED BY <1>1, <1>2

\* The types.
LEMMA TypeStep == ASSUME TypeOK, [Next]_vars PROVE TypeOK'
  <1> USE AlarmTableAssumption DEF TypeOK, Entry, Ids, Entries, Lines, Empty, Cleared
  <1>1. CASE RecvStep
    <2> USE DEF RecvKeeps, reader, Done
    <2>1. CASE RecvReads  BY <2>1 DEF RecvReads
    <2>2. CASE RecvFinds  BY <2>2 DEF RecvFinds
    <2>3. CASE RecvClaims
      <3>1. \A x \in Entry : [x EXCEPT !.dev = dev] \in Entry
        OBVIOUS
      <3>2. table' = [table EXCEPT ![index] = [table[index] EXCEPT !.dev = dev]]
        BY <2>3 DEF RecvClaims
      <3>3. table' \in [Entries -> Entry]
        <4> HIDE DEF Entry, Entries
        <4> QED  BY <3>1, <3>2
      <3>4. recv' = "count" /\ UNCHANGED <<count, dev, index, clock, links, timerOn, timer, turn, at,
                                          info, posted, rows, spoilt>>
        BY <2>3 DEF RecvClaims
      <3> QED  BY <3>3, <3>4
    <2>4. CASE RecvPasses  BY <2>4 DEF RecvPasses
    <2>5. CASE RecvGivesUp  BY <2>5 DEF RecvGivesUp
    <2>6. CASE RecvCounts  BY <2>6 DEF RecvCounts
    <2>7. CASE RecvStamps
      <3>1. table' \in [Entries -> Entry]
        <4>1. \A e \in Entries : [table[e] EXCEPT !.time = clock] \in Entry
          <5>1. clock \in 0 .. Seconds
            OBVIOUS
          <5>2. \A x \in Entry : [x EXCEPT !.time = clock] \in Entry
            BY <5>1
          <5> QED  BY <5>2
        <4> QED  BY <2>7, <4>1 DEF RecvStamps
      <3> QED  BY <2>7, <3>1 DEF RecvStamps
    <2>8. CASE RecvStores
      <3>1. table' \in [Entries -> Entry]
        <4>1. \A e \in Entries : [table[e] EXCEPT !.from = @ \cup {dev}] \in Entry
          OBVIOUS
        <4> QED  BY <2>8, <4>1 DEF RecvStores
      <3>2. recv' = "idle" /\ dev' = 0 /\ index' = 0
        BY <2>8 DEF RecvStores
      <3>3. UNCHANGED <<count, clock, links, timerOn, timer, turn, at, info, posted, rows,
                        spoilt>>
        BY <2>8 DEF RecvStores
      <3> QED  BY <3>1, <3>2, <3>3
    <2> QED  BY <1>1, <2>1, <2>2, <2>3, <2>4, <2>5, <2>6, <2>7, <2>8 DEF RecvStep
  <1>2. CASE Relinks  BY <1>2 DEF Relinks, writer, reader
  <1>3. CASE Ticks  BY <1>3 DEF Ticks, writer, reader
  <1>4. CASE TimerStep
    <2>1. CASE TimerCounts
      <3>1. at' \in Nat
        BY <2>1, ModBounds DEF TimerCounts
      <3>2. UNCHANGED <<table, count, recv, dev, index, clock, links, timerOn, rows,
                        spoilt, turn, info, posted>> /\ timer' = "copy"
        BY <2>1 DEF TimerCounts, TimerKeeps, writer
      <3> QED  BY <3>1, <3>2
    <2>2. CASE TimerCopies
      <3>1. turn' \in Nat /\ at' \in Nat
        <4>1. turn' = (turn + 1) % Turns /\ at' = 0
          BY <2>2 DEF TimerCopies
        <4>2. (turn + 1) % Turns \in Nat
          BY NextTurn
        <4> QED  BY <4>1, <4>2
      <3>2. info' \in Entry /\ posted' \in BOOLEAN
        BY <2>2 DEF TimerCopies
      <3>3. UNCHANGED <<table, count, recv, dev, index, clock, links, timerOn, rows,
                        spoilt>> /\ timer' = "idle"
        BY <2>2 DEF TimerCopies, TimerKeeps, writer
      <3> QED  BY <3>1, <3>2, <3>3
    <2> QED  BY <1>4, <2>1, <2>2 DEF TimerStep
  <1>5. CASE MainSwitches  BY <1>5 DEF MainSwitches, writer, reader
  <1>6. CASE MainStep
    <2>1. CASE MainShows
      <3>1. rows' \in [Lines -> Entry]
        <4>1. PICK r \in Lines :
                rows' = [rows EXCEPT ![r] = IF @.time = info.time \/ info.dev = 0
                           THEN [@ EXCEPT !.dev = info.dev, !.time = info.time]
                           ELSE info]
          BY <2>1 DEF MainShows, LineOf
        <4>2. [rows[r] EXCEPT !.dev = info.dev, !.time = info.time] \in Entry
          OBVIOUS
        <4> QED  BY <4>1, <4>2
      <3>2. UNCHANGED <<table, count, recv, dev, index, clock, links, timerOn, timer,
                        turn, at, spoilt>>
        BY <2>1 DEF MainShows, MainKeeps, writer
      <3>3. info' = Empty /\ posted' = FALSE
        BY <2>1 DEF MainShows, Shown
      <3>4. Empty \in Entry
        OBVIOUS
      <3> QED  BY <3>1, <3>2, <3>3, <3>4
    <2>2. CASE MainFindsNone
      <3>1. UNCHANGED <<table, count, recv, dev, index, clock, links, timerOn, timer,
                        turn, at, spoilt, rows>>
        BY <2>2 DEF MainFindsNone, MainKeeps, writer
      <3>2. info' = Empty /\ posted' = FALSE
        BY <2>2 DEF MainFindsNone, Shown
      <3>3. Empty \in Entry
        OBVIOUS
      <3> QED  BY <3>1, <3>2, <3>3
    <2> QED  BY <1>6, <2>1, <2>2 DEF MainStep
  <1>7. CASE UNCHANGED vars  BY <1>7 DEF vars, writer, reader
  <1> QED  BY <1>1, <1>2, <1>3, <1>4, <1>5, <1>6, <1>7 DEF Next

-----------------------------------------------------------------------------
\* The table: where the receive thread stands and what it has passed.
LEMMA TableStep ==
  ASSUME AlarmInv, [Next]_vars
  PROVE  EntriesOwn' /\ WriterKnows' /\ CountIsClaimed' /\ ReadsClaimed
  <1> USE AlarmTableAssumption DEF AlarmInv, TypeOK, Entry, Ids, Entries, Empty, Cleared,
          EntriesOwn, WriterKnows, CountIsClaimed
  <1>0. ReadsClaimed
    BY DEF ReadsClaimed
  <1>1. CASE RecvStep
    <2> USE DEF RecvKeeps, reader, Done
    <2>1. CASE RecvReads
      <3>1. EntriesOwn'  BY <2>1 DEF RecvReads
      <3>2. WriterKnows'  BY <2>1 DEF RecvReads
      <3>3. CountIsClaimed'  BY <2>1 DEF RecvReads
      <3> QED  BY <1>0, <3>1, <3>2, <3>3
    <2>2. CASE RecvFinds  BY <1>0, <2>2 DEF RecvFinds
    <2>3. CASE RecvClaims
      <3>0. /\ table'[index].dev = dev /\ table'[index].from = table[index].from
            /\ \A e \in Entries \ {index} : table'[e] = table[e]
        BY <2>3 DEF RecvClaims
      <3>1. EntriesOwn'
        <4> SUFFICES ASSUME ~spoilt, NEW e \in Entries
                     PROVE  /\ table'[e].from \subseteq {table'[e].dev} \ {0}
                            /\ table'[e].dev # 0 =>
                                 \A f \in 0 .. e - 1 : table'[f].dev \notin {0, table'[e].dev}
          BY <2>3 DEF RecvClaims
        <4>1. /\ table[index].from = {} /\ dev # 0
              /\ \A f \in 0 .. index - 1 : f \in Entries /\ table[f].dev \notin {0, dev}
          <5>1. index \in Entries /\ table[index].dev = 0 /\ recv = "scan"
            BY <2>3 DEF RecvClaims
          <5>2. table[index].from = {} /\ dev # 0
            BY SMTT(30), <5>1, <2>3 DEF RecvClaims
          <5>3. \A f \in 0 .. index - 1 : f \in Entries /\ f < index
            BY <5>1
          <5> QED  BY <5>1, <5>2, <5>3
        <4>2. CASE e = index
          BY SMTT(30), <2>3, <3>0, <4>1, <4>2 DEF RecvClaims
        <4>3. CASE e # index /\ table[e].dev = 0
          BY <3>0, <4>3
        <4>4. CASE e # index /\ table[e].dev # 0
          <5>1. e < index
            <6> SUFFICES ASSUME index \in 0 .. e - 1 PROVE FALSE
              BY SMTT(30), <2>3, <4>4 DEF RecvClaims
            <6>1. table[index].dev \notin {0, table[e].dev}
              BY <4>4
            <6> QED  BY <2>3, <6>1 DEF RecvClaims
          <5> QED  BY <3>0, <4>4, <5>1
        <4> QED  BY <4>2, <4>3, <4>4
      <3>2. WriterKnows'  BY <2>3 DEF RecvClaims
      <3>3. CountIsClaimed'
        <4> SUFFICES ASSUME links = 0 PROVE CountIsClaimed'
          BY <2>3 DEF RecvClaims
        <4>1. index = count
          <5>1. ~(index < count)
            BY <2>3 DEF RecvClaims
          <5>2. ~(count < index)
            BY SMTT(30), <2>3 DEF RecvClaims
          <5> QED  BY <5>1, <5>2
        <4>2. \A e \in Entries : table'[e].dev # 0 <=> e < count \/ e = count
          BY SMTT(30), <2>3, <3>0, <4>1 DEF RecvClaims
        <4> QED  BY <2>3, <4>1, <4>2 DEF RecvClaims
      <3> QED  BY <1>0, <3>1, <3>2, <3>3
    <2>4. CASE RecvPasses  BY <1>0, <2>4 DEF RecvPasses
    <2>5. CASE RecvGivesUp  BY <1>0, <2>5 DEF RecvGivesUp
    <2>6. CASE RecvCounts  BY <1>0, <2>6 DEF RecvCounts
    <2>7. CASE RecvStamps
      <3>1. \A e \in Entries : table'[e].dev = table[e].dev
        BY <2>7 DEF RecvStamps
      <3>2. EntriesOwn'
        <4>1. \A e \in Entries : table'[e].from = table[e].from
          BY <2>7 DEF RecvStamps
        <4>2. \A e \in Entries : \A f \in 0 .. e - 1 : f \in Entries
          OBVIOUS
        <4> QED  BY <2>7, <3>1, <4>1, <4>2 DEF RecvStamps
      <3>3. WriterKnows'  BY <2>7, <3>1 DEF RecvStamps
      <3>4. CountIsClaimed'  BY <2>7, <3>1 DEF RecvStamps
      <3> QED  BY <1>0, <3>2, <3>3, <3>4
    <2>8. CASE RecvStores
      <3>1. \A e \in Entries : table'[e].dev = table[e].dev
        BY <2>8 DEF RecvStores
      <3>2. EntriesOwn'
        <4>1. /\ \A e \in Entries : e # index => table'[e].from = table[e].from
              /\ index \in Entries => table'[index].from = table[index].from \cup {dev}
          <5>1. ASSUME NEW e \in Entries, e # index PROVE table'[e].from = table[e].from
            BY <2>8, <5>1 DEF RecvStores
          <5>2. ASSUME index \in Entries
                PROVE  table'[index].from = table[index].from \cup {dev}
            BY <2>8, <5>2 DEF RecvStores
          <5> QED  BY <5>1, <5>2
        <4>2. \A e \in Entries : \A f \in 0 .. e - 1 : f \in Entries
          OBVIOUS
        <4>3. ~spoilt => index \in Entries /\ table[index].dev = dev /\ dev # 0
          BY <2>8 DEF RecvStores
        <4>4. ~spoilt' => ~spoilt
          BY <2>8 DEF RecvStores
        <4>5. ~spoilt => \A e \in Entries : table'[e].from \subseteq {table[e].dev} \ {0}
          <5> SUFFICES ASSUME ~spoilt, NEW e \in Entries
                       PROVE  table'[e].from \subseteq {table[e].dev} \ {0}
            OBVIOUS
          <5>1. table[e].from \subseteq {table[e].dev} \ {0}
            OBVIOUS
          <5>2. CASE e = index
            <6>1. table'[e].from = table[e].from \cup {dev} /\ table[e].dev = dev /\ dev # 0
              BY <4>1, <4>3, <5>2
            <6> QED  BY <5>1, <6>1
          <5>3. CASE e # index  BY <4>1, <5>1, <5>3
          <5> QED  BY <5>2, <5>3
        <4> QED  BY <3>1, <4>2, <4>4, <4>5
      <3>3. WriterKnows'  BY <2>8, <3>1 DEF RecvStores
      <3>4. CountIsClaimed'  BY <2>8, <3>1 DEF RecvStores
      <3> QED  BY <1>0, <3>2, <3>3, <3>4
    <2> QED  BY <1>1, <2>1, <2>2, <2>3, <2>4, <2>5, <2>6, <2>7, <2>8 DEF RecvStep
  <1>2. CASE Relinks
    <2>1. EntriesOwn'  BY <1>2 DEF Relinks
    <2>2. WriterKnows'  BY <1>2 DEF Relinks, writer
    <2>3. CountIsClaimed'  BY <1>2 DEF Relinks
    <2> QED  BY <1>0, <2>1, <2>2, <2>3
  <1>3. CASE Ticks  BY <1>0, <1>3 DEF Ticks, writer, reader
  <1>4. CASE TimerStep
    <2>1. CASE TimerCounts
      <3>1. at' < count
        BY <2>1, ModBounds DEF TimerCounts
      <3> QED  BY <1>0, <2>1, <3>1 DEF TimerCounts, TimerKeeps, writer
    <2>2. CASE TimerCopies  BY <1>0, <2>2 DEF TimerCopies, TimerKeeps, writer
    <2> QED  BY <1>4, <2>1, <2>2 DEF TimerStep
  <1>5. CASE MainSwitches  BY <1>0, <1>5 DEF MainSwitches, writer, reader
  <1>6. CASE MainStep
    <2>1. UNCHANGED <<table, count, recv, dev, index, links, timer, at, spoilt>>
      BY <1>6 DEF MainStep, MainShows, MainFindsNone, MainKeeps, writer
    <2> QED  BY <1>0, <2>1
  <1>7. CASE UNCHANGED vars  BY <1>0, <1>7 DEF vars, writer, reader
  <1> QED  BY <1>1, <1>2, <1>3, <1>4, <1>5, <1>6, <1>7 DEF Next

\* The screen: what is copied is an entry, and a line takes only its device's.
LEMMA ScreenStep == ASSUME AlarmInv, [Next]_vars PROVE ShownIsOwn'
  <1> USE DEF AlarmInv, TypeOK, Entry, ShownIsOwn, Lines, Empty
  <1>1. CASE RecvStep \/ Relinks \/ Ticks \/ MainSwitches \/ UNCHANGED vars
    <2>1. UNCHANGED <<info, rows>>
      BY <1>1 DEF RecvStep, RecvReads, RecvFinds, RecvClaims, RecvPasses, RecvGivesUp,
           RecvCounts, RecvStamps, RecvStores, RecvKeeps, Relinks, Ticks, MainSwitches,
           vars, reader
    <2>2. ~spoilt' => ~spoilt
      BY <1>1 DEF RecvStep, RecvReads, RecvFinds, RecvClaims, RecvPasses, RecvGivesUp,
           RecvCounts, RecvStamps, RecvStores, RecvKeeps, Relinks, Ticks, MainSwitches, vars
    <2> QED  BY <2>1, <2>2
  <1>2. CASE TimerCounts
    BY <1>2 DEF TimerCounts, TimerKeeps
  <1>3. CASE TimerCopies
    <2>1. ~spoilt => info'.from \subseteq {info'.dev} \ {0}
      BY <1>3 DEF TimerCopies, EntriesOwn
    <2> QED  BY <1>3, <2>1 DEF TimerCopies, TimerKeeps
  <1>4. CASE MainShows
    <2>1. PICK r \in Lines :
            /\ rows[r].dev \in {0, info.dev}
            /\ rows' = [rows EXCEPT ![r] = IF @.time = info.time \/ info.dev = 0
                           THEN [@ EXCEPT !.dev = info.dev, !.time = info.time]
                           ELSE info]
      BY <1>4 DEF MainShows, LineOf
    <2>2. info' = Empty /\ spoilt' = spoilt
      BY <1>4 DEF MainShows, MainKeeps, Shown
    <2> SUFFICES ASSUME ~spoilt, NEW q \in Lines
                 PROVE  rows'[q].from \subseteq {rows'[q].dev} \ {0}
      BY <2>2
    <2>3. CASE q # r
      BY <2>1, <2>3
    <2>4. CASE q = r
      <3>1. rows[r].from \subseteq {info.dev} \ {0}
        BY <2>1
      <3>2. CASE rows[r].time = info.time \/ info.dev = 0
        <4>1. rows'[r].dev = info.dev /\ rows'[r].from = rows[r].from
          BY <2>1, <3>2
        <4> QED  BY <2>4, <3>1, <4>1
      <3>3. CASE ~(rows[r].time = info.time \/ info.dev = 0)
        BY <2>1, <2>4, <3>3
      <3> QED  BY <3>2, <3>3
    <2> QED  BY <2>3, <2>4
  <1>5. CASE MainFindsNone
    BY <1>5 DEF MainFindsNone, MainKeeps, Shown
  <1> QED  BY <1>1, <1>2, <1>3, <1>4, <1>5 DEF Next, TimerStep, MainStep

\* The entries belong to one device each, the counter to the entries, and a line
\* of the screen shows its own device.
THEOREM AlarmCorrect == Spec => []AlarmInv
  <1>1. Init => AlarmInv
    <2> USE AlarmTableAssumption
    <2> SUFFICES ASSUME Init PROVE AlarmInv
      OBVIOUS
    <2>1. Empty \in Entry
      BY DEF Empty, Entry, Ids
    <2>2. TypeOK
      <3>1. table \in [Entries -> Entry] /\ rows \in [Lines -> Entry] /\ info \in Entry
        BY <2>1 DEF Init, Cleared
      <3>2. /\ count \in 0 .. MaxCount /\ dev \in Ids /\ index \in 0 .. MAX_ALARM_COUNT
            /\ clock \in 1 .. Seconds /\ links \in 0 .. MaxLinks
            /\ turn \in Nat /\ at \in Nat
        BY DEF Init, Ids
      <3> QED  BY <3>1, <3>2 DEF Init, TypeOK
    <2>3. EntriesOwn /\ ShownIsOwn
      BY DEF Init, EntriesOwn, ShownIsOwn, Entries, Lines, Empty, Cleared
    <2>4. WriterKnows /\ CountIsClaimed
      BY DEF Init, WriterKnows, CountIsClaimed, Entries, Empty, Cleared
    <2> QED  BY <2>2, <2>3, <2>4 DEF AlarmInv
  <1>2. AlarmInv /\ [Next]_vars => AlarmInv'
    BY TypeStep, TableStep, ScreenStep DEF AlarmInv
  <1> QED  BY <1>1, <1>2, PTL DEF Spec

\* Until the link is made again, GetAlarmInfo copies only entries that a device
\* has claimed.
THEOREM ClaimedIsRead == Spec => []ReadsClaimed
  <1>1. AlarmInv => ReadsClaimed
    BY AlarmTableAssumption
       DEF AlarmInv, CountIsClaimed, ReadsClaimed, TypeOK, Entries
  <1> QED  BY <1>1, AlarmCorrect, PTL
=============================================================================
