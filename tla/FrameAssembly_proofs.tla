------------------------ MODULE FrameAssembly_proofs ------------------------
(***************************************************************************)
(* Proofs about FrameAssembly, for any number of sequence numbers, any     *)
(* buffer and any frames: types, that only whole frames are handed over,   *)
(* in the order they were sent, and that none read in full is dropped.     *)
(* A packet is appended only if its number follows and its time stamp is   *)
(* the same; AssemblyInv says that it then continues what is in the        *)
(* buffer, in spite of losses, wraps and packets that are none.  OrderInv  *)
(* says that what is out is older than what is in the buffer, and KeptInv  *)
(* that the packet after a whole frame can only be one that hands it over. *)
(***************************************************************************)
EXTENDS FrameAssembly, TLAPS

USE DEF Frames

Data == Part \cup {Junk}

\* What a packet does to the client keeps the client's types.
LEMMA ProcessType ==
  ASSUME TypeOK, NEW s \in Seqs, NEW t \in Nat, NEW data \in Data, Process(s, t, data)
  PROVE  /\ nLastSeq' \in Seqs /\ nLastTs' \in Nat
         /\ buf' \in Seq(Data) /\ Len(buf') <= BufPackets
         /\ out' \in Seq(Seq(Data))
<1> USE FrameAssemblyAssumption DEF TypeOK
<1> Data = Part \cup {Junk} /\ buf \in Seq(Data) /\ out \in Seq(Seq(Data))
  BY DEF Data
<1>1. CASE Collect(s, t, data)
  <2>1. Append(buf, data) \in Seq(Data) /\ Len(Append(buf, data)) = Len(buf) + 1
    OBVIOUS
  <2>2. <<>> \in Seq(Data) /\ Len(<<>>) = 0
    OBVIOUS
  <2> HIDE DEF TypeOK
  <2>3. Len(buf) \in Nat /\ nLastTs \in Nat
    BY DEF TypeOK
  <2> QED BY <1>1, <2>1, <2>2, <2>3 DEF Collect
<1>2. CASE HandOver(s, t, data)
  <2>1. <<data>> \in Seq(Data) /\ Len(<<data>>) = 1
    OBVIOUS
  <2>2. Append(out, buf) \in Seq(Seq(Data))
    OBVIOUS
  <2> QED BY <1>2, <2>1, <2>2 DEF HandOver
<1> QED BY <1>1, <1>2 DEF Process

\* The server's next packet keeps the server's types.
LEMMA SendsType ==
  ASSUME TypeOK, Sends
  PROVE  /\ cur' = cur /\ twin' = twin /\ sent' \in 0 .. MaxParts /\ seq' \in Seqs
         /\ sent + 1 \in 1 .. cur.size /\ cur.size \in Sizes
         /\ got \in 0 .. sent'
BY FrameAssemblyAssumption DEF TypeOK, Sends, NextSeq, Seqs, Sizes

\* A part of the frame that is sent is a packet.
LEMMA PartType ==
  ASSUME TypeOK, NEW i \in 1 .. cur.size
  PROVE  PartOf(cur, i) \in Part
BY FrameAssemblyAssumption DEF TypeOK, PartOf, Part, Sizes

\* The types are kept by every step.
THEOREM TypeCorrect == Spec => []TypeOK
<1>1. Init => TypeOK
  <2> SUFFICES ASSUME Init PROVE TypeOK
    OBVIOUS
  <2>1. buf \in Seq(Part \cup {Junk}) /\ Len(buf) <= BufPackets /\ out \in Seq(Seq(Part \cup {Junk}))
    BY FrameAssemblyAssumption DEF Init
  <2>2. cur \in Frames
    BY DEF Init
  <2>3. sent \in 0 .. MaxParts /\ got \in 0 .. sent /\ seq \in Seqs /\ nLastSeq \in Seqs
    BY FrameAssemblyAssumption DEF Init, Seqs
  <2> QED BY <2>1, <2>2, <2>3 DEF Init, TypeOK
<1>2. TypeOK /\ [Next]_vars => TypeOK'
  <2> SUFFICES ASSUME TypeOK, [Next]_vars PROVE TypeOK'
    OBVIOUS
  <2>1. CASE Arrives
    <3>1. PartOf(cur, sent + 1) \in Data
      BY <2>1, SendsType, PartType DEF Arrives, Data
    <3>2. got' \in 0 .. sent'
      BY <2>1 DEF Arrives, Sends, TypeOK
    <3>3. seq \in Seqs /\ cur.ts \in Nat /\ Process(seq, cur.ts, PartOf(cur, sent + 1))
      BY <2>1 DEF Arrives, TypeOK
    <3> QED BY <2>1, <3>1, <3>2, <3>3, ProcessType, SendsType DEF Arrives, TypeOK, Data
  <2>2. CASE Lost
    BY <2>2, SendsType DEF Lost, client, TypeOK
  <2>3. CASE BodyTimesOut
    BY <2>3, SendsType DEF BodyTimesOut, TypeOK
  <2>4. CASE ReadsJunk
    <3>1. PICK s \in Seqs : Process(s, 0, Junk)
      BY <2>4 DEF ReadsJunk
    <3>2. Junk \in Data
      BY DEF Data
    <3> QED BY <2>4, <3>1, <3>2, ProcessType, SendsType DEF ReadsJunk, TypeOK, Data
  <2>5. CASE Relinked
    BY <2>5 DEF Relinked, TypeOK, server
  <2>6. CASE NextFrame
    BY <2>6, FrameAssemblyAssumption DEF NextFrame, TypeOK, client, Sizes
  <2>7. CASE UNCHANGED vars
    BY <2>7 DEF vars, server, client, TypeOK
  <2> QED BY <2>1, <2>2, <2>3, <2>4, <2>5, <2>6, <2>7 DEF Next
<1> QED BY <1>1, <1>2, PTL DEF Spec

-----------------------------------------------------------------------------
\* What is left to a packet's number after one more was sent.
LEMMA ApartNext ==
  ASSUME NEW a \in Seqs, seq \in Seqs, NEW d \in Nat, d < SeqMod, Apart(a, seq, d)
  PROVE  Apart(a, NextSeq, d + 1)
BY FrameAssemblyAssumption DEF Apart, NextSeq, Seqs

\* The packet that follows in number follows in fact.
LEMMA ApartOne ==
  ASSUME NEW a \in Seqs, NEW b \in Seqs, NEW d \in Nat, d <= SeqMod,
         Apart(a, b, d), a + 1 = b
  PROVE  d = 1
BY FrameAssemblyAssumption DEF Apart, Seqs

\* A frame and its twin have fewer packets than there are numbers.
LEMMA TwoFramesApart ==
  ASSUME NEW size \in Sizes, NEW no \in 1 .. size, NEW n \in Nat, n < MaxParts
  PROVE  /\ size - no + n + 1 \in Nat /\ size - no + n + 1 < SeqMod
         /\ size - no + (n + 1) + 1 = (size - no + n + 1) + 1
BY FrameAssemblyAssumption DEF Sizes

\* The last packet is still known after the server has sent another that the
\* client has not seen.
LEMMA LastKnownMissed ==
  ASSUME TypeOK, LastIsKnown, Sends, UNCHANGED <<nLastSeq, nLastTs, buf>>
  PROVE  LastIsKnown'
<1> SUFFICES ASSUME buf # <<>>, nLastTs = cur.ts
             PROVE  \/ \E i \in 1 .. sent' : Last = PartOf(cur, i) /\ Apart(nLastSeq, seq', sent' - i + 1)
                    \/ /\ twin /\ Last.no \in 1 .. Last.size /\ Last.size \in Sizes
                       /\ Apart(nLastSeq, seq', Last.size - Last.no + sent' + 1)
  BY DEF LastIsKnown, Last, Sends, PartOf, Apart
<1>1. /\ sent' = sent + 1 /\ seq' = NextSeq /\ sent < cur.size /\ cur.size <= MaxParts
      /\ sent \in Nat /\ sent < MaxParts /\ nLastSeq \in Seqs /\ seq \in Seqs
  BY FrameAssemblyAssumption DEF Sends, Sizes, TypeOK
<1>2. CASE \E i \in 1 .. sent : Last = PartOf(cur, i) /\ Apart(nLastSeq, seq, sent - i + 1)
  <2> PICK i \in 1 .. sent : Last = PartOf(cur, i) /\ Apart(nLastSeq, seq, sent - i + 1)
    BY <1>2
  <2>1. sent - i + 1 \in Nat /\ sent - i + 1 < SeqMod /\ sent' - i + 1 = (sent - i + 1) + 1
    BY <1>1, FrameAssemblyAssumption
  <2>2. Apart(nLastSeq, NextSeq, (sent - i + 1) + 1)
    BY <1>1, <2>1, ApartNext
  <2> QED BY <1>1, <2>1, <2>2
<1>3. CASE /\ twin /\ Last.no \in 1 .. Last.size /\ Last.size \in Sizes
           /\ Apart(nLastSeq, seq, Last.size - Last.no + sent + 1)
  <2>1. /\ Last.size - Last.no + sent + 1 \in Nat /\ Last.size - Last.no + sent + 1 < SeqMod
        /\ Last.size - Last.no + (sent + 1) + 1 = (Last.size - Last.no + sent + 1) + 1
    BY <1>1, <1>3, TwoFramesApart
  <2>2. Apart(nLastSeq, NextSeq, (Last.size - Last.no + sent + 1) + 1)
    BY <1>1, <1>3, <2>1, ApartNext
  <2> QED BY <1>1, <1>3, <2>1, <2>2
<1> QED BY <1>2, <1>3 DEF LastIsKnown

\* A packet that is counted to the frame in the buffer is its next part.
LEMMA Continues ==
  ASSUME TypeOK, AssemblyInv, Sends, SameFrame(seq, cur.ts), buf # <<>>,
         buf[1].no = 1, Len(buf) + 1 <= buf[1].size
  PROVE  PartOf(cur, sent + 1) = [buf[1] EXCEPT !.no = Len(buf) + 1]
<1>1. /\ buf \in Seq(Data) /\ Len(buf) \in Nat /\ Len(buf) \in 1 .. Len(buf)
      /\ nLastSeq \in Seqs /\ seq \in Seqs /\ sent \in Nat /\ sent < MaxParts
      /\ nLastSeq + 1 = seq /\ nLastTs = cur.ts /\ cur.size \in Sizes /\ sent < cur.size
  BY FrameAssemblyAssumption DEF TypeOK, Data, SameFrame, Sends, Sizes
<1>2. buf[1] \in Part
  <2>1. buf[1] \in Data
    BY <1>1
  <2> QED BY <2>1 DEF Data, Junk
<1>3. buf[1].size \in Nat
  BY <1>2, FrameAssemblyAssumption DEF Part, Sizes
<1>4. Last = [buf[1] EXCEPT !.no = Len(buf)]
  BY <1>1, <1>3 DEF AssemblyInv, InOrder, Last
<1>5. Last.no = Len(buf) /\ Last.size = buf[1].size /\ Last.frame = buf[1].frame /\ Last.known = buf[1].known
  BY <1>2, <1>4 DEF Part
<1>6. CASE \E i \in 1 .. sent : Last = PartOf(cur, i) /\ Apart(nLastSeq, seq, sent - i + 1)
  <2> PICK i \in 1 .. sent : Last = PartOf(cur, i) /\ Apart(nLastSeq, seq, sent - i + 1)
    BY <1>6
  <2>1. sent - i + 1 \in Nat /\ sent - i + 1 <= SeqMod
    BY <1>1, FrameAssemblyAssumption
  <2>2. sent - i + 1 = 1
    BY <1>1, <2>1, ApartOne
  <2>3. i = sent
    BY <1>1, <2>2
  <2>4. Len(buf) = sent /\ buf[1].size = cur.size /\ buf[1].frame = cur.id /\ buf[1].known = cur.known
    BY <1>5, <2>3 DEF PartOf
  <2> QED BY <1>2, <2>4 DEF PartOf, Part
<1>7. CASE /\ twin /\ Last.no \in 1 .. Last.size /\ Last.size \in Sizes
           /\ Apart(nLastSeq, seq, Last.size - Last.no + sent + 1)
  <2>1. Last.size - Last.no + sent + 1 \in Nat /\ Last.size - Last.no + sent + 1 <= SeqMod
    BY <1>1, <1>7, TwoFramesApart, FrameAssemblyAssumption
  <2>2. Last.size - Last.no + sent + 1 = 1
    BY <1>1, <1>7, <2>1, ApartOne
  <2>3. Last.size = Len(buf) + 0
    BY <1>1, <1>3, <1>5, <2>2
  <2> QED BY <1>1, <1>3, <1>5, <2>3
<1> QED BY <1>1, <1>6, <1>7 DEF AssemblyInv, LastIsKnown

\* A buffer with one packet is in order.
LEMMA OneInOrder ==
  ASSUME NEW data \in Data, buf' = <<data>>
  PROVE  InOrder'
BY DEF InOrder, Data, Part, Junk

\* A packet put behind the others leaves them in order if it is the next one,
\* or if they are no beginning of a frame.
LEMMA AppendInOrder ==
  ASSUME TypeOK, InOrder, NEW data \in Data, buf' = Append(buf, data),
         buf # <<>> /\ buf[1].no = 1 /\ Len(buf) + 1 <= buf[1].size
           => data = [buf[1] EXCEPT !.no = Len(buf) + 1]
  PROVE  InOrder'
<1>1. CASE buf = <<>>
  <2>1. buf' = <<data>>
    BY <1>1
  <2> QED BY <2>1, OneInOrder
<1>2. CASE buf # <<>>
  <2>1. buf \in Seq(Data) /\ Len(buf) \in Nat \ {0} /\ Len(buf') = Len(buf) + 1
    BY <1>2 DEF TypeOK, Data
  <2>2. \A k \in 1 .. Len(buf) : buf'[k] = buf[k]
    BY <2>1
  <2>3. buf'[Len(buf) + 1] = data
    BY <2>1
  <2>4. buf'[1] = buf[1]
    BY <2>1, <2>2
  <2> SUFFICES ASSUME NEW k \in 1 .. Len(buf'), buf[1].no = 1, k <= buf[1].size
               PROVE  buf'[k] = [buf[1] EXCEPT !.no = k]
    BY <2>4 DEF InOrder
  <2>5. CASE k \in 1 .. Len(buf)
    BY <2>2, <2>5 DEF InOrder
  <2>6. CASE k = Len(buf) + 1
    BY <1>2, <2>3, <2>6
  <2> QED BY <2>1, <2>5, <2>6
<1> QED BY <1>1, <1>2

\* A packet that arrives is the last one known.
LEMMA LastKnownArrived ==
  ASSUME TypeOK, Sends, nLastSeq' = seq,
         buf' = <<>> \/ buf' = <<PartOf(cur, sent + 1)>> \/ buf' = Append(buf, PartOf(cur, sent + 1))
  PROVE  LastIsKnown'
<1> DEFINE data == PartOf(cur, sent + 1)
<1>1. /\ sent' = sent + 1 /\ seq' = NextSeq /\ cur' = cur /\ sent \in Nat /\ seq \in Seqs
      /\ buf \in Seq(Data) /\ data \in Data
  BY SendsType, PartType, FrameAssemblyAssumption DEF Sends, TypeOK, Data
<1>2. Apart(seq, NextSeq, 1)
  BY <1>1, FrameAssemblyAssumption DEF Apart, NextSeq, Seqs
<1>3. buf' # <<>> => buf'[Len(buf')] = data
  <2> HIDE DEF data
  <2>1. <<data>>[Len(<<data>>)] = data
    OBVIOUS
  <2>2. Append(buf, data)[Len(Append(buf, data))] = data
    BY <1>1
  <2> QED BY <2>1, <2>2 DEF data
<1>4. sent' \in 1 .. sent' /\ sent' - sent' + 1 = 1
  BY <1>1
<1>5. ASSUME buf' # <<>>
      PROVE  \E i \in 1 .. sent' : Last' = PartOf(cur', i) /\ Apart(nLastSeq', seq', sent' - i + 1)
  <2>1. Last' = PartOf(cur', sent')
    BY <1>1, <1>3, <1>5 DEF Last
  <2>2. Apart(nLastSeq', seq', sent' - sent' + 1)
    BY <1>1, <1>2, <1>4
  <2> QED BY <1>4, <2>1, <2>2
<1> QED BY <1>5 DEF LastIsKnown

\* Every step keeps the invariant.
LEMMA AssemblyStep ==
  ASSUME TypeOK, AssemblyInv, [Next]_vars
  PROVE  AssemblyInv'
<1> USE DEF AssemblyInv
<1>1. CASE Arrives
  <2> DEFINE data == PartOf(cur, sent + 1)
  <2>1. Sends /\ Process(seq, cur.ts, data)
    BY <1>1 DEF Arrives
  <2>2. data \in Part /\ cur' = cur /\ sent' = sent + 1 /\ sent < cur.size /\ cur.size \in Nat /\ sent \in Nat
    BY <2>1, SendsType, PartType, FrameAssemblyAssumption DEF Sends, TypeOK, Sizes
  <2>3. data \in Data
    BY <2>2 DEF Data
  <2>4. nLastSeq' = seq /\ nLastTs' = cur.ts
    BY <2>1 DEF Process, Collect, HandOver, SameFrame
  <2>5. buf' = <<>> \/ buf' = <<data>> \/ (SameFrame(seq, cur.ts) /\ buf' = Append(buf, data))
    BY <2>1 DEF Process, Collect, HandOver
  <2> HIDE DEF data
  <2>6. InOrder'
    <3>1. CASE buf' = <<>>
      BY <3>1 DEF InOrder
    <3>2. CASE buf' = <<data>>
      BY <2>3, <3>2, OneInOrder
    <3>3. CASE SameFrame(seq, cur.ts) /\ buf' = Append(buf, data)
      BY <2>1, <2>3, <3>3, Continues, AppendInOrder DEF data
    <3> QED BY <2>5, <3>1, <3>2, <3>3
  <2>7. LastIsKnown'
    BY <2>1, <2>4, <2>5, LastKnownArrived DEF data
  <2>8. Stamps'
    BY <2>2, <2>4 DEF Stamps, TypeOK
  <2> QED BY <2>6, <2>7, <2>8
<1>2. CASE Lost
  <2>1. LastIsKnown'
    BY <1>2, LastKnownMissed DEF Lost, client
  <2>2. cur' = cur /\ sent' <= cur.size /\ UNCHANGED <<nLastTs, buf>>
    BY <1>2, FrameAssemblyAssumption DEF Lost, client, Sends, TypeOK, Sizes
  <2>3. InOrder' /\ Stamps'
    BY <2>2 DEF InOrder, Stamps
  <2> QED BY <2>1, <2>3
<1>3. CASE BodyTimesOut
  <2>1. LastIsKnown'
    BY <1>3, LastKnownMissed DEF BodyTimesOut
  <2>2. cur' = cur /\ sent' <= cur.size /\ UNCHANGED <<nLastTs, buf>>
    BY <1>3, FrameAssemblyAssumption DEF BodyTimesOut, Sends, TypeOK, Sizes
  <2>3. InOrder' /\ Stamps'
    BY <2>2 DEF InOrder, Stamps
  <2> QED BY <2>1, <2>3
<1>4. CASE ReadsJunk
  <2>1. PICK s \in Seqs : Process(s, 0, Junk)
    BY <1>4 DEF ReadsJunk
  <2>2. cur' = cur /\ sent' <= cur.size
    BY <1>4, FrameAssemblyAssumption DEF ReadsJunk, Sends, TypeOK, Sizes
  <2>3. nLastTs' = 0 /\ Junk \in Data
    BY <2>1 DEF Process, Collect, HandOver, SameFrame, Data
  <2>7. cur'.ts >= 1 /\ cur'.ts # 0 /\ nLastTs' <= cur'.ts /\ sent' <= cur'.size
    BY <2>2, <2>3 DEF Stamps, TypeOK
  <2>8. LastIsKnown'
    BY <2>3, <2>7 DEF LastIsKnown
  <2>4. CASE buf' = <<>>
    BY <2>7, <2>8, <2>4 DEF InOrder, Stamps
  <2>5. CASE buf' = <<Junk>>
    <3>1. InOrder'
      BY <2>3, <2>5, OneInOrder
    <3>2. \A k \in DOMAIN buf' : buf'[k] = Junk
      BY <2>5
    <3> QED BY <2>7, <2>8, <3>1, <3>2 DEF Stamps
  <2>6. CASE nLastTs = 0 /\ buf' = Append(buf, Junk)
    <3>1. buf \in Seq(Data) /\ Len(buf) \in Nat /\ \A k \in 1 .. Len(buf) : buf[k] = Junk
      BY <2>6 DEF TypeOK, Data, Stamps
    <3>2. buf # <<>> => buf[1].no # 1
      BY <3>1 DEF Junk
    <3>3. InOrder'
      BY <2>3, <2>6, <3>2, AppendInOrder
    <3>4. \A k \in DOMAIN buf' : buf'[k] = Junk
      BY <2>3, <2>6, <3>1
    <3> QED BY <2>7, <2>8, <3>3, <3>4 DEF Stamps
  <2> QED BY <2>1, <2>4, <2>5, <2>6 DEF Process, Collect, HandOver, SameFrame
<1>5. CASE Relinked
  BY <1>5 DEF Relinked, server, InOrder, LastIsKnown, Last, Stamps
<1>6. CASE NextFrame
  <2>1. UNCHANGED <<nLastSeq, nLastTs, buf>> /\ seq' = seq /\ sent' = 0 /\ sent = cur.size
    BY <1>6 DEF NextFrame, client
  <2>2. PICK size \in Sizes, known \in BOOLEAN, same \in BOOLEAN :
          /\ same => ~twin
          /\ twin' = same
          /\ cur' = [id |-> cur.id + 1, ts |-> IF same THEN cur.ts ELSE cur.ts + 1,
                     size |-> size, known |-> known]
    BY <1>6 DEF NextFrame
  <2>3. cur.ts \in Nat /\ nLastTs \in Nat /\ nLastTs <= cur.ts /\ cur.size \in Sizes /\ size \in Nat
    BY FrameAssemblyAssumption DEF TypeOK, Stamps, Sizes
  <2>4. InOrder' /\ Stamps'
    BY <2>1, <2>2, <2>3 DEF InOrder, Stamps
  <2>5. ASSUME buf # <<>>, nLastTs = cur'.ts
        PROVE  /\ twin' /\ Last.no \in 1 .. Last.size /\ Last.size \in Sizes
               /\ Apart(nLastSeq, seq, Last.size - Last.no + 0 + 1)
    <3>1. same /\ ~twin /\ nLastTs = cur.ts
      BY <2>2, <2>3, <2>5
    <3>2. PICK i \in 1 .. sent : Last = PartOf(cur, i) /\ Apart(nLastSeq, seq, sent - i + 1)
      BY <2>5, <3>1 DEF LastIsKnown
    <3>3. Last.no = i /\ Last.size = sent
      BY <2>1, <3>2 DEF PartOf
    <3>4. sent - i + 1 = Last.size - Last.no + 0 + 1
      BY <2>1, <2>3, <3>3, FrameAssemblyAssumption DEF Sizes
    <3> QED BY <2>1, <2>2, <2>3, <3>1, <3>2, <3>3, <3>4
  <2> QED BY <2>1, <2>4, <2>5 DEF LastIsKnown, Last
<1>7. CASE UNCHANGED vars
  BY <1>7 DEF vars, server, client, InOrder, LastIsKnown, Last, Stamps
<1> QED BY <1>1, <1>2, <1>3, <1>4, <1>5, <1>6, <1>7 DEF Next

\* The buffer is in order, and what follows its last packet is known.
THEOREM AssemblyCorrect == Spec => []AssemblyInv
<1>1. Init => AssemblyInv
  BY FrameAssemblyAssumption DEF Init, AssemblyInv, InOrder, LastIsKnown, Stamps, Sizes
<1>2. TypeOK /\ AssemblyInv /\ [Next]_vars => AssemblyInv'
  BY AssemblyStep
<1> QED BY <1>1, <1>2, TypeCorrect, PTL DEF Spec

-----------------------------------------------------------------------------
\* A packet hands over what is in the buffer, or nothing.
LEMMA ProcessOut ==
  ASSUME NEW s, NEW t, NEW data, Process(s, t, data)
  PROVE  out' = out \/ (Complete /\ buf[1].known /\ out' = Append(out, buf))
BY DEF Process, Collect, HandOver

\* Whole frames stay whole, and the next one is.
LEMMA OutStep ==
  ASSUME TypeOK, AssemblyInv, OnlyWholeFrames,
         Complete, buf[1].known, out' = Append(out, buf)
  PROVE  OnlyWholeFrames'
<1>1. out \in Seq(Seq(Data)) /\ buf \in Seq(Data) /\ Len(out) \in Nat /\ Len(buf) \in Nat
  BY DEF TypeOK, Data
<1>2. buf = [k \in 1 .. buf[1].size |-> [buf[1] EXCEPT !.no = k]]
  <2>1. \A k \in 1 .. Len(buf) : buf[k] = [buf[1] EXCEPT !.no = k]
    BY <1>1 DEF AssemblyInv, InOrder, Complete
  <2>2. buf = [k \in 1 .. Len(buf) |-> buf[k]]
    BY <1>1
  <2>3. Len(buf) = buf[1].size
    BY DEF Complete
  <2>4. buf = [k \in 1 .. Len(buf) |-> [buf[1] EXCEPT !.no = k]]
    BY <2>1, <2>2, Zenon
  <2> QED BY <2>3, <2>4
<1>3. /\ Len(out') = Len(out) + 1 /\ out'[Len(out) + 1] = buf
      /\ \A i \in 1 .. Len(out) : out'[i] = out[i]
      /\ DOMAIN out' = 1 .. Len(out) + 1 /\ DOMAIN out = 1 .. Len(out)
  BY <1>1
<1> SUFFICES ASSUME NEW i \in 1 .. Len(out) + 1
             PROVE  /\ out'[i][1].known
                    /\ out'[i] = [k \in 1 .. out'[i][1].size |-> [out'[i][1] EXCEPT !.no = k]]
  BY <1>3 DEF OnlyWholeFrames
<1>4. CASE i \in 1 .. Len(out)
  <2>1. out'[i] = out[i] /\ i \in DOMAIN out
    BY <1>3, <1>4
  <2> QED BY <2>1, Zenon DEF OnlyWholeFrames
<1>5. CASE i = Len(out) + 1
  <2>1. out'[i] = buf
    BY <1>3, <1>5
  <2>2. out'[i][1] = buf[1]
    BY <2>1
  <2> QED BY <1>2, <2>1, <2>2
<1>6. i \in 1 .. Len(out) \/ i = Len(out) + 1
  BY <1>1
<1> QED BY <1>4, <1>5, <1>6, Zenon

\* Whatever is lost or late, only whole frames reach the callback.
THEOREM WholeFramesCorrect == Spec => []OnlyWholeFrames
<1>1. Init => OnlyWholeFrames
  BY DEF Init, OnlyWholeFrames
<1>2. TypeOK /\ AssemblyInv /\ OnlyWholeFrames /\ [Next]_vars => OnlyWholeFrames'
  <2> SUFFICES ASSUME TypeOK, AssemblyInv, OnlyWholeFrames, [Next]_vars
               PROVE  OnlyWholeFrames'
    OBVIOUS
  <2>1. out' = out \/ (Complete /\ buf[1].known /\ out' = Append(out, buf))
    <3>1. CASE Arrives
      BY <3>1, ProcessOut DEF Arrives
    <3>2. CASE ReadsJunk
      BY <3>2, ProcessOut DEF ReadsJunk
    <3>3. CASE Lost \/ BodyTimesOut \/ Relinked \/ NextFrame \/ UNCHANGED vars
      BY <3>3 DEF Lost, BodyTimesOut, Relinked, NextFrame, client, vars
    <3> QED BY <3>1, <3>2, <3>3 DEF Next
  <2>2. CASE out' = out
    BY <2>2 DEF OnlyWholeFrames
  <2> QED BY <2>1, <2>2, OutStep
<1> QED BY <1>1, <1>2, TypeCorrect, AssemblyCorrect, PTL DEF Spec

-----------------------------------------------------------------------------
\* What a client's step may do to the buffer and to what is out.
LEMMA ClientMoves ==
  ASSUME [Next]_vars
  PROVE  \/ Sends /\ Process(seq, cur.ts, PartOf(cur, sent + 1))
         \/ Sends /\ \E s \in Seqs : Process(s, 0, Junk)
         \/ Sends /\ UNCHANGED <<buf, out>>
         \/ NextFrame
         \/ UNCHANGED <<cur, sent, buf, out>>
BY DEF Next, Arrives, Lost, BodyTimesOut, ReadsJunk, Relinked, server, client, vars

\* What is in a buffer that takes a packet: what was there, and the packet.
LEMMA ProcessBuf ==
  ASSUME TypeOK, NEW s, NEW t, NEW data \in Data, Process(s, t, data)
  PROVE  /\ \A k \in DOMAIN buf' : buf'[k] = data \/ (k \in DOMAIN buf /\ buf'[k] = buf[k])
         /\ buf' # <<>> => \/ buf'[1] = data
                           \/ out' = out /\ buf # <<>> /\ buf'[1] = buf[1]
<1>1. buf \in Seq(Data) /\ Len(buf) \in Nat
  BY DEF TypeOK, Data
<1>2. buf' = <<>> \/ buf' = <<data>> \/ (buf' = Append(buf, data) /\ out' = out)
  BY DEF Process, Collect, HandOver
<1>3. CASE buf' = <<>> \/ buf' = <<data>>
  BY <1>3
<1>4. CASE buf' = Append(buf, data) /\ out' = out
  <2>1. CASE buf = <<>>
    <3>1. buf' = <<data>>
      BY <1>4, <2>1
    <3> QED BY <3>1
  <2>2. CASE buf # <<>>
    <3>1. 1 \in DOMAIN buf /\ DOMAIN buf' = 1 .. Len(buf) + 1 /\ DOMAIN buf = 1 .. Len(buf)
      BY <1>1, <1>4, <2>2
    <3>2. \A k \in 1 .. Len(buf) : buf'[k] = buf[k]
      BY <1>1, <1>4
    <3>3. buf'[Len(buf) + 1] = data
      BY <1>1, <1>4
    <3> QED BY <1>1, <1>4, <2>2, <3>1, <3>2, <3>3
  <2> QED BY <2>1, <2>2
<1> QED BY <1>2, <1>3, <1>4

\* A frame that is complete in the buffer while the server still sends is not the
\* one it sends.
LEMMA CompleteIsPast ==
  ASSUME TypeOK, InOrder, FromThePast, Sends, Complete
  PROVE  buf[1].frame < cur.id
<1>1. buf \in Seq(Data) /\ Len(buf) \in Nat \ {0} /\ 1 \in DOMAIN buf /\ Len(buf) \in DOMAIN buf
  BY DEF TypeOK, Data, Complete
<1>2. buf[1] \in Data
  BY <1>1
<1>3. buf[1] \in Part
  BY <1>2 DEF Data, Junk, Complete
<1>4. buf[Len(buf)] = [buf[1] EXCEPT !.no = Len(buf)]
  BY <1>1 DEF InOrder, Complete
<1>5. buf[Len(buf)].no = Len(buf) /\ buf[Len(buf)].frame = buf[1].frame /\ Len(buf) = buf[1].size
  BY <1>3, <1>4 DEF Part, Complete
<1>6. ASSUME NEW i \in 1 .. sent, buf[1] = PartOf(cur, i)
      PROVE  buf[1].frame < cur.id
  <2>1. buf[1].size = cur.size /\ buf[1].frame = cur.id
    BY <1>6 DEF PartOf
  <2>2. ~ (buf[Len(buf)].frame < cur.id)
    BY <1>5, <2>1 DEF TypeOK
  <2>3. PICK j \in 1 .. sent : buf[Len(buf)] = PartOf(cur, j)
    BY <1>1, <2>2 DEF FromThePast
  <2>4. j = cur.size
    BY <1>5, <2>1, <2>3 DEF PartOf
  <2>5. sent < cur.size /\ cur.size \in Nat /\ sent \in Nat
    BY FrameAssemblyAssumption DEF Sends, TypeOK, Sizes
  <2> QED BY <2>4, <2>5
<1> QED BY <1>1, <1>6 DEF FromThePast

\* The packets in the buffer come from frames of the past.
LEMMA FromThePastStep ==
  ASSUME TypeOK, FromThePast, [Next]_vars
  PROVE  FromThePast'
<1> USE DEF FromThePast
<1>0. cur.id \in Nat /\ sent \in Nat /\ buf \in Seq(Data) /\ Len(buf) \in Nat
  BY DEF TypeOK, Data
<1>1. CASE Sends /\ Process(seq, cur.ts, PartOf(cur, sent + 1))
  <2>1. cur' = cur /\ sent' = sent + 1 /\ PartOf(cur, sent + 1) \in Data
    BY <1>1, SendsType, PartType DEF Sends, Data
  <2>2. sent + 1 \in 1 .. sent + 1 /\ \A i \in 1 .. sent : i \in 1 .. sent + 1
    BY <1>0
  <2>3. \A k \in DOMAIN buf' : buf'[k] = PartOf(cur, sent + 1) \/ (k \in DOMAIN buf /\ buf'[k] = buf[k])
    BY <1>1, <2>1, ProcessBuf
  <2> QED BY <2>1, <2>2, <2>3
<1>2. CASE Sends /\ \E s \in Seqs : Process(s, 0, Junk)
  <2>1. cur' = cur /\ sent' = sent + 1 /\ Junk \in Data /\ Junk.frame < cur.id
    BY <1>0, <1>2 DEF Sends, Data, Junk
  <2>2. \A i \in 1 .. sent : i \in 1 .. sent + 1
    BY <1>0
  <2>3. \A k \in DOMAIN buf' : buf'[k] = Junk \/ (k \in DOMAIN buf /\ buf'[k] = buf[k])
    BY <1>2, <2>1, ProcessBuf
  <2> QED BY <2>1, <2>2, <2>3
<1>3. CASE Sends /\ UNCHANGED <<buf, out>>
  <2>1. cur' = cur /\ sent' = sent + 1 /\ \A i \in 1 .. sent : i \in 1 .. sent + 1
    BY <1>0, <1>3 DEF Sends
  <2> QED BY <1>3, <2>1
<1>4. CASE NextFrame
  <2>1. cur'.id = cur.id + 1 /\ buf' = buf
    BY <1>4 DEF NextFrame, client
  <2>2. \A k \in DOMAIN buf : buf[k].frame < cur.id + 1
    <3> SUFFICES ASSUME NEW k \in DOMAIN buf PROVE buf[k].frame < cur.id + 1
      OBVIOUS
    <3>1. buf[k] \in Data
      BY <1>0
    <3>2. buf[k].frame \in Nat
      BY <3>1 DEF Data, Part, Junk
    <3>3. CASE buf[k].frame < cur.id
      BY <1>0, <3>2, <3>3
    <3>4. CASE \E i \in 1 .. sent : buf[k] = PartOf(cur, i)
      BY <1>0, <3>4 DEF PartOf
    <3> QED BY <3>3, <3>4
  <2> QED BY <1>0, <2>1, <2>2
<1>5. CASE UNCHANGED <<cur, sent, buf, out>>
  BY <1>5
<1> QED BY <1>1, <1>2, <1>3, <1>4, <1>5, ClientMoves

\* A hand-over puts a frame out that is later than all that are out.
LEMMA OrderOut ==
  ASSUME TypeOK, InOrder, OrderInv, Sends,
         out' = out \/ (Complete /\ buf[1].known /\ out' = Append(out, buf))
  PROVE  /\ FramesInOrder'
         /\ \A i \in DOMAIN out' : out'[i][1].frame \in 0 .. cur.id - 1
<1>0. out \in Seq(Seq(Data)) /\ Len(out) \in Nat
  BY DEF TypeOK, Data
<1>1. CASE out' = out
  BY <1>1 DEF OrderInv, FramesInOrder, OutBefore
<1>2. CASE Complete /\ out' = Append(out, buf)
  <2>1. buf[1].frame \in 0 .. cur.id - 1 /\ buf # <<>> /\ buf[1].no = 1
    <3>1. buf[1].frame < cur.id /\ buf # <<>> /\ buf[1].no = 1 /\ cur.id \in Nat
      BY <1>2, CompleteIsPast DEF OrderInv, Complete, TypeOK
    <3>2. buf[1] \in Data
      BY <3>1 DEF TypeOK, Data
    <3>3. buf[1].frame \in Nat
      BY <3>2 DEF Data, Part, Junk
    <3> QED BY <3>1, <3>3
  <2>2. /\ DOMAIN out' = 1 .. Len(out) + 1 /\ DOMAIN out = 1 .. Len(out)
        /\ \A i \in 1 .. Len(out) : out'[i] = out[i]
        /\ out'[Len(out) + 1] = buf
    BY <1>0, <1>2
  <2>3. \A i \in 1 .. Len(out) : out'[i][1].frame < buf[1].frame /\ out'[i][1].frame \in 0 .. cur.id - 1
    BY <2>1, <2>2 DEF OrderInv, OutBefore
  <2>6. \A i \in DOMAIN out' : i \in 1 .. Len(out) \/ out'[i][1] = buf[1]
    BY <1>0, <2>2
  <2>4. \A i \in DOMAIN out' : out'[i][1].frame \in 0 .. cur.id - 1
    BY <2>1, <2>3, <2>6
  <2>5. ASSUME NEW i \in DOMAIN out', NEW j \in DOMAIN out', i < j
        PROVE  out'[i][1].frame < out'[j][1].frame
    <3>1. i \in 1 .. Len(out)
      BY <1>0, <2>2, <2>5
    <3>2. CASE j \in 1 .. Len(out)
      BY <2>2, <2>5, <3>1, <3>2 DEF OrderInv, FramesInOrder
    <3>3. CASE out'[j][1] = buf[1]
      BY <2>3, <3>1, <3>3
    <3> QED BY <2>6, <3>2, <3>3
  <2> QED BY <2>4, <2>5 DEF FramesInOrder
<1> QED BY <1>1, <1>2

\* Every step keeps the order.
LEMMA OrderStep ==
  ASSUME TypeOK, InOrder, OrderInv, [Next]_vars
  PROVE  OrderInv'
<1>0. FromThePast' /\ cur.id \in Nat
  BY FromThePastStep DEF OrderInv, TypeOK
<1>1. CASE Sends /\ Process(seq, cur.ts, PartOf(cur, sent + 1))
  <2> DEFINE data == PartOf(cur, sent + 1)
  <2>1. cur' = cur /\ data \in Data /\ data.frame = cur.id
    BY <1>1, SendsType, PartType DEF Sends, Data, PartOf
  <2>2. out' = out \/ (Complete /\ buf[1].known /\ out' = Append(out, buf))
    BY <1>1, ProcessOut
  <2>3. FramesInOrder' /\ \A i \in DOMAIN out' : out'[i][1].frame \in 0 .. cur.id - 1
    BY <1>1, <2>2, OrderOut
  <2>4. buf' # <<>> => buf'[1] = data \/ (out' = out /\ buf # <<>> /\ buf'[1] = buf[1])
    BY <1>1, <2>1, ProcessBuf
  <2>5. OutBefore'
    <3>1. \A n \in 0 .. cur.id - 1 : n < cur.id
      BY <1>0
    <3> QED BY <2>1, <2>3, <2>4, <3>1 DEF OutBefore, OrderInv
  <2> QED BY <1>0, <2>3, <2>5 DEF OrderInv
<1>2. CASE Sends /\ \E s \in Seqs : Process(s, 0, Junk)
  <2>1. cur' = cur /\ Junk \in Data /\ Junk.no # 1
    BY <1>2 DEF Sends, Data, Junk
  <2>2. out' = out \/ (Complete /\ buf[1].known /\ out' = Append(out, buf))
    BY <1>2, ProcessOut
  <2>3. FramesInOrder' /\ \A i \in DOMAIN out' : out'[i][1].frame \in 0 .. cur.id - 1
    BY <1>2, <2>2, OrderOut
  <2>4. buf' # <<>> => buf'[1] = Junk \/ (out' = out /\ buf # <<>> /\ buf'[1] = buf[1])
    BY <1>2, <2>1, ProcessBuf
  <2>5. OutBefore'
    BY <2>1, <2>3, <2>4 DEF OutBefore, OrderInv
  <2> QED BY <1>0, <2>3, <2>5 DEF OrderInv
<1>3. CASE Sends /\ UNCHANGED <<buf, out>>
  BY <1>0, <1>3 DEF Sends, OrderInv, OutBefore, FramesInOrder
<1>4. CASE NextFrame
  <2>1. cur'.id = cur.id + 1 /\ buf' = buf /\ out' = out
    BY <1>4 DEF NextFrame, client
  <2>2. \A i \in DOMAIN out : out[i][1].frame \in 0 .. (cur.id + 1) - 1
    <3>1. \A n \in 0 .. cur.id - 1 : n \in 0 .. (cur.id + 1) - 1
      BY <1>0
    <3> QED BY <3>1 DEF OrderInv, OutBefore
  <2> QED BY <1>0, <2>1, <2>2 DEF OrderInv, OutBefore, FramesInOrder
<1>5. CASE UNCHANGED <<cur, sent, buf, out>>
  BY <1>0, <1>5 DEF OrderInv, OutBefore, FramesInOrder
<1> QED BY <1>1, <1>2, <1>3, <1>4, <1>5, ClientMoves

\* What is out and in the buffer is in order.
LEMMA OrderInvariant == Spec => []OrderInv
<1>1. Init => OrderInv
  BY DEF Init, OrderInv, FromThePast, OutBefore, FramesInOrder
<1>2. TypeOK /\ AssemblyInv /\ OrderInv /\ [Next]_vars => OrderInv'
  BY OrderStep DEF AssemblyInv
<1> QED BY <1>1, <1>2, TypeCorrect, AssemblyCorrect, PTL DEF Spec

\* The callback gets the frames in the order they were sent, each at most once,
\* whatever is lost, late or read askew.
THEOREM OrderCorrect == Spec => []FramesInOrder
<1>1. OrderInv => FramesInOrder
  BY DEF OrderInv
<1> QED BY <1>1, OrderInvariant, PTL

-----------------------------------------------------------------------------
\* The parts of a frame, as a sequence.
LEMMA PartsOfFrame ==
  ASSUME NEW f, f.size \in Sizes
  PROVE  /\ PartsOf(f) # <<>> /\ Len(PartsOf(f)) = f.size
         /\ PartsOf(f)[1] = PartOf(f, 1)
<1>1. f.size \in Nat /\ 1 \in 1 .. f.size
  BY FrameAssemblyAssumption DEF Sizes
<1>2. DOMAIN PartsOf(f) = 1 .. f.size
  BY DEF PartsOf
<1>3. PartsOf(f) \in Seq({PartOf(f, i) : i \in 1 .. f.size})
  BY <1>1 DEF PartsOf
<1>4. Len(PartsOf(f)) = f.size
  BY <1>1, <1>2, <1>3
<1> QED BY <1>1, <1>3, <1>4 DEF PartsOf

\* What was kept of a frame is still kept after a packet that is not counted to it.
LEMMA KeptOne ==
  ASSUME TypeOK, NEW s, NEW t, NEW data, Process(s, t, data), t = cur.ts \/ t = 0,
         Sends, NEW f, f.size \in Sizes, f.known, f.ts \in Nat,
         (\E i \in DOMAIN out : out[i] = PartsOf(f)) \/ Waits(f)
  PROVE  \E i \in DOMAIN out' : out'[i] = PartsOf(f)
<1>0. out \in Seq(Seq(Data)) /\ Len(out) \in Nat /\ cur.ts \in Nat /\ nLastTs \in Nat
  BY DEF TypeOK, Data
<1>1. ASSUME NEW i \in DOMAIN out, out[i] = PartsOf(f)
      PROVE  \E j \in DOMAIN out' : out'[j] = PartsOf(f)
  <2>1. out' = out \/ out' = Append(out, buf)
    BY ProcessOut
  <2>2. i \in DOMAIN out' /\ out'[i] = out[i]
    BY <1>0, <2>1
  <2> QED BY <1>1, <2>2
<1>2. CASE Waits(f)
  <2>1. buf = PartsOf(f) /\ nLastTs = f.ts /\ f.ts >= 1 /\ f.ts < cur.ts
    <3>1. sent # cur.size
      BY FrameAssemblyAssumption DEF Sends, TypeOK, Sizes
    <3> QED BY <1>2, <3>1 DEF Waits
  <2>2. ~ SameFrame(s, t)
    BY <1>0, <2>1 DEF SameFrame
  <2>3. Complete /\ buf[1].known
    <3>1. buf # <<>> /\ Len(buf) = f.size /\ buf[1] = PartOf(f, 1)
      BY <2>1, PartsOfFrame
    <3>2. buf[1].no = 1 /\ buf[1].size = f.size /\ buf[1].known
      BY <3>1 DEF PartOf
    <3> QED BY <3>1, <3>2 DEF Complete
  <2>4. out' = Append(out, buf)
    BY <2>2, <2>3 DEF Process, Collect, HandOver
  <2>5. Len(out) + 1 \in DOMAIN out' /\ out'[Len(out) + 1] = buf
    BY <1>0, <2>4
  <2> QED BY <2>1, <2>5
<1> QED BY <1>1, <1>2

\* ... and so are all frames that were read in full before.
LEMMA KeptProcess ==
  ASSUME TypeOK, Kept, Sends, NEW s, NEW t, NEW data, Process(s, t, data), t = cur.ts \/ t = 0
  PROVE  \A f \in whole :
           /\ f \in Frames
           /\ f.id \notin wrapped /\ f.known => \E i \in DOMAIN out' : out'[i] = PartsOf(f)
<1> SUFFICES ASSUME NEW f \in whole
             PROVE  /\ f \in Frames
                    /\ f.id \notin wrapped /\ f.known => \E i \in DOMAIN out' : out'[i] = PartsOf(f)
  OBVIOUS
<1>1. f \in Frames
  BY DEF Kept, KeptFrame
<1>2. ASSUME f.id \notin wrapped, f.known
      PROVE  \E i \in DOMAIN out' : out'[i] = PartsOf(f)
  <2>1. (\E i \in DOMAIN out : out[i] = PartsOf(f)) \/ Waits(f)
    BY <1>2 DEF Kept, KeptFrame
  <2>2. f.size \in Sizes /\ f.ts \in Nat
    BY <1>1
  <2> QED BY <1>2, <2>1, <2>2, KeptOne
<1> QED BY <1>1, <1>2

\* While no packet of a frame is missed, the next one is put behind the others.
LEMMA CollectedStep ==
  ASSUME TypeOK, Stamps, BeginsAnew, Collected, Sends, ~twin, got = sent,
         cur.size <= BufPackets, cur.id \notin wrapped',
         Process(seq, cur.ts, PartOf(cur, sent + 1))
  PROVE  /\ buf' = [k \in 1 .. sent + 1 |-> PartOf(cur, k)]
         /\ nLastTs' = cur.ts /\ nLastSeq' = seq
<1>0. /\ sent \in Nat /\ sent < cur.size /\ cur.size \in Nat /\ buf \in Seq(Data) /\ seq \in Seqs
      /\ BufPackets \in Nat /\ nLastTs \in Nat /\ cur.ts \in Nat
  BY FrameAssemblyAssumption DEF TypeOK, Sends, Sizes, Data
<1>1. nLastTs' = cur.ts /\ nLastSeq' = seq
  BY DEF Process, Collect, HandOver, SameFrame
<1>2. CASE sent = 0
  <2>1. ~ SameFrame(seq, cur.ts)
    BY <1>0, <1>2 DEF BeginsAnew, SameFrame
  <2>2. buf' = <<PartOf(cur, 1)>>
    BY <1>2, <2>1 DEF Process, Collect, HandOver
  <2>3. <<PartOf(cur, 1)>> = [k \in 1 .. 1 |-> PartOf(cur, k)]
    OBVIOUS
  <2> QED BY <1>1, <1>2, <2>2, <2>3
<1>3. CASE sent > 0
  <2>1. wrapped' = wrapped /\ seq # 0
    BY <1>3 DEF Sends
  <2>2. buf = [k \in 1 .. sent |-> PartOf(cur, k)] /\ nLastTs = cur.ts /\ nLastSeq = seq - 1
    BY <1>3, <2>1 DEF Collected
  <2>3. SameFrame(seq, cur.ts)
    BY <1>0, <2>2 DEF SameFrame, Seqs
  <2>4. Len(buf) = sent
    BY <1>0, <2>2
  <2>5. buf' = Append(buf, PartOf(cur, sent + 1))
    BY <1>0, <2>3, <2>4 DEF Process, Collect, HandOver
  <2>6. Append(buf, PartOf(cur, sent + 1)) = [k \in 1 .. sent + 1 |-> PartOf(cur, k)]
    <3> DEFINE P(k) == PartOf(cur, k)
    <3>1. /\ Append(buf, P(sent + 1)) = [k \in 1 .. Len(buf) + 1 |-> IF k <= Len(buf) THEN buf[k] ELSE P(sent + 1)]
      BY <1>0
    <3>2. \A k \in 1 .. sent : buf[k] = P(k)
      BY <2>2
    <3> HIDE DEF P
    <3>3. \A k \in 1 .. sent + 1 : (IF k <= sent THEN buf[k] ELSE P(sent + 1)) = P(k)
      BY <1>0, <3>2
    <3>4. Append(buf, P(sent + 1)) = [k \in 1 .. sent + 1 |-> P(k)]
      BY <2>4, <3>1, <3>3
    <3> QED BY <3>4 DEF P
  <2> QED BY <1>1, <2>5, <2>6
<1> QED BY <1>0, <1>2, <1>3

\* Every step keeps what has been read in full.
LEMMA KeptStep ==
  ASSUME TypeOK, Stamps, KeptInv, [Next]_vars
  PROVE  KeptInv'
<1> USE DEF KeptInv
<1>0. /\ sent \in Nat /\ got \in Nat /\ got <= sent /\ cur.size \in Sizes /\ seq \in Seqs
      /\ nLastTs \in Nat /\ cur.ts \in Nat /\ cur.ts >= 1
  BY DEF TypeOK, Stamps
<1>1. CASE Arrives
  <2>1. /\ Sends /\ Process(seq, cur.ts, PartOf(cur, sent + 1)) /\ got' = got + 1
        /\ cur' = cur /\ twin' = twin /\ sent' = sent + 1 /\ sent < cur.size
        /\ wrapped \subseteq wrapped' /\ seq' = NextSeq
    BY <1>1 DEF Arrives, Sends
  <2>2. BeginsAnew'
    BY <1>0, <2>1 DEF BeginsAnew
  <2>3. ASSUME ~twin, got = sent, cur.size <= BufPackets, cur.id \notin wrapped'
        PROVE  /\ buf' = [k \in 1 .. sent + 1 |-> PartOf(cur, k)]
               /\ nLastTs' = cur.ts /\ nLastSeq' = seq
    BY <2>1, <2>3, CollectedStep
  <2>4. seq = (IF NextSeq = 0 THEN SeqMod ELSE NextSeq) - 1
    BY <1>0, FrameAssemblyAssumption DEF NextSeq, Seqs
  <2>5. Collected'
    <3> SUFFICES ASSUME ~twin, got + 1 = sent + 1, cur.size <= BufPackets, cur.id \notin wrapped'
                 PROVE  /\ buf' = [k \in 1 .. sent + 1 |-> PartOf(cur, k)]
                        /\ nLastTs' = cur.ts /\ nLastSeq' = (IF seq' = 0 THEN SeqMod ELSE seq') - 1
      BY <2>1 DEF Collected, PartOf
    <3>1. got = sent
      BY <1>0
    <3> QED BY <2>1, <2>3, <2>4, <3>1
  <2>6. \A f \in whole :
          /\ f \in Frames
          /\ f.id \notin wrapped /\ f.known => \E i \in DOMAIN out' : out'[i] = PartsOf(f)
    BY <2>1, KeptProcess
  <2>7. CASE whole' = whole
    <3>1. ASSUME NEW f \in whole
          PROVE  KeptFrame(f)'
      <4>1. f \in Frames /\ (f.id \notin wrapped' /\ f.known => \E i \in DOMAIN out' : out'[i] = PartsOf(f))
        BY <2>1, <2>6
      <4> QED BY <4>1 DEF KeptFrame, PartsOf, PartOf
    <3> QED BY <2>2, <2>5, <2>7, <3>1 DEF Kept
  <2>8. CASE whole' = whole \cup {cur} /\ got + 1 = cur.size /\ cur.size <= BufPackets /\ ~twin
    <3>1. got = sent /\ sent + 1 = cur.size
      BY <1>0, <2>1, <2>8, FrameAssemblyAssumption DEF Sizes
    <3>2. cur \in Frames
      BY DEF TypeOK
    <3>3. ASSUME cur.id \notin wrapped'
          PROVE  Waits(cur)'
      <4>1. buf' = PartsOf(cur) /\ nLastTs' = cur.ts
        BY <2>3, <2>8, <3>1, <3>3 DEF PartsOf
      <4> QED BY <1>0, <2>1, <3>1, <4>1 DEF Waits, PartsOf, PartOf
    <3>4. ASSUME NEW f \in whole'
          PROVE  KeptFrame(f)'
      <4>1. CASE f \in whole
        <5>1. f \in Frames /\ (f.id \notin wrapped' /\ f.known => \E i \in DOMAIN out' : out'[i] = PartsOf(f))
          BY <2>1, <2>6, <4>1
        <5> QED BY <5>1 DEF KeptFrame, PartsOf, PartOf
      <4>2. CASE f = cur
        BY <2>1, <3>2, <3>3, <4>2 DEF KeptFrame
      <4> QED BY <2>8, <3>4, <4>1, <4>2
    <3> QED BY <2>2, <2>5, <3>4 DEF Kept
  <2>9. whole' = whole \/ (whole' = whole \cup {cur} /\ got + 1 = cur.size /\ cur.size <= BufPackets /\ ~twin)
    BY <1>1 DEF Arrives
  <2> QED BY <2>7, <2>8, <2>9
<1>2. CASE ReadsJunk
  <2>1. PICK s \in Seqs : Process(s, 0, Junk)
    BY <1>2 DEF ReadsJunk
  <2>2. /\ Sends /\ got' = got /\ whole' = whole /\ cur' = cur /\ twin' = twin
        /\ sent' = sent + 1 /\ wrapped \subseteq wrapped'
    BY <1>2 DEF ReadsJunk, Sends
  <2>3. nLastTs' = 0
    BY <2>1 DEF Process, Collect, HandOver, SameFrame
  <2>4. BeginsAnew'
    BY <1>0, <2>2, <2>3 DEF BeginsAnew
  <2>5. Collected'
    BY <1>0, <2>2 DEF Collected
  <2>6. \A f \in whole :
          /\ f \in Frames
          /\ f.id \notin wrapped /\ f.known => \E i \in DOMAIN out' : out'[i] = PartsOf(f)
    BY <2>1, <2>2, KeptProcess
  <2>7. Kept'
    BY <2>2, <2>6 DEF Kept, KeptFrame, PartsOf, PartOf
  <2> QED BY <2>4, <2>5, <2>7
<1>3. CASE Lost \/ BodyTimesOut
  <2>1. /\ Sends /\ got' = got /\ whole' = whole /\ cur' = cur /\ twin' = twin
        /\ sent' = sent + 1 /\ wrapped \subseteq wrapped' /\ UNCHANGED <<nLastTs, buf, out>>
    BY <1>3 DEF Lost, BodyTimesOut, Sends, client
  <2>2. BeginsAnew'
    BY <2>1 DEF BeginsAnew
  <2>3. Collected'
    BY <1>0, <2>1 DEF Collected
  <2>4. ASSUME NEW f, Waits(f)
        PROVE  Waits(f)'
    <3>1. sent # cur.size
      BY <1>0, <2>1, FrameAssemblyAssumption DEF Sends, Sizes
    <3> QED BY <2>1, <2>4, <3>1 DEF Waits, PartsOf, PartOf
  <2>5. Kept'
    BY <2>1, <2>4 DEF Kept, KeptFrame, PartsOf, PartOf
  <2> QED BY <2>2, <2>3, <2>5
<1>4. CASE NextFrame
  <2>1. PICK size \in Sizes, known \in BOOLEAN, same \in BOOLEAN :
          /\ twin' = same
          /\ cur' = [id |-> cur.id + 1, ts |-> IF same THEN cur.ts ELSE cur.ts + 1,
                     size |-> size, known |-> known]
          /\ whole' = IF same THEN whole \ {cur} ELSE whole
    BY <1>4 DEF NextFrame
  <2>2. sent' = 0 /\ got' = 0 /\ UNCHANGED <<seq, wrapped, nLastSeq, nLastTs, buf, out>>
    BY <1>4 DEF NextFrame, client
  <2>3. BeginsAnew'
    BY <1>0, <2>1, <2>2 DEF BeginsAnew, Stamps
  <2>4. Collected'
    BY <2>2 DEF Collected
  <2>5. ASSUME NEW f \in whole', Waits(f)
        PROVE  Waits(f)'
    <3>1. f.ts < cur'.ts
      <4>1. CASE f = cur
        <5>1. ~same
          BY <2>1, <2>5, <4>1
        <5> QED BY <1>0, <2>1, <4>1, <5>1
      <4>2. CASE f.ts < cur.ts /\ f.ts = nLastTs
        BY <1>0, <2>1, <4>2
      <4> QED BY <2>5, <4>1, <4>2 DEF Waits
    <3> QED BY <2>2, <2>5, <3>1 DEF Waits, PartsOf, PartOf
  <2>6. whole' \subseteq whole
    BY <2>1
  <2>7. Kept'
    BY <2>2, <2>5, <2>6 DEF Kept, KeptFrame, PartsOf, PartOf
  <2> QED BY <2>3, <2>4, <2>7
<1>5. CASE Relinked
  BY <1>5 DEF Relinked, server, BeginsAnew, Collected, Kept, KeptFrame, Waits, PartsOf, PartOf
<1>6. CASE UNCHANGED vars
  BY <1>6 DEF vars, server, client, BeginsAnew, Collected, Kept, KeptFrame, Waits, PartsOf, PartOf
<1> QED BY <1>1, <1>2, <1>3, <1>4, <1>5, <1>6 DEF Next

\* What is kept of all frames.
LEMMA KeptInvariant == Spec => []KeptInv
<1>1. Init => KeptInv
  BY DEF Init, KeptInv, BeginsAnew, Collected, Kept
<1>2. TypeOK /\ AssemblyInv /\ KeptInv /\ [Next]_vars => KeptInv'
  BY KeptStep DEF AssemblyInv
<1> QED BY <1>1, <1>2, TypeCorrect, AssemblyCorrect, PTL DEF Spec

\* No frame read in full is dropped, unless its numbers wrap, its time stamp is
\* another's or the buffer is too small for it.
THEOREM NoFrameDroppedCorrect == Spec => []NoFrameDropped
<1>1. KeptInv => NoFrameDropped
  BY DEF KeptInv, Kept, KeptFrame, NoFrameDropped, HandedOver, Waits
<1> QED BY <1>1, KeptInvariant, PTL

\* What the run checks of every state holds for any sizes.
THEOREM BufferCorrect == Spec => []BufferInv
<1>1. TypeOK /\ AssemblyInv /\ OrderInv /\ KeptInv => BufferInv
  BY DEF BufferInv
<1> QED BY <1>1, TypeCorrect, AssemblyCorrect, OrderInvariant, KeptInvariant, PTL
=============================================================================
