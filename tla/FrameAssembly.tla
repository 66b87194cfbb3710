--------------------------- MODULE FrameAssembly ---------------------------
(***************************************************************************)
(* How Thread_MduRealVideo (src/jni/VideoInstance.c) puts media frames     *)
(* together again.  The media server cuts every frame into packets with    *)
(* consecutive 16-bit sequence numbers and the frame's time stamp; some    *)
(* packets never get to the client.  Packets that follow one another in    *)
(* one frame are collected in a buffer; the first packet of another frame  *)
(* hands the buffer over, if it holds a whole frame, and starts anew.      *)
(*                                                                         *)
(* Sizes are counted in packets.  A packet is read in two parts, head and  *)
(* body, and a body that does not come within 500 ms is given up, which    *)
(* leaves the reader in the middle of the byte stream.                     *)
(***************************************************************************)
EXTENDS Naturals, Sequences

CONSTANTS
  SeqMod,     \* 65536, the values of the sequence number
  BufPackets, \* packets the buffer takes: FRAME_MAX_SIZE_T less one MTU_LEN
  MaxParts,   \* packets of the largest frame sent
  MaxFrames   \* bound: frames sent

ASSUME FrameAssemblyAssumption ==
  /\ SeqMod \in Nat \ {0} /\ BufPackets \in Nat \ {0} /\ MaxFrames \in Nat
  /\ MaxParts \in Nat \ {0}
  \* no time stamp lasts for a whole round of sequence numbers
  /\ 2 * MaxParts <= SeqMod

VARIABLES
  cur, sent, seq,    \* server: the frame it sends, packets of it sent, next number
  twin,              \* server: cur has the time stamp of the frame before it
  nLastSeq, nLastTs, \* client: number and time stamp of the last packet
  buf,               \* client: full_frame_data up to nBufSize
  aligned,           \* client: its reader stands between two packets
  out,               \* the frames given to m_lpFunc
  got,               \* ghost: packets of cur that were read
  whole, wrapped     \* ghost: frames read in full; frames whose numbers wrap

server == <<cur, sent, seq, twin>>
client == <<nLastSeq, nLastTs, buf, aligned, out>>
vars   == <<server, client, got, whole, wrapped>>

Seqs  == 0 .. SeqMod - 1
Sizes == 1 .. MaxParts

Frames == [id : Nat, ts : Nat, size : Sizes, known : BOOLEAN]

\* A packet's part of a frame; "known" if the client plays frames of its type.
Part == [frame : Nat, no : Sizes, size : Sizes, known : BOOLEAN]
Junk == [frame |-> 0, no |-> 0, size |-> 0, known |-> FALSE]

PartOf(f, i) == [frame |-> f.id, no |-> i, size |-> f.size, known |-> f.known]
PartsOf(f)   == [i \in 1 .. f.size |-> PartOf(f, i)]

Init ==
  /\ cur \in [id : {1}, ts : {1}, size : Sizes, known : BOOLEAN]
  /\ sent = 0 /\ seq \in Seqs /\ twin = FALSE
  /\ nLastSeq = 0 /\ nLastTs = 0 /\ buf = <<>> /\ aligned = TRUE
  /\ out = <<>> /\ got = 0 /\ whole = {} /\ wrapped = {}

-----------------------------------------------------------------------------
\* The client.

\* The frame head at the start of the buffer gives the size of the frame. (What
\* is not the first part of a frame is taken not to look like a head of its size.)
Complete == buf # <<>> /\ buf[1].no = 1 /\ Len(buf) = buf[1].size

\* A mutant: a gap in the numbers does not matter.
SameFrame_NoSeq(s, t) == nLastTs = t

\* A mutant: the time stamp does not matter.
SameFrame_NoStamp(s, t) == nLastSeq + 1 = s

\* nLastSeq is wider than seq: after SeqMod - 1 it waits for SeqMod, not for 0.
SameFrame(s, t) == nLastSeq + 1 = s /\ nLastTs = t

Collect(s, t, data) ==
  /\ SameFrame(s, t)
  /\ nLastSeq' = s
  /\ buf' = IF Len(buf) + 1 > BufPackets THEN <<>> ELSE Append(buf, data)
  /\ UNCHANGED <<nLastTs, out>>

\* A mutant: a frame handed over stays in the buffer.
HandOver_Keeps(s, t, data) ==
  /\ ~SameFrame(s, t)
  /\ out' = IF Complete /\ buf[1].known THEN Append(out, buf) ELSE out
  /\ nLastSeq' = s /\ nLastTs' = t /\ buf' = IF Complete THEN buf ELSE <<data>>

\* A mutant: the packet that completes the hand-over is not kept.
HandOver_Drops(s, t, data) ==
  /\ ~SameFrame(s, t)
  /\ out' = IF Complete /\ buf[1].known THEN Append(out, buf) ELSE out
  /\ nLastSeq' = s /\ nLastTs' = t /\ buf' = <<>>

HandOver(s, t, data) ==
  /\ ~SameFrame(s, t)
  /\ out' = IF Complete /\ buf[1].known THEN Append(out, buf) ELSE out
  /\ nLastSeq' = s /\ nLastTs' = t /\ buf' = <<data>>

Process(s, t, data) == Collect(s, t, data) \/ HandOver(s, t, data)

-----------------------------------------------------------------------------
\* Packets on their way.

NextSeq == IF seq + 1 = SeqMod THEN 0 ELSE seq + 1

\* The server's next packet leaves it.
Sends ==
  /\ sent < cur.size
  /\ sent' = sent + 1 /\ seq' = NextSeq
  /\ wrapped' = IF seq = 0 /\ sent > 0 THEN wrapped \cup {cur.id} ELSE wrapped
  /\ UNCHANGED <<cur, twin>>

\* A frame that has come in full is whole, unless the buffer is too small for it
\* or another frame shares its time stamp.
Arrives ==
  /\ aligned /\ Sends
  /\ Process(seq, cur.ts, PartOf(cur, sent + 1))
  /\ got' = got + 1
  /\ whole' = IF got + 1 = cur.size /\ cur.size <= BufPackets /\ ~twin
              THEN whole \cup {cur} ELSE whole
  /\ UNCHANGED aligned

\* Lost before it reaches the client.
Lost == Sends /\ UNCHANGED <<client, got, whole>>

\* The head of a packet is read, its body is late.
BodyTimesOut ==
  /\ aligned /\ Sends
  /\ aligned' = FALSE
  /\ UNCHANGED <<nLastSeq, nLastTs, buf, out, got, whole>>

\* From then on what is taken for a packet is none.  (Its time stamp is taken to
\* be none that a frame has.)
ReadsJunk ==
  /\ ~aligned /\ Sends
  /\ \E s \in Seqs : Process(s, 0, Junk)
  /\ UNCHANGED <<aligned, got, whole>>

\* A new data connection starts between two packets; buffer, number and time
\* stamp are those of the old one.
Relinked ==
  /\ ~aligned /\ aligned' = TRUE
  /\ UNCHANGED <<server, nLastSeq, nLastTs, buf, out, got, whole, wrapped>>

\* The server goes on to the next frame.  It may have the time stamp of the
\* last one (sound and picture of one moment), which then is not whole alone.
NextFrame ==
  /\ sent = cur.size /\ cur.id < MaxFrames
  /\ \E size \in Sizes, known \in BOOLEAN, same \in BOOLEAN :
       /\ same => ~twin
       /\ twin' = same
       /\ cur' = [id |-> cur.id + 1, ts |-> IF same THEN cur.ts ELSE cur.ts + 1,
                  size |-> size, known |-> known]
       /\ whole' = IF same THEN whole \ {cur} ELSE whole
  /\ sent' = 0 /\ got' = 0
  /\ UNCHANGED <<seq, wrapped, client>>

Next == Arrives \/ Lost \/ BodyTimesOut \/ ReadsJunk \/ Relinked \/ NextFrame

Spec == Init /\ [][Next]_vars

-----------------------------------------------------------------------------
\* The types of the variables; the buffer holds what it has room for.
TypeOK ==
  /\ cur \in Frames
  /\ sent \in 0 .. MaxParts /\ got \in 0 .. sent /\ seq \in Seqs /\ twin \in BOOLEAN
  /\ nLastSeq \in Seqs /\ nLastTs \in Nat /\ aligned \in BOOLEAN
  /\ buf \in Seq(Part \cup {Junk}) /\ Len(buf) <= BufPackets
  /\ out \in Seq(Seq(Part \cup {Junk}))

\* What goes to the callback is one frame, from its first packet to its last.
OnlyWholeFrames ==
  \A i \in DOMAIN out :
    /\ out[i][1].known
    /\ out[i] = [k \in 1 .. out[i][1].size |-> [out[i][1] EXCEPT !.no = k]]

\* What it rests on.  The buffer holds the beginning of a frame in order, if it
\* holds the beginning of a frame at all ...
InOrder ==
  \A k \in 1 .. Len(buf) :
    buf[1].no = 1 /\ k <= buf[1].size => buf[k] = [buf[1] EXCEPT !.no = k]

\* ... the numbers that lie between two packets are told apart although they
\* wrap, since no time stamp lasts for a round of them ...
Apart(a, b, d) == b = a + d \/ b = a + d - SeqMod

\* ... so the last packet in the buffer is a part of the frame being sent, or of
\* its twin before, and its number says which, unless the time stamp has changed.
Last == buf[Len(buf)]
LastIsKnown ==
  buf # <<>> /\ nLastTs = cur.ts =>
    \/ \E i \in 1 .. sent : Last = PartOf(cur, i) /\ Apart(nLastSeq, seq, sent - i + 1)
    \/ /\ twin /\ Last.no \in 1 .. Last.size /\ Last.size \in Sizes
       /\ Apart(nLastSeq, seq, Last.size - Last.no + sent + 1)

\* What is no packet has a time stamp that no frame has.
Stamps ==
  /\ cur.ts >= 1 /\ nLastTs <= cur.ts /\ sent <= cur.size
  /\ nLastTs = 0 => \A k \in DOMAIN buf : buf[k] = Junk

\* The inductive invariant.
AssemblyInv == InOrder /\ LastIsKnown /\ Stamps

\* Frames go to the callback in the order they were sent, none twice.
FramesInOrder ==
  \A i, j \in DOMAIN out : i < j => out[i][1].frame < out[j][1].frame

\* What it rests on: a frame is out only when the server has gone on to a later
\* one, and the frame that begins the buffer comes after all that are out.
FromThePast ==
  /\ cur.id >= 1
  /\ \A k \in DOMAIN buf : \/ buf[k].frame < cur.id
                           \/ \E i \in 1 .. sent : buf[k] = PartOf(cur, i)
OutBefore ==
  \A i \in DOMAIN out :
    /\ out[i][1].frame \in 0 .. cur.id - 1
    /\ buf # <<>> /\ buf[1].no = 1 => out[i][1].frame < buf[1].frame
OrderInv == FromThePast /\ OutBefore /\ FramesInOrder

\* A frame read in full is handed over, or is in the buffer and waits for the
\* packet that follows it.
HandedOver(f) ==
  f.known => \/ \E i \in DOMAIN out : out[i] = PartsOf(f)
             \/ buf = PartsOf(f)

\* No frame read in full is dropped, unless its numbers wrap.
NoFrameDropped == \A f \in whole : f.id \notin wrapped => HandedOver(f)

\* What it rests on.  The first packet of a frame without a twin starts the buffer
\* anew; while none of its packets is missed the buffer holds just these; and the
\* packet that follows a whole frame has another time stamp.
BeginsAnew == ~twin /\ got = 0 => nLastTs < cur.ts
Collected ==
  ~twin /\ got = sent /\ sent > 0 /\ cur.size <= BufPackets /\ cur.id \notin wrapped =>
    /\ buf = [k \in 1 .. sent |-> PartOf(cur, k)]
    /\ nLastTs = cur.ts /\ nLastSeq = (IF seq = 0 THEN SeqMod ELSE seq) - 1
Waits(f) ==
  /\ buf = PartsOf(f) /\ nLastTs = f.ts /\ f.ts >= 1
  /\ (f = cur /\ sent = cur.size) \/ f.ts < cur.ts
KeptFrame(f) ==
  /\ f \in Frames
  /\ f.id \notin wrapped /\ f.known =>
       (\E i \in DOMAIN out : out[i] = PartsOf(f)) \/ Waits(f)
Kept == \A f \in whole : KeptFrame(f)
KeptInv == BeginsAnew /\ Collected /\ Kept

\* What holds in every state of the buffer.
BufferInv == TypeOK /\ AssemblyInv /\ OrderInv /\ KeptInv
=============================================================================
