------------------------- MODULE FrameList_proofs --------------------------
(***************************************************************************)
(* Proofs about FrameList: its types, that a consumer always works on the  *)
(* head of its list, that GetAudioFrame fills its buffer exactly, and that *)
(* each list implements StreamQueue.                                       *)
(***************************************************************************)
EXTENDS FrameList, TLAPS

\* Why the consumers are right: between two looks at its list a consumer relies
\* on the head staying where it is, and only the consumer itself removes it.
AudioCounts == a = "next" => copied = index + 1 /\ index < Want

\* Why a gap ends at an I frame: what the decode thread compares a head with is
\* the number of the frame it decoded last, once that one was noted, and a head
\* that was found is still the head when it is noted and when it is returned.
SeenIsNoted ==
  /\ v \in {"idle", "skip", "found"} \/ (v = "return" /\ vlist = <<>>) => seen \subseteq prev
  /\ v \in {"found", "return"} /\ ~dry => vlist # <<>>
  /\ v = "found" /\ ~dry /\ Far(Head(vlist).no) => Head(vlist).key
  /\ v = "return" /\ ~dry =>
       prev = {Head(vlist).no} /\ (Beyond(Head(vlist).no, seen) => Head(vlist).key)
  /\ v = "decode" /\ ~dry => prev = {held.no}

ListInv == HeldIsHead /\ AudioComplete /\ AudioCounts /\ SeenIsNoted /\ GapEndsAtKey

-----------------------------------------------------------------------------
\* Lists of frames.

\* The frames that the actions store are frames.
LEMMA FrameTypes ==
  /\ \A f \in VideoFrame : f.pos \in Nat \ {0} /\ f.no \in Nos /\ f.key \in BOOLEAN
  /\ \A f \in AudioFrame : f.pos \in Nat \ {0} /\ f.fits \in BOOLEAN
  /\ \A p \in Nat, no \in Nos, key \in BOOLEAN :
       [pos |-> p + 1, no |-> no, key |-> key] \in VideoFrame
  /\ \A p \in Nat, fits \in BOOLEAN : [pos |-> p + 1, fits |-> fits] \in AudioFrame
BY DEF VideoFrame, AudioFrame

\* A new frame never displaces the head.
LEMMA InputKeepsHead ==
  ASSUME NEW S, NEW list \in Seq(S), NEW f \in S
  PROVE  /\ Input(list, f) \in Seq(S)
         /\ list # <<>> => Input(list, f) # <<>> /\ Head(Input(list, f)) = Head(list)
BY DEF Input

\* A list of frames without its first is one of frames.
LEMMA TailFrames ==
  ASSUME NEW S, NEW list \in Seq(S), list # <<>>
  PROVE  Tail(list) \in Seq(S) /\ Head(list) \in S
OBVIOUS

\* Taking places commutes with the operations on lists.
LEMMA PositionsOf ==
  ASSUME NEW S, \A f \in S : f.pos \in Nat, NEW list \in Seq(S), NEW f \in S
  PROVE  /\ Len(Positions(list)) = Len(list)
         /\ Positions(Append(list, f)) = Append(Positions(list), f.pos)
         /\ list # <<>> => /\ Positions(list) # <<>>
                           /\ Positions(Tail(list)) = Tail(Positions(list))
                           /\ Head(Positions(list)) = Head(list).pos
<1> DEFINE P(s) == [i \in DOMAIN s |-> s[i].pos]
<1>1. \A s \in Seq(S) : P(s) \in Seq(Nat) /\ Len(P(s)) = Len(s)
  OBVIOUS
<1>2. P(Append(list, f)) = Append(P(list), f.pos)
  <2>1. Append(list, f) \in Seq(S) OBVIOUS
  <2>2. Len(P(Append(list, f))) = Len(list) + 1 BY <1>1, <2>1
  <2>3. f.pos \in Nat OBVIOUS
  <2>4. \A i \in 1 .. Len(list) + 1 : P(Append(list, f))[i] = Append(P(list), f.pos)[i]
    BY <1>1, <2>1, <2>3
  <2> QED BY <1>1, <2>1, <2>2, <2>3, <2>4
<1>3. ASSUME list # <<>>
      PROVE  P(list) # <<>> /\ P(Tail(list)) = Tail(P(list)) /\ Head(P(list)) = Head(list).pos
  <2>1. Tail(list) \in Seq(S) /\ Len(list) > 0 BY <1>3
  <2>2. Len(P(Tail(list))) = Len(list) - 1 BY <1>1, <2>1
  <2>3. \A i \in 1 .. Len(list) - 1 : P(Tail(list))[i] = Tail(P(list))[i]
    BY <1>1, <2>1
  <2> QED BY <1>1, <1>3, <2>1, <2>2, <2>3
<1> QED BY <1>1, <1>2, <1>3 DEF Positions

-----------------------------------------------------------------------------
\* Types and the list invariant.

\* Both lists are empty at the start.
LEMMA ListInit == Init => TypeOK /\ ListInv
<1> SUFFICES ASSUME Init PROVE TypeOK /\ ListInv OBVIOUS
<1>1. TypeOK
  <2>1. vlist \in Seq(VideoFrame) /\ alist \in Seq(AudioFrame) BY DEF Init
  <2>2. index \in 0 .. Want /\ copied \in 0 .. Want
    BY FrameListAssumption DEF Init, FrameListAssumption
  <2> QED BY <2>1, <2>2 DEF Init, TypeOK, NoPrev
<1>2. HeldIsHead /\ AudioComplete /\ AudioCounts /\ GapEndsAtKey
  BY DEF Init, HeldIsHead, AudioComplete, AudioCounts, GapEndsAtKey
<1>3. SeenIsNoted BY DEF Init, SeenIsNoted, NoPrev
<1> QED BY <1>1, <1>2, <1>3 DEF ListInv

\* The receive thread.
LEMMA InputStep ==
  ASSUME TypeOK, ListInv, InputVideo \/ InputAudio
  PROVE  TypeOK' /\ ListInv'
<1> USE FrameListAssumption DEF TypeOK, ListInv, HeldIsHead, AudioComplete, AudioCounts,
        SeenIsNoted, GapEndsAtKey, Far, Beyond, video, audio
<1>1. CASE InputVideo
  <2>1. PICK f \in VideoFrame : vlist' = Input(vlist, f)
    BY <1>1, FrameTypes DEF InputVideo
  <2>2. vlist' \in Seq(VideoFrame) BY <2>1, InputKeepsHead
  <2>3. vlist # <<>> => vlist' # <<>> /\ Head(vlist') = Head(vlist)
    BY <2>1, InputKeepsHead
  <2>4. TypeOK' BY <1>1, <2>2 DEF InputVideo
  <2>5. ListInv' BY <1>1, <2>3 DEF InputVideo
  <2> QED BY <2>4, <2>5
<1>2. CASE InputAudio
  <2>1. PICK f \in AudioFrame : alist' = Input(alist, f)
    BY <1>2, FrameTypes DEF InputAudio
  <2>2. alist' \in Seq(AudioFrame) BY <2>1, InputKeepsHead
  <2>3. alist # <<>> => alist' # <<>> /\ Head(alist') = Head(alist)
    BY <2>1, InputKeepsHead
  <2>4. TypeOK' BY <1>2, <2>2 DEF InputAudio
  <2>5. ListInv' BY <1>2, <2>3 DEF InputAudio
  <2> QED BY <2>4, <2>5
<1> QED BY <1>1, <1>2

\* The decode thread.
LEMMA VideoThread ==
  ASSUME TypeOK, ListInv, VideoStep
  PROVE  TypeOK' /\ ListInv'
<1> USE FrameListAssumption, FrameTypes, TailFrames
        DEF TypeOK, ListInv, HeldIsHead, AudioComplete, AudioCounts, SeenIsNoted, GapEndsAtKey,
            Far, Beyond, video, audio
<1>1. CASE VideoLooks   BY <1>1 DEF VideoLooks
<1>2. CASE VideoSkips   BY <1>2 DEF VideoSkips
<1>3. CASE VideoSkipped BY <1>3 DEF VideoSkipped
<1>4. CASE VideoNotes
  <2>1. vlist # <<>> => Head(vlist) \in VideoFrame BY <1>4
  <2>2. TypeOK' BY <1>4, <2>1 DEF VideoNotes
  <2>3. ListInv' BY <1>4, <2>1 DEF VideoNotes
  <2> QED BY <2>2, <2>3
<1>5. CASE VideoTakes
  <2>1. vlist # <<>> => Head(vlist) \in VideoFrame BY <1>5
  <2>2. TypeOK' BY <1>5, <2>1 DEF VideoTakes, HeadOf
  <2>3. ListInv' BY <1>5, <2>1 DEF VideoTakes, HeadOf
  <2> QED BY <2>2, <2>3
<1>6. CASE VideoDecodes
  <2>1. held \in VideoFrame BY <1>6 DEF VideoDecodes
  <2>2. Comparable(held) \subseteq Nos BY <2>1 DEF Comparable
  <2>3. Comparable(held) \subseteq prev BY <1>6 DEF VideoDecodes, Comparable
  <2>4. TypeOK' BY <1>6, <2>1, <2>2 DEF VideoDecodes
  <2>5. ListInv' BY <1>6, <2>1, <2>3 DEF VideoDecodes
  <2> QED BY <2>4, <2>5
<1> QED BY <1>1, <1>2, <1>3, <1>4, <1>5, <1>6 DEF VideoStep

\* The audio thread, and the user who makes it read this camera or another.
LEMMA AudioThread ==
  ASSUME TypeOK, ListInv, AudioStep \/ ListenTo
  PROVE  TypeOK' /\ ListInv'
<1> USE FrameListAssumption, FrameTypes, TailFrames
        DEF TypeOK, ListInv, HeldIsHead, AudioComplete, AudioCounts, SeenIsNoted, GapEndsAtKey,
            Far, Beyond, video, audio, FrameListAssumption
<1>1. CASE AudioStarts  BY <1>1 DEF AudioStarts
<1>2. CASE AudioCopies
  <2>1. chunk \in AudioFrame BY <1>2 DEF AudioCopies
  <2> QED BY <1>2, <2>1 DEF AudioCopies
<1>3. CASE AudioNext    BY <1>3 DEF AudioNext
<1>4. CASE AudioReturns BY <1>4 DEF AudioReturns
<1>5. CASE ListenTo     BY <1>5 DEF ListenTo
<1> QED BY <1>1, <1>2, <1>3, <1>4, <1>5 DEF AudioStep

\* Every step keeps the types and the positions of both lists.
LEMMA ListStep == TypeOK /\ ListInv /\ [Next]_vars => (TypeOK /\ ListInv)'
<1>1. TypeOK /\ ListInv /\ UNCHANGED vars => (TypeOK /\ ListInv)'
  BY DEF TypeOK, ListInv, HeldIsHead, AudioComplete, AudioCounts, SeenIsNoted, GapEndsAtKey,
     Far, Beyond, vars, video, audio
<1> QED BY <1>1, InputStep, VideoThread, AudioThread DEF Next

\* Every variable of the lists and their threads keeps its type.
THEOREM TypeCorrect == Spec => []TypeOK
BY ListInit, ListStep, PTL DEF Spec

\* A consumer never works on a frame that is no longer the head of its list.
THEOREM ConsumerSafety == Spec => []HeldIsHead
<1>1. ListInv => HeldIsHead BY DEF ListInv
<1> QED BY <1>1, ListInit, ListStep, PTL DEF Spec

\* A frame decoded after a gap is an I frame, unless the skip emptied the list:
\* for any numbers, any size of a gap and any capacity.
THEOREM GapSafety == Spec => []GapEndsAtKey
<1>1. ListInv => GapEndsAtKey BY DEF ListInv
<1> QED BY <1>1, ListInit, ListStep, PTL DEF Spec

\* GetAudioFrame fills its buffer exactly.
THEOREM AudioExact == Spec => []AudioComplete
<1>1. ListInv => AudioComplete BY DEF ListInv
<1> QED BY <1>1, ListInit, ListStep, PTL DEF Spec

-----------------------------------------------------------------------------
\* Refinement: the video list.

\* A list whose positions fill the ring is as long as it.
LEMMA FullPositions ==
  ASSUME NEW S, \A f \in S : f.pos \in Nat, NEW list \in Seq(S), NEW f \in S
  PROVE  Positions(Input(list, f)) =
           IF Len(Positions(list)) < MAX_FRAME_LIST_NUM + 1
             THEN Append(Positions(list), f.pos) ELSE Positions(list)
<1>1. Full(list) <=> ~(Len(list) < MAX_FRAME_LIST_NUM + 1)
  BY FrameListAssumption DEF Full, FrameListAssumption
<1> QED BY <1>1, PositionsOf DEF Input

\* A step on the video list is a step of the queue, or leaves it.
LEMMA VideoRefines ==
  TypeOK /\ ListInv /\ [Next]_vars
    => Video!Next \/ UNCHANGED <<vin, Positions(vlist), lastSeen>>
<1> SUFFICES ASSUME TypeOK, ListInv, [Next]_vars
             PROVE  Video!Next \/ UNCHANGED <<vin, Positions(vlist), lastSeen>>
  OBVIOUS
<1>1. CASE InputVideo
  <2>1. PICK f \in VideoFrame : f.pos = vin + 1 /\ vlist' = Input(vlist, f)
    BY <1>1, FrameTypes DEF InputVideo, TypeOK
  <2>2. Positions(vlist') =
          IF Len(Positions(vlist)) < MAX_FRAME_LIST_NUM + 1
            THEN Append(Positions(vlist), vin + 1) ELSE Positions(vlist)
    BY <2>1, FrameTypes, FullPositions DEF TypeOK
  <2>3. Positions(vlist)' = Positions(vlist') BY DEF Positions
  <2> QED BY <1>1, <2>2, <2>3 DEF InputVideo, Video!Next, Video!Arrive
<1>2. CASE VideoSkips
  <2>1. /\ Positions(vlist) # <<>>
        /\ Positions(vlist') = Tail(Positions(vlist))
    BY <1>2, PositionsOf, TailFrames, FrameTypes DEF VideoSkips, TypeOK
  <2>2. Positions(vlist)' = Positions(vlist') BY DEF Positions
  <2> QED BY <1>2, <2>1, <2>2 DEF VideoSkips, video, Video!Next, Video!PassOver
<1>3. CASE VideoDecodes
  <2>1. vlist # <<>> /\ held = Head(vlist) /\ held \in VideoFrame
    BY <1>3, TailFrames DEF VideoDecodes, ListInv, HeldIsHead, TypeOK
  <2>2. /\ Positions(vlist) # <<>> /\ Head(Positions(vlist)) = held.pos
        /\ Positions(vlist') = Tail(Positions(vlist))
    BY <1>3, <2>1, PositionsOf, FrameTypes DEF VideoDecodes, TypeOK
  <2>3. Positions(vlist)' = Positions(vlist') BY DEF Positions
  <2> QED BY <1>3, <2>2, <2>3 DEF VideoDecodes, Video!Next, Video!Deliver
<1>4. CASE UNCHANGED <<vin, vlist, lastSeen>>
  BY <1>4 DEF Positions
<1>5. CASE VideoStep /\ ~VideoSkips /\ ~VideoDecodes
  BY <1>4, <1>5 DEF VideoStep, VideoLooks, VideoSkipped, VideoNotes, VideoTakes
<1>6. CASE AudioStep \/ ListenTo \/ InputAudio \/ UNCHANGED vars
  BY <1>4, <1>6 DEF ListenTo, AudioStep, AudioStarts, AudioCopies, AudioNext, AudioReturns,
     InputAudio, vars, video
<1> QED BY <1>1, <1>2, <1>3, <1>5, <1>6 DEF Next

\* The video list is the queue its consumer is promised, for any capacity.
THEOREM VideoImplements == Spec => VideoIsQueue
<1>1. Init => Video!Init
  BY DEF Init, Video!Init, Positions
<1> QED
  BY <1>1, VideoRefines, ListInit, ListStep, PTL DEF Spec, VideoIsQueue, Video!Spec

-----------------------------------------------------------------------------
\* Refinement: the audio list.

\* A step on the audio list is a step of the queue, or leaves it.
LEMMA AudioRefines ==
  TypeOK /\ ListInv /\ [Next]_vars
    => Audio!Next \/ UNCHANGED <<ain, Positions(alist), lastHeard>>
<1> SUFFICES ASSUME TypeOK, ListInv, [Next]_vars
             PROVE  Audio!Next \/ UNCHANGED <<ain, Positions(alist), lastHeard>>
  OBVIOUS
<1>1. CASE InputAudio
  <2>1. PICK f \in AudioFrame : f.pos = ain + 1 /\ alist' = Input(alist, f)
    BY <1>1, FrameTypes DEF InputAudio, TypeOK
  <2>2. Positions(alist') =
          IF Len(Positions(alist)) < MAX_FRAME_LIST_NUM + 1
            THEN Append(Positions(alist), ain + 1) ELSE Positions(alist)
    BY <2>1, FrameTypes, FullPositions DEF TypeOK
  <2>3. Positions(alist)' = Positions(alist') BY DEF Positions
  <2> QED BY <1>1, <2>2, <2>3 DEF InputAudio, Audio!Next, Audio!Arrive
<1>2. CASE AudioCopies
  <2>1. alist # <<>> /\ chunk = Head(alist) /\ chunk \in AudioFrame
    BY <1>2, TailFrames DEF AudioCopies, ListInv, HeldIsHead, TypeOK
  <2>2. /\ Positions(alist) # <<>> /\ Head(Positions(alist)) = chunk.pos
        /\ Positions(alist') = Tail(Positions(alist))
    BY <1>2, <2>1, PositionsOf, FrameTypes DEF AudioCopies, TypeOK
  <2>3. Positions(alist)' = Positions(alist') BY DEF Positions
  <2> QED BY <1>2, <2>2, <2>3 DEF AudioCopies, Audio!Next, Audio!Deliver
<1>3. CASE UNCHANGED <<ain, alist, lastHeard>>
  BY <1>3 DEF Positions
<1>4. CASE (AudioStep /\ ~AudioCopies) \/ ListenTo
  BY <1>3, <1>4 DEF ListenTo, AudioStep, AudioStarts, AudioNext, AudioReturns
<1>5. CASE VideoStep \/ InputVideo \/ UNCHANGED vars
  BY <1>3, <1>5 DEF VideoStep, VideoLooks, VideoSkips, VideoSkipped, VideoNotes,
     VideoTakes, VideoDecodes, InputVideo, vars, audio
<1> QED BY <1>1, <1>2, <1>4, <1>5 DEF Next

\* The audio list is the queue its consumer is promised, for any capacity.
THEOREM AudioImplements == Spec => AudioIsQueue
<1>1. Init => Audio!Init
  BY DEF Init, Audio!Init, Positions
<1> QED
  BY <1>1, AudioRefines, ListInit, ListStep, PTL DEF Spec, AudioIsQueue, Audio!Spec

\* What the run checks of every state holds for any bounds.
THEOREM ListsCorrect == Spec => []ListsInv
<1>1. TypeOK /\ HeldIsHead /\ AudioComplete => ListsInv BY DEF ListsInv
<1> QED BY <1>1, TypeCorrect, ConsumerSafety, AudioExact, PTL
=============================================================================
