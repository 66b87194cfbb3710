----------------------------- MODULE FrameList -----------------------------
(***************************************************************************)
(* The two frame lists of one playing camera (src/jni/playList.c) and the  *)
(* threads that meet at them:                                              *)
(*   the receive thread puts whole frames in (data_Callback);              *)
(*   the decode thread takes video frames out (GetVideoFrame);             *)
(*   the audio thread takes audio frames out (GetAudioFrame).              *)
(* Every list operation holds the mutex of its list, but the consumers     *)
(* look at the head, walk and test between two such operations.            *)
(***************************************************************************)
EXTENDS Naturals, Sequences

CONSTANTS
  MAX_FRAME_LIST_NUM, \* 200
  LOST_FRAME_NUM,     \* 25
  Want,               \* frame_cnt: audio frames one GetAudioFrame collects
  Nos,                \* the frame numbers a camera may send
  MaxIn               \* bound: frames received

ASSUME FrameListAssumption ==
  /\ MAX_FRAME_LIST_NUM \in Nat /\ LOST_FRAME_NUM \in Nat
  /\ Want \in Nat \ {0} /\ Nos \subseteq Nat /\ MaxIn \in Nat

VARIABLES
  vin, ain,         \* video and audio frames received so far
  vlist, alist,     \* VframeList, AframeList
  prev,       \* prev_Vframe_no
  v, held,    \* where GetVideoFrame stands, and its pVideoFrame
  listened,   \* isTalking, i_listIndex is this camera, and no other call keeps the thread
  a, chunk,   \* where GetAudioFrame stands, and its pAudioFrame
  index, copied,    \* index and cpySize (in frames) of GetAudioFrame
  lastSeen, lastHeard, \* ghosts: places of the last frames decoded and copied
  seen,       \* ghost: frame_no of the last frame decoded, {} if it was not noted
  dry         \* ghost: the skip of this call has found the list empty

video == <<vin, prev, v, held, lastSeen, seen, dry>>
audio == <<ain, listened, a, chunk, index, copied, lastHeard>>
vars  == <<vlist, alist, video, audio>>

\* A video frame: its place in its stream, its frame_no, whether it is an I
\* frame.  Of an audio frame the program looks at the length alone: fits says
\* that iPackLen is in its range.
VideoFrame == [pos : Nat \ {0}, no : Nos, key : BOOLEAN]
AudioFrame == [pos : Nat \ {0}, fits : BOOLEAN]
NULL == [pos |-> 0]

\* prev_Vframe_no starts at 2147483647, beyond every frame_no: no frame is far
\* from it.
NoPrev == {}
Beyond(no, numbers) == \E p \in numbers : no > p + LOST_FRAME_NUM
Far(no) == Beyond(no, prev)

\* tp_add_node walks to the last node and counts the links, one less than the
\* nodes, so a list of MAX_FRAME_LIST_NUM nodes still takes one more.
Full(list) == Len(list) # 0 /\ Len(list) - 1 >= MAX_FRAME_LIST_NUM

HeadOf(list) == IF list = <<>> THEN NULL ELSE Head(list)

Init ==
  /\ vin = 0 /\ ain = 0 /\ vlist = <<>> /\ alist = <<>>
  /\ prev = NoPrev /\ v = "idle" /\ held = NULL
  /\ lastSeen = 0 /\ seen = {} /\ dry = FALSE
  /\ listened = FALSE /\ a = "idle" /\ chunk = NULL /\ index = 0 /\ copied = 0 /\ lastHeard = 0

-----------------------------------------------------------------------------
\* The receive thread: st_inputFrameListTail.

\* A mutant: a full list gives up its oldest frame for the new one.
Input_DropsOldest(list, f) ==
  IF Full(list) THEN Append(Tail(list), f) ELSE Append(list, f)

\* A full list refuses the new frame.
Input(list, f) == IF Full(list) THEN list ELSE Append(list, f)

InputVideo ==
  /\ vin + ain < MaxIn /\ vin' = vin + 1
  /\ \E no \in Nos, key \in BOOLEAN :
       vlist' = Input(vlist, [pos |-> vin + 1, no |-> no, key |-> key])
  /\ UNCHANGED <<alist, prev, v, held, lastSeen, seen, dry, audio>>

InputAudio ==
  /\ vin + ain < MaxIn /\ ain' = ain + 1
  /\ \E fits \in BOOLEAN :
       alist' = Input(alist, [pos |-> ain + 1, fits |-> fits])
  /\ UNCHANGED <<vlist, listened, a, chunk, index, copied, lastHeard, video>>

-----------------------------------------------------------------------------
\* The decode thread: GetVideoFrame, with st_getFrameListHead inside.  It holds
\* dataList_mutex all the while, which the other two threads never ask for.

\* The list is looked at once under the lock, and the rest is without it.
VideoLooks ==
  /\ v = "idle" /\ vlist # <<>>
  /\ v' = IF Far(Head(vlist).no) THEN "skip" ELSE "found"
  /\ dry' = FALSE
  /\ UNCHANGED <<vin, vlist, alist, prev, held, lastSeen, seen, audio>>

\* Too many frames were lost: what is no I frame goes.
VideoSkips ==
  /\ v = "skip" /\ vlist # <<>> /\ ~Head(vlist).key
  /\ vlist' = Tail(vlist)
  /\ UNCHANGED <<alist, video, audio>>

VideoSkipped ==
  /\ v = "skip" /\ (vlist # <<>> => Head(vlist).key)
  /\ v' = "found" /\ dry' = (vlist = <<>>)
  /\ UNCHANGED <<vin, vlist, alist, prev, held, lastSeen, seen, audio>>

\* A mutant: only I frames are noted.
VideoNotes_KeysOnly ==
  /\ v = "found"
  /\ prev' = IF vlist = <<>> \/ ~Head(vlist).key THEN prev ELSE {Head(vlist).no}
  /\ v' = "return"
  /\ UNCHANGED <<vin, vlist, alist, held, lastSeen, seen, dry, audio>>

\* prev_Vframe_no follows the head, if there is one by now ...
VideoNotes ==
  /\ v = "found"
  /\ prev' = IF vlist = <<>> THEN prev ELSE {Head(vlist).no}
  /\ v' = "return"
  /\ UNCHANGED <<vin, vlist, alist, held, lastSeen, seen, dry, audio>>

\* ... and the head is read once more to be returned.
VideoTakes ==
  /\ v = "return"
  /\ held' = HeadOf(vlist)
  /\ v' = IF vlist = <<>> THEN "idle" ELSE "decode"
  /\ UNCHANGED <<vin, vlist, alist, prev, lastSeen, seen, dry, audio>>

\* A frame that came after the skip had emptied the list may have missed the note.
Comparable(f) == IF dry /\ prev # {f.no} THEN {} ELSE {f.no}

\* A mutant: a frame that does not decode stays where it is.
VideoDecodes_Keeps ==
  /\ v = "decode"
  /\ \/ lastSeen' = held.pos /\ seen' = Comparable(held) /\ vlist' = Tail(vlist)
     \/ UNCHANGED <<lastSeen, seen, vlist>>
  /\ held' = NULL /\ v' = "idle"
  /\ UNCHANGED <<vin, alist, prev, dry, audio>>

\* Decoded or not, the head of the list is removed.
VideoDecodes ==
  /\ v = "decode"
  /\ lastSeen' = held.pos /\ seen' = Comparable(held) /\ held' = NULL
  /\ vlist' = IF vlist = <<>> THEN vlist ELSE Tail(vlist)
  /\ v' = "idle"
  /\ UNCHANGED <<vin, alist, prev, dry, audio>>

VideoStep ==
  \/ VideoLooks \/ VideoSkips \/ VideoSkipped \/ VideoNotes
  \/ VideoTakes \/ VideoDecodes

-----------------------------------------------------------------------------
\* The audio thread: threadRunDecodeAudio and GetAudioFrame.  It reads one camera
\* at a time, and none unless the user listens.

ListenTo ==
  /\ listened' = ~listened
  /\ UNCHANGED <<ain, vlist, alist, a, chunk, index, copied, lastHeard, video>>

\* With a head whose length is out of range GetAudioFrame returns NULL, and the
\* frame stays where it is.  The frames behind it are not tested.
AudioStarts ==
  /\ a = "idle" /\ listened /\ alist # <<>> /\ Head(alist).fits
  /\ chunk' = Head(alist) /\ index' = 0 /\ copied' = 0 /\ a' = "copy"
  /\ UNCHANGED <<ain, vlist, alist, listened, video, lastHeard>>

\* The frame in hand is copied and then removed.
AudioCopies ==
  /\ a = "copy" /\ index < Want /\ chunk # NULL
  /\ copied' = copied + 1 /\ lastHeard' = chunk.pos
  /\ alist' = IF alist = <<>> THEN alist ELSE Tail(alist)
  /\ chunk' = NULL /\ a' = "next"
  /\ UNCHANGED <<ain, listened, vlist, video, index>>

\* A mutant: a wait for data counts as a frame.
AudioNext_CountsWaits ==
  /\ a = "next"
  /\ chunk' = HeadOf(alist) /\ index' = index + 1
  /\ a' = IF index + 1 < Want /\ alist = <<>> THEN "next" ELSE "copy"
  /\ UNCHANGED <<ain, listened, vlist, alist, video, copied, lastHeard>>

\* The next frame, or a pause and another try.
AudioNext ==
  /\ a = "next" /\ alist # <<>>
  /\ chunk' = Head(alist) /\ index' = index + 1 /\ a' = "copy"
  /\ UNCHANGED <<ain, listened, vlist, alist, video, copied, lastHeard>>

AudioReturns ==
  /\ a = "copy" /\ index = Want
  /\ a' = "idle" /\ chunk' = NULL
  /\ UNCHANGED <<ain, listened, vlist, alist, video, index, copied, lastHeard>>

AudioStep == AudioStarts \/ AudioCopies \/ AudioNext \/ AudioReturns

Next == InputVideo \/ InputAudio \/ ListenTo \/ VideoStep \/ AudioStep

Spec == Init /\ [][Next]_vars

\* The decode thread calls again and again, and so does the audio thread while
\* the camera is listened to.  The user's choice is not fair.
FairSpec == Spec /\ WF_vars(VideoStep) /\ WF_vars(AudioStep)

-----------------------------------------------------------------------------
\* The types of the variables.
TypeOK ==
  /\ vin \in Nat /\ ain \in Nat
  /\ vlist \in Seq(VideoFrame) /\ alist \in Seq(AudioFrame)
  /\ prev \subseteq Nos /\ seen \subseteq Nos
  /\ v \in {"idle", "skip", "found", "return", "decode"}
  /\ a \in {"idle", "copy", "next"} /\ listened \in BOOLEAN /\ dry \in BOOLEAN
  /\ held \in VideoFrame \cup {NULL} /\ chunk \in AudioFrame \cup {NULL}
  /\ index \in 0 .. Want /\ copied \in 0 .. Want
  /\ lastSeen \in Nat /\ lastHeard \in Nat

\* The frame a consumer works on is still the head of its list, so it is not
\* freed under its hands and the removal that follows removes that frame.
HeldIsHead ==
  /\ v = "decode" => vlist # <<>> /\ held = Head(vlist)
  /\ a = "copy" => alist # <<>> /\ chunk = Head(alist)

\* Of two frames decoded one after the other, the second is an I frame if it is
\* more than LOST_FRAME_NUM beyond the first, whatever has arrived between the
\* look at the list, the skip and the return.  Excepted is what the missing lock
\* lets through: a skip that empties the list ends without an I frame, and the
\* frame that arrives next is decoded; one that arrives late enough is not even
\* noted, and then the frame after it has nothing to be compared with.
GapEndsAtKey ==
  v = "decode" /\ ~dry /\ Beyond(held.no, seen) => held.key

\* GetAudioFrame returns a full buffer: as many frames as were asked for,
\* neither more than the buffer holds nor fewer after a wait for data.
AudioComplete == a = "copy" => copied = index

\* What holds in every state of the lists.
ListsInv == TypeOK /\ HeldIsHead /\ AudioComplete

\* No video frame stays at the head of its list for ever, and no audio frame
\* while its camera is listened to, unless its length is out of range.
Drains ==
  \A p \in 1 .. MaxIn :
    /\ []<>~(vlist # <<>> /\ HeadOf(vlist).pos = p)
    /\ []<>~(listened /\ alist # <<>> /\ HeadOf(alist).pos = p /\ Head(alist).fits)

\* Each list is a queue as its consumer is promised (StreamQueue): stream order,
\* nothing twice, nothing refused before MAX_FRAME_LIST_NUM + 1 frames wait.
Positions(list) == [i \in DOMAIN list |-> list[i].pos]

Video == INSTANCE StreamQueue WITH
  Cap <- MAX_FRAME_LIST_NUM + 1, given <- vin, queue <- Positions(vlist), last <- lastSeen
Audio == INSTANCE StreamQueue WITH
  Cap <- MAX_FRAME_LIST_NUM + 1, given <- ain, queue <- Positions(alist), last <- lastHeard

VideoIsQueue == Video!Spec
AudioIsQueue == Audio!Spec
=============================================================================
