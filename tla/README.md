# A TLA+ development of the NVS surveillance client

The repository is an Android client for a video surveillance platform. Its core
is a native library in C (`src/jni`, loaded by `com.topvs.nvs`/`player` through
JNI) that logs in to a signalling server (CMU), opens cameras over a media
server (MDU), puts their frames together and hands them to decoder threads; the
screens that drive it are Java (`src/src/com/topvs`). This directory holds TLA+
modules of that core, the configurations with which TLC checks them, and
theorems about them that TLAPS checks. Paths below are relative to `src/`.

1. [Inventory](#1-inventory)
2. [Plan](#2-plan)
3. [Modules and the code they stand for](#3-modules-and-the-code-they-stand-for)
4. [Runs: what is checked, bounds, fairness](#4-runs)
5. [Theorems](#5-theorems)
6. [What the runs found in the code](#6-what-the-runs-found-in-the-code)
7. [Abstractions, and what is not modelled](#7-abstractions-and-what-is-not-modelled)
8. [Running it](#8-running-it)

## 1. Inventory

### The parts and how they meet

```
  DeviceListActivity / NVSPlayer (Java)          PlayActivity (Java)
     login, device tree, logout            ctl thread - openers - buttons - onDestroy
             |                                    |            |            |
  -----------|---------- JNI, interface.c --------|------------|------------|--------
             v                                    v            v            v
     st_cuapi.c  RequestLogin/Logout          StartPlay     StopPlay   GetVideoFrame
             |                                    |            |       GetAudioFrame
     clientlink.c: heart + recv threads     VideoInstance.c: heart + recv thread     ^
        |            |                            |                 |                |
        |      netglobal.c ResponseList <- requests (route, ...)    | frames         |
        v                                         v                 v                |
     tcpsock.c, httpAPI.c  ------------------  sockets        playList.c frame lists -'
```

Everything the parts share is shared without much protection: the flags are
plain `int`s, the response list and the frame lists have a mutex each, the array
of cameras has none. All waiting is polling.

### The parts

| Part | Where | State it keeps | Operations | Hard because |
|---|---|---|---|---|
| CMU signalling link | `jni/clientlink.c`, login/logout in `jni/st_cuapi.c` | `m_bLinkFlag`, `m_heartpthreadflag`, `m_recvpthreadflag`, `m_TcpSocket`, the instance | login, heartbeat, reconnect, receive, logout, delete | three threads on unlocked flags; a reconnect swaps the socket under the reader; logout frees what the threads use |
| Requests and answers | `jni/netglobal.c` | `ResponseList`; the number made of the clock | send, collect, wait with purge and time-out | many threads, one link; late answers; numbers that come again |
| Socket and HTTP transport | `jni/tcpsock.c`, `jni/httpAPI.c` | descriptor, a static address cache | connect, read n bytes, receive a message | a blocking `recv` behind a `select` that is compiled out |
| Camera session | `jni/VideoInstance.c` | `m_bLinked`, two thread flags, two descriptors, times of last receipt | start, beat, reconnect, read, quit | quit waits 1.5 s and frees; two connections that die separately; clock arithmetic |
| Frame assembly | `jni/VideoInstance.c` 226-392 | `nLastSeq`, `nLastTs`, `full_frame_data`, `nBufSize` | one packet | loss, wrap of the 16-bit number, overflow, reading out of step |
| Frame lists and readers | `jni/playList.c`, `GetVideoFrame`, `GetAudioFrame`, `data_Callback` in `jni/interface.c` | two lists with a mutex each, `prev_Vframe_no` | append, look at head, skip to key frame, remove | the readers look, decide and remove in separate critical sections |
| Play screen control | `PlayActivity.java`, `StartPlay`, `StopPlay` in `jni/interface.c` | `isStarted`, `retryCount`, `isActivityExit`, `g_videoInstArray` | walk, open, refresh, close, leave | a monitor that covers only some of it; leaving while a camera opens |
| Surfaces and decode threads | `PlaySFHCallBack.java`, `PlayViewAdapter.java`, `GetVideoFrame` | `isStoped`, `isExit`, the bitmap and its frame rate, `dataList_mutex` | surface created/destroyed, decode loop, refresh, photo | flags without a lock; the surface goes while its thread decodes; the native instance may be freed under `GetVideoFrame` |
| Pan, tilt and zoom | `PZLControlThread.java`, `jni/st_cuapi.c` | two monitors, `isCTLbussy`, `isCTLRunning` | press, release, leave | a lost notify leaves a camera turning |
| Alarms and measurements | `jni/clientlink.c`, `DeviceListActivity.java` | `gckInfo[]`, `g_alarm_count`, the object handed to the screen | receive, clear, fetch, show | writer, cleaner and reader take different locks or none |
| Talk | `jni/AudioInstance.c`, `jni/interface.c` | instance, thread flag, key | start, send, stop | sender and stop share the instance |
| Recording | `jni/interface.c`, `jni/mp4v2export.c` | `m_bRecord`, file handle, `keyFrameBuf` | start, write, stop | writer in the receive thread, stop sleeps 10 ms; key frame shared by all cameras |
| Playing files | `jni/interface.c`, `jni/mp4v2export.c`, `RecordPlayActivity.java` | two sample indexes | open, next sample, seek, close | limits of the indexes |
| Device and area tree | `jni/st_cuapi.c`, `jni/interface.c`, `DeviceListActivity.java`, `MyExpandableListAdapter.java` | `pAreaList`, `pDeviceList`, arrays for Java, groups, the chosen cameras | walk, list, tick, open | four numberings of the same devices; requests that fail in the middle of the walk; fixed arrays |
| Life of the library | `jni/st_cuapi.c`, `NVSPlayer.java`, `DeviceListActivity.java` | `pLibInstParam` | init, login, logout, delete from several screens | a late `onDestroy` logs out the next login |
| Decoder | `jni/playlib.c` | one FFmpeg context per camera | init, decode, free | wrapper; only its result matters |
| Stored recordings, further commands | `jni/st_cuapi.c` | - | one request, one answer each | nothing beyond *Requests and answers* |
| Messages | `jni/DecodeSip.c`, `jni/httpAPI.c`, `jni/gb2312.c` | - | build, parse, recode text | text, no state |
| Login, list, file and picture screens | `NVSPlayer.java`, `IPListActivity.java`, ... | forms, one SQLite table | - | main thread only |
| Clock-in application | `com/topvs/wanve` | - | web client | unrelated to the player |
| Vendored and generated | `jni/xml`, FFmpeg, mp4v2, resources | - | - | third party |

### What makes each part correct

- **Signalling link.** No thread touches the socket object or the instance after
  logout has freed it; a raised link flag means a login the server accepted; no
  heartbeat before it; a dead link is noticed and rebuilt; a logout returns
  whatever the two threads are doing.
- **Requests.** Each request gets its own answer, once, or none in time.
- **Camera session.** `m_bLinked` means an INVITE accepted on the present
  connection; StopPlay returns; nothing uses the instance afterwards; either
  connection is replaced when it dies.
- **Frame assembly.** Only whole frames reach the callback, in order, and none
  that came in full is dropped.
- **Frame lists.** A list is a bounded queue; a consumer never works on a frame
  that has been removed; after a gap decoding goes on with a key frame (section 6
  has the exception); no frame that its reader accepts stays for ever.
- **Play screen.** Nothing stays open behind the screen, no camera is freed
  twice, a failed one is tried again (section 6 has the exception), leaving comes to an end.
- **Surfaces.** One thread decodes, under the lock; a photo shows a picture; no order of a refresh and
  an opener leaves the picture off; a thread ends with its surface.
- **Pan, tilt and zoom.** What turns is held by a finger or about to be stopped.
- **Alarms.** An entry and a line hold reports of their own device; a report gets shown.
- **Device tree.** A group shows its own cameras; what is opened is what the row names.
- **Parts not modelled.** Nothing is written to a closed file, and a
  recording begins with its own key frame (recording); an old screen does not
  end a new session (life of the library).

`PROJECT.json` lists the hazards one by one with the line where each bites and
the properties that would catch it.

## 2. Plan

Written in this order, the most important behaviour first:

| Step | Modules | State |
|---|---|---|
| 1 | `ClientLink`, proofs | done |
| 2 | `ResponseQueue` against the abstract `Exchange`, proofs | done |
| 3 | `FrameList` against the abstract `StreamQueue`, proofs | done |
| 4 | `FrameAssembly`, proofs | done |
| 5 | `VideoSession`, proofs | done |
| 6 | `PlayControl`, proofs | done |
| 7 | `Surfaces`: decode threads, the opener's and the refresh's end of `PlayControl`, `GetVideoFrame` against `StopPlay`; proofs | done |
| 8 | `PtzControl`: the start and stop threads of `PZLControlThread`; proofs | done |
| 9 | `AlarmTable`: `gckInfo` with writer, reader and clear; proofs | done |
| 10 | `DeviceTree`: the walk, the lists and the choice of cameras; proofs | done |
| 11 | recording and talk against the receive thread | not modelled (section 7) |
| 12 | logins of several screens on `pLibInstParam` | not modelled (section 7) |
| 13 | the reader of MP4 files | not modelled (section 7) |

Composition: `FrameAssembly`'s `out` is what `FrameList`'s `InputVideo` and
`InputAudio` take; `VideoSession`'s `UiCreates` ... `UiCloses` are the inside of
`PlayControl`'s `OpenerCreates`/`OpenerOpens` and `StopReads`/`StopFrees`; `AlarmTable`'s receive
thread is what `ClientLink`'s `RecvReads` does with a notification, and its heart the clearing in
`ClientLink`'s disconnect. They are kept apart because each interface is narrow (a whole frame; open or
not; cleared or not) and each side is already large. Where the interface is not narrow, the memory of an
instance between `StopPlay` and its readers, `Surfaces` joins both sides for one camera: decode threads,
openers, refresh and the main thread with `StopPlay` step by step.

Abstract specifications: `Exchange` (one answer per request), `StreamQueue` (a
bounded queue).

Every safety property that a run checks, and every refinement, is also a theorem
(section 5). Runs are kept to one per question: an inductive
invariant is checked as one property (`LinkInv`, `CameraInv`, ...), whose parts are named in the module.

## 3. Modules and the code they stand for

Each `X` has an `MCX` that gives TLC its constants, and mostly an `X_proofs`. Two components that meet at
one thread share a proof module: `Received_proofs` (`ResponseQueue` and `AlarmTable`, what the receive thread of the
link hands on) and `Screens_proofs` (`DeviceTree` and `PtzControl`, what the screens make of the cameras).
`PROJECT.json` maps every definition to the lines it stands for. An operator
named `Foo_Something` next to `Foo` is a mutant of it: a plausible mistake, which
the runs are required to notice.

**`ClientLink`.** Variables `ui`, `heart`, `recv` say where `RequestLogin`/`RequestLogout`,
`Thread_Client_Heart` and `Thread_Client_Recv` stand; an action is the stretch of
a thread's code between two places where another thread's step could matter.
`linkFlag`, `heartFlag`, `recvFlag` are the three flags with the code's values
(0, 1, 2, 10); `sock` and `lib` say whether the socket object and the instance
are allocated. The connection is `conn` ("none" no descriptor, "open" a socket
not connected, "up", "down" the peer is gone without a word), what lies unread on it (`inbox`), what
the server still has to answer (`asked`) and whether it accepted a login (`auth`).
A glitch is a slow answer, a refusal, a server's name that is not found or a failure to connect; they are bounded by
`MaxGlitch`. `ServerAnswers`, `ServerPushes` and `PeerLost` are the server and the
network.

**`ResponseQueue`**, **`Exchange`**. Each thread's `call` is its request; the request
carries a command and `CreateSeqByTime`, the clock modulo a day. `ResponseList` is the
code's list, newest first; `StartsToWait` is the purge at the start of
`WaitForResponse`, `Takes` one pass of its search that succeeds, `TimesOut` its
end. `id` and `taken` are ghosts that tell apart what the program cannot. The purge is stated by its result,
which is all that a loop over a linked list is good for: what is younger than `Keep` stays, in its order. A request's number is
taken from the clock in milliseconds; `GetDeviceList` alone draws it from `rand()` seeded by the second, and has one caller (section 7).
`Exchange` says each thread gets the answer to its request once or none.

**`FrameList`**, **`StreamQueue`**. `vlist` and `alist` are the two lists with what
each consumer needs of a frame: its place in the stream, `frame_no`, I frame or not.
`v` and `a` are where `GetVideoFrame` and `GetAudioFrame` stand, `held` and `chunk`
their local pointers. Of an audio frame the code looks only at its length field: `fits` says that it is in range. `listened` is up
while `PlayActivity` talks to this camera, the only time when the audio thread calls; the user switches it as he likes (`ListenTo`). The
ghosts `seen` and `dry` remember the number of the frame decoded last and that the skip of the present call has emptied the list. `Input` is `tp_add_node` with its capacity test, which counts links and so
admits `MAX_FRAME_LIST_NUM + 1` frames. `StreamQueue` is the queue a list promises to be.

**`FrameAssembly`.** `Collect` and `HandOver` are the two branches of the loop in
`Thread_MduRealVideo`; the server (`cur`, `sent`, `seq`, `twin`) numbers packets modulo `SeqMod`.
`Lost`, `BodyTimesOut`, `ReadsJunk` and `Relinked` are what may happen on the way:
a packet that never comes, a head that was read without its body, what is then
taken for packets, and a new data connection. `NextFrame` may give a frame the
time stamp of the one before (a `twin`). `out` is what was handed over; the ghosts `whole`
and `wrapped` are the frames read in full that fit the buffer and are no twin, and those whose numbers wrap.

**`VideoSession`.** As `ClientLink`, for one `VideoInstance_t`: `ui` is `StartPlay` and
`StopPlay`, `ctl` and `data` the two connections to the media server. `silent`
counts the heart's sleeps since its last answer, `idle` the receive thread's
reads since its last data; `TimedOut` is the 32-bit arithmetic of line 318 with
`IntMax` for `INT_MAX` and `Epoch` for the time of day. `slow` says what may take longer than the 1.5 s that
`videoi_QuitInstance` waits for each thread: a call that runs into `CmdTimeOut`, several seconds, is slow, and without "net" what
fails fails at once, as on a connection that was reset. `dwLastRecv` is set before a reconnection and not after it, so one that waits long for its
route has a link that is given up at the next wake (`HeartRoute`).

**`PlayControl`.** `ctl` is the thread of `createThreadPool` and its monitor
`m_startPlayLock`, `op[o]` an opener in `threadRunOpenVideo`, `ui` the main thread in a button or in
`onDestroy`. `array` is `g_videoInstArray`; `holds[t]` is the pointer a `StopPlay`
of thread `t` has read and not yet cleared, `freed` what has been freed while somebody holds it.

**`Surfaces`.** `dec[t]` is where the decode thread of the surface's `t`-th life stands in
`StartDecode_Video` and `GetVideoFrame`, `owner` who has `dataList_mutex`, `mBitmap` whether the callback's bitmap is
missing, empty or holds a picture, `rated` whether `i_frameRate` is above 0. `op[o]` and `stop[s]` are openers and the steps of a
`StopPlay`, by an opener or by the main thread; `inst` is the entry of `g_videoInstArray`. A
`StopPlay` that frees the instance while somebody holds its address sets `spoilt`, where the model stops (section 7). A surface that goes marks
`isExit` and interrupts its thread (`Interrupted`): whichever the thread meets first, the test or a sleep, ends it. The sleep after a picture is
left out when pictures come slowly, so without the mark the interrupt alone need not end it.

**`PtzControl`.** `startT` and `stopT` are the two threads with their monitors: a notify reaches a thread only
in "wait", and the main thread (`ui`) waits for a monitor that is held. `busy` and `running` are `isCTLbussy` and
`isCTLRunning`, `turning` the cameras that the server has been told to turn.

**`AlarmTable`.** `table` is `gckInfo`: an entry has a device, the second of its last report and, in place of the values,
the set of devices whose reports have been written there. `recv`, `dev`, `index` are the receive thread in `clientlinkProcessRecvData`,
`timer`, `turn`, `at`, `info` the `TimerTask` with `g_AlarmDevID` and the one object it fills, `rows` the lines of the screen.

**`DeviceTree`.** `tree` is what the server would answer, `todo`, `areaList`, `deviceList` the walk of
`GetGUInfosList`; `camStatus` and `camName` are the arrays given to Java, `groups` the groups of the list view, `selected`
the chosen cameras, `mark` and `drawn` the ticks as stored and as shown, `playing` what the play screen opens. A loop that copies
what passes a test is `Pick(s, S)`: what stands in `s` at the places `S`, in ascending order (`Places`). The rows of a list of groups are
the set `RowsOf`, and `getChildId`'s sum over the groups before is the number of rows before (`Before`). `selected` is an `ArrayList`
whose `remove(Object)` takes out the first that is equal: a camera chosen twice stays chosen once (`RemoveFirst`).

## 4. Runs

| Run | Question | Answer |
|---|---|---|
| `link` | Login, heartbeat, reconnect, receive and logout in every order of three threads | No thread outlives what it uses (`NoUseAfterFree`); the flag means an accepted login (`LinkFlagTruth`), and so does a heartbeat (in `LinkInv`, the inductive invariant of the proofs); a dead link is noticed (`DeadPeerNoticed`) and rebuilt (`LinkRecovers`); a logout gets through (`LogoutCompletes`) |
| `responses` | Does each thread get its own answer, if like requests are never made in one millisecond? | Yes: `IsExchange`; at most one answer waits for a thread (in `QueueInv`, the inductive invariant) |
| `frames` | Are both lists queues, with consumers that look, decide and remove in separate critical sections? | Yes: `VideoIsQueue`, `AudioIsQueue`; a consumer holds the head and `GetAudioFrame` fills its buffer (`ListsInv`); after a gap decoding goes on with a key frame, unless the skip finds the list empty (`GapEndsAtKey`); no video frame stays for ever, and no audio frame of a proper length while its camera is listened to (`Drains`) |
| `assembly` | What reaches the callback when packets are lost, late, wrap or overflow? | Whole frames (`OnlyWholeFrames`), in order (`FramesInOrder`), all that came in full and whose numbers do not wrap (`NoFrameDropped`). `BufferInv` is the inductive invariant of the proofs |
| `video` | One camera's threads in every order, on a network and a scheduler that may be slow | A raised flag means an accepted INVITE (`CameraInv`); `StopCompletes`, `CtlRecovers`; `NoUseAfterFree` while nothing is slow |
| `video_data_dead` | Is a dead data connection replaced? | No (section 6) |
| `play` | Openers, buttons, failures and leaving in every order | `NothingLeftOpen`; a camera whose opener failed, and which no other opener hides, is tried again (`FailureIsRetried`); `ExitReturns`. `ScreenInv` is the inductive invariant of the proofs |
| `play_exit` | Is every instance stopped once when the screen is left? | No (section 6) |
| `ptz` | A button pressed, released, cancelled or abandoned at any moment, on two cameras | While the finger is slower than the threads, what turns is held or about to be stopped (`TurningIsHeld`) and comes to rest (`ReleaseStops`); a screen left with both threads waiting stops the camera and ends them (`LeavingStops`). `ControlInv` is the inductive invariant |
| `alarms` | Reports, a reconnection and the timer in every order | Entries and lines hold their own device's reports (`AlarmInv`); until the table is cleared only claimed entries are read (`ReadsClaimed`); the last report of a device is shown, if it stays and has a line (`ReportIsShown`) |
| `surfaces` | One camera opened, failing, refreshed and photographed while its surface comes and goes | One thread decodes, under the lock, and the list is freed under it (`SurfacesInv`); `PhotoIsWhole`; the picture never stays switched off (`NotStuck`); `ThreadsEnd`; `PictureComes` |
| `tree` | 37 trees, any request unanswered, and every choice of rows | `TreeInv`, the inductive invariant: the walk counts every device where it belongs, and arrays, groups and choice follow from that; `GroupShowsItsCameras`; `ChosenIsPlayed` |

### Bounds and why they are enough

- `link`: `MaxFails = 3` is the code's own; `Polls = 2` gives the quit flag one poll in
  the middle of a pause and one at its end; `InboxCap = 2` lets a notification lie before or behind a
  reply; `MaxGlitch = 4` is the number of slow answers in a row that end a
  link (`count > 3`); a wait for an answer that cannot come any more costs no glitch, so a link is also lost, rebuilt and lost again.
- `responses`: a day of 6 ticks with `Keep + Wait < Day`, as in the code (3 s and 10 s against
  a day), and a clock that runs to 7, so that a number comes again; three threads, two of which send the
  same command; three requests, so that a late answer meets a later request of its kind.
- `frames`: capacity 2 (3 frames) and five frames received, so that each list fills, refuses
  and drains; numbers 0 to 3 with `LOST_FRAME_NUM = 1` contain steps that are small, far and backwards, and any of them on frames
  that are key frames or not, in any order.
- `assembly`: 6 numbers, frames of up to 3 packets, a buffer for 2, three frames: the numbers
  wrap in the middle and at the edge of a frame, the largest frame overflows, and 2 * 3 <= 6 makes
  the assumption that a time stamp lasts for less than a round of numbers tight.
- `video`: the heart gives up after 3 sleeps (code: 15 s in sleeps of 5 s); `Limit = 2` and an
  `IntMax` of 7 with `Epoch = 100` put the clock beyond `INT_MAX`, as milliseconds since 1970 are.
- `play`: one camera, two tries, three events among failures and buttons: a camera fails twice, or fails, is closed or refreshed and fails again,
  with two openers of it at once, and every order of that with leaving. Two cameras with as many events are out of reach
  (beyond twenty million states); the theorems hold for any number.
- `ptz`: two cameras, so that a stop can be sent to the wrong one; nothing else is counted.
- `alarms`: three devices for a table of two entries, so that one is turned away, and one line, so that others find none (the
  invariant is proved for any number). One reconnection and two seconds let an entry be cleared, claimed by another device and reported
  again. `MaxCount = 2` keeps `g_alarm_count` within the table (section 6); `Turns = 2` is a multiple of every count, so
  `g_AlarmDevID` loses nothing by being kept modulo it.
- `surfaces`: two openers at once, the code's two tries, two lives of the surface, and three events among refresh, photo,
  a failed opening and a picture that does not decode: an opener that fails meets another that succeeds, each with a refresh and a photo between.
- `tree`: answers of two or four entries are cut off by trees of three areas and three devices; the trees have empty areas, devices before, between and
  behind areas, off-line cameras and devices that are no cameras. Three taps are one more than `MAX_OPEN_COUNT`.

Where a cfg says `CHECK_DEADLOCK FALSE` the system really may stop: the input, the clock or the
events are bounded (`frames`, `assembly`, `responses`, `play`, `alarms`, `surfaces`, `tree`), the screen ends (`play`, `ptz`), or an
instance is gone and what is left of its threads blocks in `recv` (`video`).

### Fairness

Weak fairness of each thread's own steps, and of no user action and no fault:

- `ClientLink`: the three threads run, waits with a time limit run out, and a connected server that is
  asked answers. Its answer may still come too late (a glitch); glitches are bounded, which is what
  "once the network behaves" means for `LinkRecovers`.
- `VideoSession`: the three threads run. A read that blocks in `recv(2)` is a state the
  receive thread need not leave, since nothing in the code ends it.
- `FrameList`: the decode thread runs, and the audio thread while this camera is listened to and, in a call once begun, to its end (`StopChart` does
  not break off `GetAudioFrame`). The receive thread need not, and the user need not ever listen (`ListenTo` is unfair, and `AudioStarts` is disabled
  while he does not).
- `PlayControl`: `ctl`, the main thread once it is inside a call, and the openers taken together. Weak fairness of
  the monitor's waiters is enough because button presses are bounded.

- `PtzControl`: both threads, and the main thread inside a call. `DomeControl` ends: it has a time limit. Pressing and releasing are the person's.
- `AlarmTable`: the timer and the main thread's handler. Reports need not come.
- `Surfaces`: each decode thread, each opener, each `StopPlay` and the main thread inside a call; and a camera that is live sends
  frames (`Receives`), without which no picture could come. Nothing is promised once `spoilt` is set.

No strong fairness is used. `assembly`, `responses` and `tree` check safety only.

## 5. Theorems

All hold for every value of the constants that meets the module's named assumption.

| Module | Theorem | Says |
|---|---|---|
| `ClientLink_proofs` | `LinkCorrect`, `MemorySafety`, `FlagTruth`, `BeatTruth` | types and the inductive invariant; `NoUseAfterFree`; `LinkFlagTruth`; a heartbeat is only under way where a login was accepted |
| `FrameList_proofs` | `ListsCorrect` (from `ConsumerSafety`, `AudioExact`), `GapSafety`, `VideoImplements`, `AudioImplements` | types, the frame held is the head, the audio count; `GapEndsAtKey`; each list implements `StreamQueue` |
| `FrameAssembly_proofs` | `BufferCorrect`, `WholeFramesCorrect`, `OrderCorrect`, `NoFrameDroppedCorrect` | types and the inductive invariants; `OnlyWholeFrames`; `FramesInOrder`; `NoFrameDropped` |
| `VideoSession_proofs` | `CameraCorrect` (from `LinkTruth`), `MemorySafety` | types, and a raised flag means an accepted INVITE, whatever is slow; `NoUseAfterFree`, whose premise is `slow = {}` |
| `PlayControl_proofs` | `ScreenCorrect`, `ExitClean` | types and the inductive invariant; `NothingLeftOpen` |
| `Received_proofs` | `QueueCorrect`, `QueueIsExchange` | `QueueInv`, and that `ResponseQueue` implements `Exchange`, for any threads, commands, times and numbers of requests, if like requests are never made in one millisecond (`~Crowded`; section 6 says what happens otherwise) |
| | `AlarmCorrect`, `ClaimedIsRead` | the inductive invariant; `ReadsClaimed`, for any number of devices, entries and lines |
| `Screens_proofs` | `TreeCorrect`, `GroupsCorrect`, `ChosenCorrect` | `TreeInv`; `GroupShowsItsCameras`; `ChosenIsPlayed`, for any trees, any sizes of the lists and any number of taps |
| | `ControlCorrect`, `TurningHeld` | the inductive invariant; `TurningIsHeld`, for any set of cameras |
| `Surfaces_proofs` | `SurfacesCorrect`, `PhotoCorrect`, `NotStuckCorrect` | the inductive invariant; `PhotoIsWhole`; `NotStuck`, for any size of the pool and any number of lives of the surface |

The arguments:

- *Link.* That nothing is used after it is freed is not inductive: nothing in it says why `ui` may go on
  once a flag is below 2. `SessionInv` adds where threads may run at each place of `ui` and that a running
  thread's flag is 2 or 10 (`ThreadsInSession`), what is allocated there (`MemoryInSession`), and which
  flag, reply or pending heartbeat stands for an accepted login (`LoginTruth`).
- *Lists.* A consumer's frame stays the head because only it removes from its list and adding changes
  only the end. For the refinement each step of the program is matched with an arrival, a delivery, a frame passed
  over, or a stutter; the capacity of the queue is `MAX_FRAME_LIST_NUM + 1`, by the test of `tp_add_node`. For the gap: what was decoded last is
  what `prev_Vframe_no` holds, or it was not noted at all and has nothing to be compared with (`SeenIsNoted`), and a frame that is far from it
  leaves the skip only as a key frame or because the list was empty.
- *Assembly.* That the buffer holds the beginning of one frame in order (`InOrder`) is kept by a step
  only if a packet that is counted to the buffer really follows its last. `LastIsKnown` says what the
  number of that last packet still means: the packets sent since then are fewer than there are numbers,
  so "one higher" means "next". The place where it could fail is a frame that shares the time stamp of the one before;
  there the buffer is followed by the first packet of the other frame only when it is complete, and is then too long to
  be handed over. `Stamps` deals with what is no packet.
  The assumption used is `2 * MaxParts <= SeqMod`. Frames come out in order because what is out is older than
  what the buffer begins with (`OutBefore`), and everything in the buffer was sent (`FromThePast`). That none is dropped
  needs to know of a frame read in full that it is out or that the buffer holds it alone and the next packet has another time
  stamp (`Waits`), and of a frame half read that the buffer holds just what was read (`Collected`): the first packet of a
  frame without a twin starts the buffer anew (`BeginsAnew`).
- *Answers.* A request and its answer are traced to the moment `s` at which the request was sent (`AllTraced`): a thread that is busy is
  busy with this request exactly if it has this command and began at `s`. A leftover could carry the number of a later request only a
  day later. But a thread that waits began to wait less than `Keep` after anything in the list came (`InTime`, by the purge), the
  server answers within a day less `Keep`, and the thread waits for at most `Wait`: with `Keep + Wait < Day` the two moments are
  less than a day apart, so equal numbers mean one moment and one request. `TakesOwn` is the step that maps to `Exchange`'s; each id is in one
  place only (`EachOnce`), so an answer that is taken leaves no second one. Every other step maps to a request made, one given up,
  or a stutter.
- *Camera.* One invariant for the link (whatever is slow), one for where threads may run. The second
  holds only under `slow = {}`: with a slow exchange `QuitInstance` gives up waiting and frees (section 6).
- *Screen.* "Nothing is left open" follows from two facts about an open camera: somebody knows of it
  (it is marked as started, or an opener stands where it will mark or close it), and once `onDestroy` has
  swept over it only an opener that has still to look at `isActivityExit` is left.

- *Turning.* `TurningIsHeld` alone does not survive a step: it has to be known that a press finds the stop thread in `wait()`, that a
  start under way belongs to a button whose stop has not passed its loop, and that the stop thread lowers `isCTLRunning` over a
  camera at rest (`InTurn`), and that `isCTLbussy` is up exactly while a start is sent (`BusyIsSending`).
- *Alarms.* The receive thread looks for its entry from the first, so what lies before `dev_index` belongs to others; an entry's device, once
  written, changes only by the clearing, and from that moment on the report under way is `spoilt`.
- *Tree.* The rows that the entries of `pAreaList` count, one entry behind the other, are the places of the list of devices (`Listed`). An
  area's answer goes to the end of the list of devices, so its rows must be the last of all: the areas still to be asked for come in
  their order and nothing behind the first of them is counted yet (`TodoAhead`), and `atoi(AreaID)` finds the entry of the area
  (`AreasInPlace`). A request that stays unanswered leaves an entry of 0 and shifts nobody. Sums are numbers of rows here, so the steps
  are facts about cardinalities: `LastRows` (an entry behind which nothing is counted has the last rows), `ShownRows` (dropping empty
  entries keeps the rows before), `PlacesAscend` (what `Places` lists). `GroupShowsItsCameras` then says that where only cameras come before, place among
  the cameras and place in the list agree; `ChosenIsPlayed` that `CamStatusArray` and `ArrayGUName` are filled from one and the same place.
  Used of the server's tree: its areas are numbered as they come, and no device is in two places.
- *Surfaces.* A frame rate above 0 means that the bitmap has a picture, because the decode thread lowers it before it makes a new bitmap
  (`RateIsPicture`); a thread that tests `isStoped` while it is raised does not get past the test, so the threads rest while a photo is taken
  (`PhotoStops`). For `NotStuck`: an opener marks the camera before it lowers `isStoped`, and the refresh raises `isStoped` before it looks at the mark.

Only model-checked: every liveness property (`LogoutCompletes`, `LinkRecovers`, `DeadPeerNoticed`, `Drains`,
`StopCompletes`, `CtlRecovers`, `FailureIsRetried`, `ExitReturns`, `ReleaseStops`, `LeavingStops`, `ReportIsShown`, `ThreadsEnd`,
`PictureComes`), since liveness under fairness and ENABLED are out of the prover's reach. So is induction over data,
which is why loops over lists are stated by their results (`Young`, `Pick`, `Before`) and not by recursion: the proofs
take it from there, and that the C and Java loops compute these results is the reader's to compare.

## 6. What the runs found in the code

| Run | Where | What |
|---|---|---|
| `video_data_dead` | `jni/VideoInstance.c:318` | The clock is cut to 32 bits before the subtraction: a silent data connection never times out |
| `play_exit` | `PlayActivity.java:1030` | An opener that ends after the exit and `onDestroy` stop the same instance, which is freed twice |

Where the other modules meet a disagreement between the code and its comments, it is a premise or an exception of a
property, named in the module, and the model contains what happens:

| Where | What | In the model |
|---|---|---|
| `jni/clientlink.c:555` | The receive thread tests the link flag and reads afterwards; on a reconnect it may take the login reply from the new connection, although comments (256, 287) say no receive thread runs then. The login fails and is tried again | `ClientLink`: `LinkRecovers` holds with it |
| `jni/netglobal.c:183` | Two like requests in one millisecond carry one number, and the threads may get each other's answers | `ResponseQueue`: `IsExchange` fails with `Crowded = TRUE` |
| `jni/VideoInstance.c:345` | `nLastSeq + 1` is never 0, so a frame whose packets go from 65535 to 0 is dropped | `FrameAssembly`: `NoFrameDropped` leaves out `wrapped` |
| `jni/playList.c:186` | A skip that empties the list ends without a key frame, and what the receive thread adds before the next look is returned: a P frame is decoded after a gap. If it comes later still it is not noted in `prev_Vframe_no` | `FrameList`: `GapEndsAtKey` leaves out `dry` |
| `jni/interface.c:735` | With a length field out of range `GetAudioFrame` returns and leaves the frame at the head: that camera has no sound any more | `FrameList`: `Drains` leaves out heads that do not fit |
| `PlayActivity.java:442` | Each notify starts the walk anew: a camera still being opened gets a second opener, for which `StartPlay` returns 0 (`jni/interface.c:518`) and which marks it as started. If the first fails then, the camera is never tried again | `PlayControl`: `FailureIsRetried` requires that no other opener or mark hides the failure (`Alone`) |
| `jni/VideoInstance.c:469` | After 1.5 s the flag is set back and the instance freed, whether the thread has left or not | `VideoSession`: `NoUseAfterFree` needs `slow = {}` |
| `PZLControlThread.java:92` | After a short tap the stop thread finds `isCTLbussy` still down and goes past its loop; the start is sent after the stop, and the camera turns on | `PtzControl`: `TurningIsHeld` and `ReleaseStops` end at `spoilt` |
| `PlayActivity.java:714` | `ACTION_CANCEL` in place of `ACTION_UP` is not looked for: the same result | the same |
| `jni/clientlink.c:1040` | A reconnection clears `gckInfo` and leaves `g_alarm_count`; devices that report again are counted again, and the index `MAX_ALARM_COUNT`, one behind the array, passes the test. An index refused is asked for again and again | `AlarmTable`: `MaxCount` |
| `PlayActivity.java:1021` | An opener that failed calls `StopPlay` without stopping the reader first: the instance is freed under `GetVideoFrame` | `Surfaces`: stops at `spoilt` |
| `DeviceListActivity.java:779` | Ticks are stored in the adapter of the list made last, not in that of the cameras: a row drawn again loses its tick, its camera can be chosen twice | `DeviceTree`: `mark`, `drawn`; no property says that ticks are kept |
| `jni/interface.c:332` | A device that is no camera is counted in `childNum` and has no row: the groups behind it shift | `DeviceTree`: `GroupShowsItsCameras` ends at the first such device |

Met on the way: a list holds `MAX_FRAME_LIST_NUM + 1` frames (`jni/playList.c:73`);
`notifyAll` of `onDestroy` may come between `ctl`'s test and its `wait()` (`PlayActivity.java:415`), which
is why `ExitReturns` leaves out `ctl = "enter"`; a camera marked as started need not be open, which is why no
property says so.

## 7. Abstractions, and what is not modelled

Taken for granted by the models, each where it is used:

- threads are created (`pthread_create`'s failure is tested with the wrong sign);
- of the numbers that `GetDeviceList` draws by `rand()` no two of one day agree, and none agrees with another thread's request of the command, since
  the walk of the tree is its one caller. The branch of `WaitForResponse` that takes an element by its command alone
  (`jni/netglobal.c:316`) is never reached: the elements it is for are five commands that no caller waits for (`ResponseQueue`);
- a login during which other messages use up `CmdTimeOut` fails: the code goes on to look for the result in the last of them, which has none (`ClientLink`);
- what is not the first packet of a frame does not look like a frame head of just that size, and what is
  no packet has a time stamp no frame has (`FrameAssembly`);
- the server sends one form of packet head, so `nRtpHeadLen` does not change (`FrameAssembly`);
- a read of the receive thread, unless it blocks, ends within the heart's sleep of 5 s (`VideoSession`);
- `StartPlay`'s test and store of `g_videoInstArray` are one step, since two openers of one
  camera are at least 100 ms apart (`PlayControl`);
- the server carries out the commands of `DomeControl` in the order in which they were sent; one is sent or not (`PtzControl`);
- `isCTLbussy` and the other fields that are not volatile are seen after the `sleep` and `wait` between write and read (`PtzControl`);
- the timer is started after the handler of an earlier `ALARM_TRUE` is through, and a report has a device (`AlarmTable`);
- once `g_videoInstArray`'s entry is cleared, `release_decoder` and the freeing of `g_frameBufferOut` follow before an opener's `StartPlay` (`PlayControl`, `Surfaces`);
- the first frame of a camera arrives after `init_decoder`; the callback and the layout stay the same; the 20 ms that `takePhoto` sleeps outlast
  a decode thread between its test of `isStoped` and `i_frameRate = 0` (`Surfaces`). `isExit` is never lowered, so a surface that
  comes back on the same callback shows nothing, and `PictureComes` speaks of the first;
- the tree has two levels, an area's `AreaID` is its place in `pAreaList`, an area at the top leaves room in it, and there are at most 2000
  devices: the code writes without a test past each of these (`DeviceTree`). The screen is not left during the walk;
- a media or signalling address is one value: the static address cache of `set_tcp_link_tcp` is left out.

Left out: texts of messages and their parsing, decoding, layout of screens, logging, the clock-in
application and all vendored code (FFmpeg, mp4v2, mxml, `gb2312.c`, resources: most of the lines of the repository), which keep no
state the properties here are about. Not modelled although they have state:

- *Recording.* `data_Callback` writes to the file in the receive thread while `StopRecord` lowers `m_bRecord`, sleeps 10 ms and closes it: whether
  it is closed under the writer is a question of 10 ms, not of order. `keyFrameBuf` is shared by all cameras; the buttons act on
  `i_listIndex`, which may have changed since the start, and take the 0 of a failed `StartRecord` for success (`PlayActivity.java:667`).
- *Talk.* `AudioInstance` is `VideoInstance` with one thread and without reconnection; its shutdown is the one of `VideoSession`.
- *Logins of several screens*, a late `onDestroy`, and requests under way at a logout: `ClientLink` has one instance from `InitLibInstance` to `DeleteLibInstance`.
- *Playing files.* One thread over a library that reads MP4 files.
- *Stored recordings and further commands.* One request and one answer each, as in `ResponseQueue`; most have no caller in Java.

`PROJECT.json` says so of each component.

## 8. Running it

```
tlc -config MCClientLink.cfg MCClientLink        # a few seconds to two minutes per run
tlapm ClientLink_proofs.tla                      # exits with 0 when all is proved
```
