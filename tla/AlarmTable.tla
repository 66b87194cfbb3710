----------------------------- MODULE AlarmTable -----------------------------
(***************************************************************************)
(* The measurements that devices report through the signalling link        *)
(* (src/jni/clientlink.c) and the screen that lists them                   *)
(* (src/src/com/topvs/platform/DeviceListActivity.java):                   *)
(*   recv    Thread_Client_Recv, in clientlinkProcessRecvData: files each  *)
(*           report in gckInfo under its device;                           *)
(*   heart   clientlinkDisonnect, when the link is made again: clears the  *)
(*           table and leaves g_alarm_count as it is;                      *)
(*   timer   the TimerTask: fetches one entry after the other into the     *)
(*           object mAlarmInfo and posts ALARM_TRUE;                       *)
(*   main    the handler of ALARM_TRUE, which looks into that object.      *)
(* Nobody's lock is anybody else's.  One session: from the start of        *)
(* Thread_Client_Recv, which empties the table.                            *)
(***************************************************************************)
EXTENDS Naturals

CONSTANTS
  Devices,          \* ids of the devices; 0 is none
  MAX_ALARM_COUNT,  \* entries of gckInfo
  Rows,             \* MAX_ALARMINFO_COUNT
  Seconds,          \* bound: alarmtime is cut to the second; 0 is never
  MaxLinks,         \* bound: how often the link is made again
  MaxCount,         \* bound: g_alarm_count
  Turns             \* g_AlarmDevID is kept modulo a multiple of every count

ASSUME AlarmTableAssumption ==
  /\ Devices \subseteq Nat \ {0}
  /\ MAX_ALARM_COUNT \in Nat \ {0} /\ Rows \in Nat \ {0} /\ Seconds \in Nat \ {0}
  /\ MaxLinks \in Nat /\ MaxCount \in Nat \ {0} /\ Turns \in Nat \ {0}

ASSUME TurnsAssumption == \A c \in 1 .. MaxCount : Turns % c = 0

Ids     == Devices \cup {0}
Entries == 0 .. MAX_ALARM_COUNT - 1
Lines   == 0 .. Rows - 1

VARIABLES
  table,     \* gckInfo: the device, the second of its last report and, for the
             \* values, whose reports have been written there
  count,     \* g_alarm_count
  recv,      \* where the receive thread stands
  dev,       \* the device of the report it has
  index,     \* dev_index
  clock,     \* the second it is
  links,     \* how much of MaxLinks is used up
  timerOn,   \* mTimerTask is scheduled
  timer,     \* where the task stands
  turn,      \* g_AlarmDevID
  at,        \* the index GetAlarmInfo has computed
  info,      \* mAlarmInfo
  posted,    \* an ALARM_TRUE waits for the main thread
  rows,      \* iAlarmIDArray, AlarmTimeArray and whose values are shown
  spoilt     \* auxiliary: the table was cleared in the middle of a report

writer == <<recv, dev, index>>
reader == <<timer, turn, at, info>>
vars == <<table, count, writer, clock, links, timerOn, reader, posted, rows,
          spoilt>>

Empty == [dev |-> 0, time |-> 0, from |-> {}]
Cleared == [e \in Entries |-> Empty]

Init ==
  /\ table = Cleared /\ count = 0
  /\ recv = "idle" /\ dev = 0 /\ index = 0
  /\ clock = 1 /\ links = 0
  /\ timerOn = FALSE /\ timer = "idle" /\ turn = 0 /\ at = 0 /\ info = Empty
  /\ posted = FALSE /\ rows = [r \in Lines |-> Empty]
  /\ spoilt = FALSE

-----------------------------------------------------------------------------
\* The receive thread, on a report of AlarmType 99 and subType 25.

RecvKeeps == <<clock, links, timerOn, reader, posted, rows>>

\* What is not looked at any more is put back to where it started.
Done == recv' = "idle" /\ dev' = 0 /\ index' = 0

\* A report has the id of its device (longitude1, which is never missing).
RecvReads ==
  /\ recv = "idle"
  /\ dev' \in Devices /\ recv' = "scan"
  /\ UNCHANGED <<RecvKeeps, table, count, index, spoilt>>

RecvFinds ==
  /\ recv = "scan" /\ index \in Entries /\ table[index].dev = dev
  /\ recv' = "stamp"
  /\ UNCHANGED <<RecvKeeps, table, count, dev, index, spoilt>>

RecvClaims ==
  /\ recv = "scan" /\ index \in Entries /\ table[index].dev = 0
  /\ table' = [table EXCEPT ![index].dev = dev] /\ recv' = "count"
  /\ UNCHANGED <<RecvKeeps, count, dev, index, spoilt>>

\* A mutant: every report counts.
RecvPasses_Counted ==
  /\ recv = "scan" /\ index \in Entries /\ table[index].dev \notin {0, dev}
  /\ count < MaxCount /\ count' = count + 1
  /\ index' = index + 1
  /\ UNCHANGED <<RecvKeeps, table, recv, dev, spoilt>>

RecvPasses ==
  /\ recv = "scan" /\ index \in Entries /\ table[index].dev \notin {0, dev}
  /\ index' = index + 1
  /\ UNCHANGED <<RecvKeeps, table, count, recv, dev, spoilt>>

RecvGivesUp ==
  /\ recv = "scan" /\ index = MAX_ALARM_COUNT
  /\ Done
  /\ UNCHANGED <<RecvKeeps, table, count, spoilt>>

\* A mutant: the scan does not look again at the entry it has claimed.
RecvCounts_GoesOn ==
  /\ recv = "count" /\ count < MaxCount
  /\ count' = count + 1 /\ index' = index + 1 /\ recv' = "scan"
  /\ UNCHANGED <<RecvKeeps, table, dev, spoilt>>

RecvCounts ==
  /\ recv = "count" /\ count < MaxCount
  /\ count' = count + 1 /\ recv' = "scan"
  /\ UNCHANGED <<RecvKeeps, table, dev, index, spoilt>>

RecvStamps ==
  /\ recv = "stamp"
  /\ table' = [table EXCEPT ![index].time = clock] /\ recv' = "value"
  /\ UNCHANGED <<RecvKeeps, count, dev, index, spoilt>>

\* One of the values; those of other sensors stay.
RecvStores ==
  /\ recv = "value"
  /\ table' = [table EXCEPT ![index].from = @ \cup {dev}] /\ Done
  /\ UNCHANGED <<RecvKeeps, count, spoilt>>

RecvStep ==
  \/ RecvReads \/ RecvFinds \/ RecvClaims \/ RecvPasses \/ RecvGivesUp
  \/ RecvCounts \/ RecvStamps \/ RecvStores

-----------------------------------------------------------------------------
\* The heart thread: clientlinkDisonnect before a new login.
Relinks ==
  /\ links < MaxLinks /\ links' = links + 1
  /\ table' = Cleared
  /\ spoilt' = (spoilt \/ recv # "idle")
  /\ UNCHANGED <<count, writer, clock, timerOn, reader, posted, rows>>

\* The second of a report is the one in which it is read.
Ticks ==
  /\ recv = "idle" /\ clock < Seconds /\ clock' = clock + 1
  /\ UNCHANGED <<table, count, writer, links, timerOn, reader, posted, rows, spoilt>>

-----------------------------------------------------------------------------
\* The timer's task.

TimerKeeps == <<table, count, writer, clock, links, timerOn, rows, spoilt>>

\* GetAlarmInfo up to its lock: "index % g_alarm_count", and nothing of the table
\* unless the index is at most MAX_ALARM_COUNT.  A task runs every second; the
\* main thread has handled the message of the last one by then.
TimerCounts ==
  /\ timer = "idle" /\ timerOn /\ ~posted
  /\ count # 0 /\ turn % count <= MAX_ALARM_COUNT
  /\ at' = turn % count /\ timer' = "copy"
  /\ UNCHANGED <<TimerKeeps, turn, info, posted>>

\* A mutant: the turn is not passed on.
TimerCopies_Same ==
  /\ timer = "copy"
  /\ info' = IF at \in Entries THEN table[at] ELSE Empty
  /\ posted' = TRUE /\ at' = 0 /\ timer' = "idle"
  /\ UNCHANGED <<TimerKeeps, turn>>

\* The entry behind the last one is not part of the table: what is there is not
\* told apart from an empty entry.
TimerCopies ==
  /\ timer = "copy"
  /\ info' = IF at \in Entries THEN table[at] ELSE Empty
  /\ turn' = (turn + 1) % Turns
  /\ posted' = TRUE /\ at' = 0 /\ timer' = "idle"
  /\ UNCHANGED TimerKeeps

TimerStep == TimerCounts \/ TimerCopies

-----------------------------------------------------------------------------
\* The main thread.

MainKeeps == <<table, count, writer, clock, links, timerOn, timer, turn, at, spoilt>>

Shown == posted' = FALSE /\ info' = Empty

\* onTabChanged: cancel does not wait for a task that runs.
MainSwitches ==
  /\ timerOn' = ~timerOn
  /\ UNCHANGED <<table, count, writer, clock, links, reader, posted, rows, spoilt>>

\* ALARM_TRUE: the line of the device, or the first that has none.
LineOf(id) == { r \in Lines : /\ rows[r].dev \in {0, id}
                              /\ \A q \in 0 .. r - 1 : rows[q].dev \notin {0, id} }

\* UpdateInfoListView only for a report of another second than the one shown.
MainShows ==
  /\ posted /\ Shown
  /\ \E r \in LineOf(info.dev) :
       rows' = [rows EXCEPT ![r] = IF @.time = info.time \/ info.dev = 0
                                   THEN [@ EXCEPT !.dev = info.dev, !.time = info.time]
                                   ELSE info]
  /\ UNCHANGED <<MainKeeps>>

MainFindsNone ==
  /\ posted /\ LineOf(info.dev) = {}
  /\ Shown
  /\ UNCHANGED <<MainKeeps, rows>>

MainStep == MainShows \/ MainFindsNone

-----------------------------------------------------------------------------
Next == RecvStep \/ Relinks \/ Ticks \/ TimerStep \/ MainSwitches \/ MainStep

Spec == Init /\ [][Next]_vars

\* The timer's thread and the main thread run; reports and reconnections are the
\* server's, the tab is the user's.
FairSpec == Spec /\ WF_vars(TimerStep) /\ WF_vars(MainStep)

-----------------------------------------------------------------------------
Entry == [dev : Ids, time : 0 .. Seconds, from : SUBSET Ids]

\* The types of the variables.
TypeOK ==
  /\ table \in [Entries -> Entry] /\ count \in 0 .. MaxCount
  /\ recv \in {"idle", "scan", "count", "stamp", "value"}
  /\ dev \in Ids /\ index \in 0 .. MAX_ALARM_COUNT
  /\ clock \in 1 .. Seconds /\ links \in 0 .. MaxLinks
  /\ timerOn \in BOOLEAN /\ timer \in {"idle", "copy"}
  /\ turn \in Nat /\ at \in Nat /\ info \in Entry
  /\ posted \in BOOLEAN /\ rows \in [Lines -> Entry] /\ spoilt \in BOOLEAN

\* Claimed entries come first and no device has two, and an entry holds the
\* reports of its own device, unless the table was cleared in the middle of a
\* report.
EntriesOwn ==
  ~spoilt =>
    \A e \in Entries :
      /\ table[e].from \subseteq {table[e].dev} \ {0}
      /\ table[e].dev # 0 => \A f \in 0 .. e - 1 : table[f].dev \notin {0, table[e].dev}

\* What the receive thread has found out about the entries: those it has passed
\* are others', the one it works on is its device's.
WriterKnows ==
  /\ recv = "idle" => index = 0
  /\ recv = "idle" <=> dev = 0
  /\ ~spoilt /\ recv # "idle" =>
       /\ \A e \in Entries : e < index => table[e].dev \notin {0, dev}
       /\ recv # "scan" => index \in Entries /\ table[index].dev = dev

\* Until the link is made again, g_alarm_count is the number of claimed entries.
CountIsClaimed ==
  links = 0 =>
    /\ ~spoilt /\ count <= MAX_ALARM_COUNT
    /\ timer = "copy" => at < count
    /\ recv = "count" => index = count
    /\ \A e \in Entries :
         table[e].dev # 0 <=> e < count \/ (recv = "count" /\ e = count)

\* The lines of the screen: what is shown in a line was reported by its device.
ShownIsOwn ==
  ~spoilt =>
    /\ info.from \subseteq {info.dev} \ {0}
    /\ \A r \in Lines : rows[r].from \subseteq {rows[r].dev} \ {0}

\* The inductive invariant.
AlarmInv == TypeOK /\ EntriesOwn /\ WriterKnows /\ CountIsClaimed /\ ShownIsOwn

\* Until the link is made again, GetAlarmInfo copies claimed entries only.
ReadsClaimed == links = 0 /\ timer = "copy" => at \in Entries /\ table[at].dev # 0

\* The last report of a device, which no later one replaces, gets to the screen
\* whatever was there before, if it stays in the table, there is a line for the
\* device and g_alarm_count has not grown beyond the table.
Filed(d)    == \E e \in Entries : table[e].dev = d /\ table[e].time = Seconds
OnScreen(d) == \E r \in Lines : rows[r].dev = d /\ rows[r].time = Seconds

ReportIsShown ==
  \A d \in Devices :
    (timerOn /\ Filed(d)) ~>
      (OnScreen(d) \/ ~Filed(d) \/ ~timerOn \/ LineOf(d) = {} \/ count > MAX_ALARM_COUNT)
=============================================================================
