----------------------------- MODULE DeviceTree -----------------------------
(***************************************************************************)
(* The list of cameras, from the server to the play screen: the walk over  *)
(* the device tree (GetGUInfosList of src/jni/interface.c with             *)
(* GetDeviceList of src/jni/st_cuapi.c), the arrays handed to Java, the    *)
(* groups and rows that DeviceListActivity and MyExpandableListAdapter     *)
(* make of them, and the choice of cameras that PlayActivity opens.        *)
(*                                                                         *)
(* A tree is what the server would answer: the parent of its top level (a  *)
(* domain or an area), the nodes below it, and the devices of each area.   *)
(* The walk has two levels ("the second level, also is the area level",    *)
(* interface.c:310), and an area's AreaID is its place in pAreaList, which *)
(* the walk takes it for (interface.c:331).  An area at the top leaves     *)
(* room for the areas below it and the default group in pAreaList.         *)
(***************************************************************************)
EXTENDS Naturals, SequencesExt

CONSTANTS
  Trees,            \* [root, top: Seq(node), in: area -> Seq(device)]
  AREA_GROUP_NUM,   \* entries of pAreaList and of the first answer
  CHILD_NODE_NUM,   \* entries of an area's answer
  MAX_OPEN_COUNT,   \* cameras that may be chosen
  MaxTaps           \* bound: what the person and the list view do

\* The numbers of a set in ascending order, and what stands at these places.
Places(S)  == [k \in 1 .. Cardinality(S) |->
                 CHOOSE i \in S : Cardinality({j \in S : j <= i}) = k]
Pick(s, S) == [k \in 1 .. Cardinality(S) |-> s[Places(S)[k]]]

Of(nodes, kind) == {i \in DOMAIN nodes : nodes[i].kind = kind}
Devices(nodes)  == Pick(nodes, Of(nodes, "device"))
Areas(nodes)    == Pick(nodes, Of(nodes, "area"))

\* The top level as the server names it, its parent first.
Parent(t)   == [kind |-> t.root, id |-> 1]
TopLevel(t) == <<Parent(t)>> \o t.top

ASSUME DeviceTreeAssumption ==
  /\ AREA_GROUP_NUM \in Nat \ {0} /\ CHILD_NODE_NUM \in Nat /\ MaxTaps \in Nat
  /\ \A t \in Trees :
       /\ t.root \in {"domain", "area"} /\ t.top \in Seq(ToSet(t.top))
       \* The areas are numbered as they come, and each may be asked for.
       /\ \A i \in Of(TopLevel(t), "area") :
            /\ TopLevel(t)[i].id = Cardinality({j \in Of(TopLevel(t), "area") : j <= i})
            /\ TopLevel(t)[i].id \in DOMAIN t.in
       /\ t.root = "area" => Cardinality(Of(TopLevel(t), "area")) < AREA_GROUP_NUM
       \* What is in an area are devices, and no device is in two places.
       /\ \A a \in DOMAIN t.in :
            /\ a # 0 /\ t.in[a] \in Seq(ToSet(t.in[a]))
            /\ \A d \in ToSet(t.in[a]) :
                 /\ d.kind = "device"
                 /\ \A b \in DOMAIN t.in : \A e \in ToSet(t.in[b]) : e.id = d.id => b = a
                 /\ \A i \in Of(t.top, "device") : t.top[i].id # d.id

VARIABLES
  tree,        \* what the server holds
  at,          \* how far the list is: walk, devices, list, shown, playing
  todo,        \* areas still to be asked for
  areaList,    \* pAreaList: the area (0 is the default one) and its childNum
  deviceList,  \* pDeviceList->nodearray
  camStatus,   \* CamStatusArray: index of a device, or off line (0x1002)
  camName,     \* ArrayGUName: which device each row names
  groups,      \* mGroupItemArray
  mark,        \* selectedArray of the adapters of the play and the photo list
  drawn,       \* whether the check box of a row is drawn as ticked
  selected,    \* mSelectedCamList
  playing,     \* camIndex of m_videoArray, in the play screen
  taps         \* how much of MaxTaps is used up

walk     == <<tree, todo, areaList, deviceList>>
arrays   == <<camStatus, camName, groups>>
choice   == <<mark, drawn, selected>>
treeVars == <<walk, at, arrays, choice, playing, taps>>

Offline == 4098

TreeInit ==
  /\ tree \in Trees /\ at = "walk"
  /\ todo = <<>> /\ areaList = <<>> /\ deviceList = <<>>
  /\ camStatus = <<>> /\ camName = <<>> /\ groups = <<>>
  /\ mark = [play |-> {}, photos |-> {}] /\ drawn = {} /\ selected = <<>>
  /\ playing = <<>> /\ taps = 0

-----------------------------------------------------------------------------
\* The walk: one request after the other, each of which may stay unanswered.

FirstOf(nodes, n) == SubSeq(nodes, 1, IF Len(nodes) < n THEN Len(nodes) ELSE n)

\* The answers as GetDeviceList hands them out: the first begins with the parent.
TopAnswer     == FirstOf(TopLevel(tree), AREA_GROUP_NUM)
AreaAnswer(a) == FirstOf(tree.in[a], CHILD_NODE_NUM)

\* A mutant: the default group counts the areas too.
TopGroups_AllCounted(nodes) ==
  FirstOf(<<[area |-> 0, childNum |-> Len(nodes)]>> \o
            [k \in DOMAIN Areas(nodes) |->
               [area |-> Areas(nodes)[k].id, childNum |-> 0]],
          AREA_GROUP_NUM)

\* The default group, for the devices right below the top, and the areas.
TopGroups(nodes) ==
  FirstOf(<<[area |-> 0, childNum |-> Len(Devices(nodes))]>> \o
            [k \in DOMAIN Areas(nodes) |->
               [area |-> Areas(nodes)[k].id, childNum |-> 0]],
          AREA_GROUP_NUM)

GetTop ==
  /\ at = "walk"
  /\ areaList' = TopGroups(TopAnswer)
  /\ deviceList' = Devices(TopAnswer)
  /\ todo' = Areas(Tail(TopAnswer))
  /\ at' = "areas"
  /\ UNCHANGED <<tree, arrays, choice, playing, taps>>

\* Without the first answer there is nothing to walk over.
GetNothing ==
  /\ at = "walk"
  /\ at' = "areas"
  /\ UNCHANGED <<walk, arrays, choice, playing, taps>>

\* A mutant: the devices are copied to the beginning of the list.
GetArea_NoOffset ==
  /\ at = "areas" /\ todo # <<>> /\ AreaAnswer(Head(todo).id) # <<>>
  /\ LET a == Head(todo).id IN
       /\ areaList' = [areaList EXCEPT ![a + 1].childNum = Len(AreaAnswer(a))]
       /\ deviceList' = AreaAnswer(a) \o
            SubSeq(deviceList, Len(AreaAnswer(a)) + 1, Len(deviceList))
  /\ todo' = Tail(todo)
  /\ UNCHANGED <<tree, at, arrays, choice, playing, taps>>

GetArea ==
  /\ at = "areas" /\ todo # <<>> /\ AreaAnswer(Head(todo).id) # <<>>
  /\ LET a == Head(todo).id IN
       /\ areaList' = [areaList EXCEPT ![a + 1].childNum = Len(AreaAnswer(a))]
       /\ deviceList' = deviceList \o AreaAnswer(a)
  /\ todo' = Tail(todo)
  /\ UNCHANGED <<tree, at, arrays, choice, playing, taps>>

\* An area without devices, or no answer.
PassArea ==
  /\ at = "areas" /\ todo # <<>>
  /\ todo' = Tail(todo)
  /\ UNCHANGED <<tree, areaList, deviceList, at, arrays, choice, playing, taps>>

-----------------------------------------------------------------------------
\* The arrays, and the lists of the main thread.

IsCamera(d) == d.type \in {"master", "slave"}

\* Where the cameras stand in nodearray.
CamerasAt     == {i \in DOMAIN deviceList : IsCamera(deviceList[i])}
CameraPlaces == [j \in 1 .. Cardinality(CamerasAt) |-> Places(CamerasAt)[j] - 1]

\* A mutant: the place among the cameras is taken for the place in nodearray.
StatusOf_Counted(j) ==
  IF deviceList[CameraPlaces[j] + 1].online THEN j - 1 ELSE Offline

StatusOf(j) ==
  IF deviceList[CameraPlaces[j] + 1].online THEN CameraPlaces[j] ELSE Offline

Statuses == [j \in DOMAIN CameraPlaces |-> StatusOf(j)]
Names    == [j \in DOMAIN CameraPlaces |-> deviceList[CameraPlaces[j] + 1].id]

FillArrays ==
  /\ at = "areas" /\ todo = <<>>
  /\ camStatus' = Statuses /\ camName' = Names
  /\ at' = "list"
  /\ UNCHANGED <<walk, groups, choice, playing, taps>>

\* Areas without devices are not shown.
Filled == {k \in DOMAIN areaList : areaList[k].childNum > 0}

CreateListViews ==
  /\ at = "list"
  /\ groups' = Pick(areaList, Filled)
  /\ at' = "shown"
  /\ UNCHANGED <<walk, camStatus, camName, choice, playing, taps>>

\* The rows of a list of groups: getChildrenCount of each.
MostRows == CHILD_NODE_NUM + AREA_GROUP_NUM
RowsOf(list) == {r \in (DOMAIN list) \X (0 .. MostRows) : r[2] < list[r[1]].childNum}
Before(list, g) == Cardinality({r \in RowsOf(list) : r[1] < g})

\* getChildId: the rows of the groups before, and the row.
Rows          == RowsOf(groups)
RowsBefore(g) == Before(groups, g)
ChildId(g, p) == RowsBefore(g) + p

-----------------------------------------------------------------------------
\* The person and the list view.  A row that has no camera reads the zero that
\* CamStatusArray was made with.

Status(i) == IF i < Len(camStatus) THEN camStatus[i + 1] ELSE 0

\* The lists share mDevListAdapter, and the one for photos is made last.
Adapter == "photos"

Toggled(s, e, on) == IF on THEN s \cup {e} ELSE s \ {e}

\* onChildClick
TapRow ==
  /\ at = "shown" /\ taps < MaxTaps
  /\ \E r \in Rows :
       LET i == ChildId(r[1], r[2])
           ticked == i \notin drawn IN
         /\ Status(i) # Offline
         /\ drawn' = Toggled(drawn, i, ticked)
         /\ mark' = [mark EXCEPT ![Adapter] = Toggled(@, i, ticked)]
         /\ selected' = IF ticked THEN Append(selected, i) ELSE RemoveFirst(selected, i)
  /\ taps' = taps + 1
  /\ UNCHANGED <<walk, at, arrays, playing>>

\* onSerItermClickListener: the row is told by the number its text begins with.
TapFound ==
  /\ at = "shown" /\ taps < MaxTaps
  /\ \E i \in 0 .. Len(camStatus) - 1 :
       LET chosen == i \notin ToSet(selected) IN
         /\ Status(i) # Offline
         /\ mark' = [mark EXCEPT ![Adapter] = Toggled(@, i, chosen)]
         /\ selected' = IF chosen THEN Append(selected, i) ELSE RemoveFirst(selected, i)
  /\ taps' = taps + 1
  /\ UNCHANGED <<walk, at, arrays, drawn, playing>>

\* getChildView: the view asks for a row again, as it does when it scrolls.
DrawRow ==
  /\ at = "shown" /\ taps < MaxTaps
  /\ \E r \in Rows :
       LET i == ChildId(r[1], r[2]) IN
         i < Len(camName) /\ drawn' = Toggled(drawn, i, i \in mark.play)
  /\ taps' = taps + 1
  /\ UNCHANGED <<walk, at, arrays, mark, selected, playing>>

\* The button startRVP, and onCreate of the play screen.
StartPreview ==
  /\ at = "shown" /\ Len(selected) \in 1 .. MAX_OPEN_COUNT
  /\ playing' = [k \in DOMAIN selected |-> Status(selected[k])]
  /\ at' = "playing"
  /\ UNCHANGED <<walk, arrays, choice, taps>>

Walk     == GetTop \/ GetNothing \/ GetArea \/ PassArea
TreeNext == Walk \/ FillArrays \/ CreateListViews \/ TapRow \/ TapFound \/ DrawRow
              \/ StartPreview

TreeSpec == TreeInit /\ [][TreeNext]_treeVars

-----------------------------------------------------------------------------
\* What must hold.

\* Where the server has a device: 0 is right below the top.
Home(id) ==
  LET holds(a) == \E k \in DOMAIN tree.in[a] : tree.in[a][k].id = id
  IN  IF \E a \in DOMAIN tree.in : holds(a)
        THEN CHOOSE a \in DOMAIN tree.in : holds(a) ELSE 0

Childs == Cardinality(RowsOf(areaList))

\* The types, as far as the properties depend on them: all that comes from the server
\* is a node of the tree.
NodesOf(t) == ToSet(TopLevel(t)) \cup UNION {ToSet(t.in[a]) : a \in DOMAIN t.in}
TreeTypeOK ==
  /\ tree \in Trees /\ at \in {"walk", "areas", "list", "shown", "playing"}
  /\ todo \in Seq(NodesOf(tree)) /\ deviceList \in Seq(NodesOf(tree))
  /\ areaList \in Seq([area : Nat, childNum : 0 .. MostRows])
  /\ selected \in Seq(Nat)

\* An entry of pAreaList is where the AreaID of the area says.  (The walk finds it so:
\* pAreaList[atoi(tmpList[0].AreaID)].)
AreasInPlace ==
  /\ Len(areaList) <= AREA_GROUP_NUM
  /\ \A k \in DOMAIN areaList : areaList[k].area = k - 1

\* The areas still to be asked for have entries of their own, in their order, from the
\* first of which on nothing is counted yet.
TodoAhead ==
  \A k \in DOMAIN todo :
    /\ todo[k].id \in 1 .. Len(areaList) - 1 /\ todo[k].id \in DOMAIN tree.in
    /\ \A l \in DOMAIN todo : k < l => todo[k].id < todo[l].id
    /\ \A g \in DOMAIN areaList : g > todo[k].id => areaList[g].childNum = 0

\* What an entry counts stands in the list of devices one after the other, behind what
\* the entries before it count, and is in that area.
IsIn(d, a) ==
  IF a = 0 THEN \E i \in Of(TopLevel(tree), "device") : TopLevel(tree)[i] = d
           ELSE a \in DOMAIN tree.in /\ d \in ToSet(tree.in[a])
Listed ==
  /\ Childs = Len(deviceList)
  /\ \A r \in RowsOf(areaList) :
       LET i == Before(areaList, r[1]) + r[2] + 1
       IN  i \in DOMAIN deviceList /\ IsIn(deviceList[i], areaList[r[1]].area)

WalkInv == TreeTypeOK /\ AreasInPlace /\ TodoAhead /\ Listed

\* The arrays and the groups, once they are made, and what is chosen and played.
Made ==
  /\ at = "walk" => todo = <<>> /\ areaList = <<>> /\ deviceList = <<>>
  /\ IF at \in {"walk", "areas"} THEN camStatus = <<>> /\ camName = <<>>
       ELSE todo = <<>> /\ camStatus = Statuses /\ camName = Names
  /\ IF at \in {"shown", "playing"} THEN groups = Pick(areaList, Filled)
       ELSE groups = <<>> /\ selected = <<>>
  /\ \A k \in DOMAIN selected : Status(selected[k]) # Offline
  /\ playing = IF at = "playing" THEN [k \in DOMAIN selected |-> Status(selected[k])]
               ELSE <<>>

TreeInv == WalkInv /\ Made

\* A group of the list shows the cameras of its own area, whatever requests were
\* not answered, which areas are empty and where an answer was cut off: up to the
\* first device that is no camera, which is counted in childNum and has no row.
GroupShowsItsCameras ==
  at \in {"shown", "playing"} =>
    \A r \in Rows :
      LET g == r[1]
          i == ChildId(g, r[2]) IN
        (\A k \in 1 .. RowsBefore(g) + groups[g].childNum : IsCamera(deviceList[k]))
          => i < Len(camName) /\ Home(camName[i + 1]) = groups[g].area

\* What the play screen opens for a row is the camera the row names, and it was on
\* line, whatever other devices are in the list.
ChosenIsPlayed ==
  \A k \in DOMAIN playing :
    selected[k] < Len(camName) =>
      LET d == deviceList[playing[k] + 1] IN
        d.id = camName[selected[k] + 1] /\ d.online
=============================================================================
