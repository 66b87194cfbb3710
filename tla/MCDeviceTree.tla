---------------------------- MODULE MCDeviceTree ----------------------------
\* Trees of up to three areas with devices in front, between and behind, among them
\* empty areas, one with more devices than an answer holds, more areas than the first
\* answer holds, an area at the top, cameras that are off line and devices that are
\* no cameras.
EXTENDS DeviceTree

Area(a)     == [kind |-> "area", id |-> a]
Dev(x, t, b) == [kind |-> "device", id |-> x, type |-> t, online |-> b]
Cam(x)      == Dev(x, "master", TRUE)

None == [a \in 1 .. 3 |-> <<>>]
Two  == [None EXCEPT ![1] = <<Cam("p")>>, ![2] = <<Cam("q"), Dev("r", "slave", FALSE)>>]
Gap  == [None EXCEPT ![1] = <<Cam("p"), Cam("q"), Cam("r")>>, ![3] = <<Cam("s")>>]
Odd  == [None EXCEPT ![1] = <<Dev("i", "alarmInput", TRUE), Cam("p")>>,
                     ![2] = <<Cam("q"), Dev("o", "alarmOutput", TRUE)>>]

MCTrees ==
  {[root |-> "domain", top |-> t, in |-> i] :
     t \in {<<>>, <<Cam("a")>>, <<Area(1), Area(2)>>, <<Area(1), Cam("a"), Area(2)>>,
            <<Cam("a"), Area(1), Dev("b", "slave", FALSE), Area(2), Area(3)>>,
            <<Area(1), Area(2), Area(3)>>, <<Dev("d", "display", TRUE), Cam("a"), Area(1)>>},
     i \in {None, Two, Gap, Odd}} \cup
  {[root |-> "area", top |-> t, in |-> i] :
     t \in {<<Cam("a")>>, <<Area(2), Cam("a")>>, <<Area(2), Area(3)>>},
     i \in {Two, Gap, Odd}}
=============================================================================
