---------------------------- MODULE MCSerialLane ----------------------------
(* Small instances of SerialLane for TLC.                                  *)
EXTENDS SerialLane, TLC

CONSTANTS l1, l2, w1, j1, j2, j3, j4, k1, close, stop1, stop2

OneLane    == {l1}
TwoLanes   == {l1, l2}
OneWorker  == {w1}
ThreeJobs  == {j1, j2, j3}
FourJobs   == {j1, j2, j3, j4}
ThirdJob   == {j3}
OneKey     == {k1}
PinAll     == [l \in Lanes |-> w1]
AllOnOne   == [j \in Jobs |-> l1]
FourthApart == [j \in Jobs |-> IF j = j4 THEN l2 ELSE l1]
LastTwoShareKey == [j \in Jobs |-> {IF j = j1 THEN NoKey ELSE k1}]
AllShareKey == [j \in Jobs |-> {k1}]
\* j2 comes with the key, j3 with or without it: it joins j2 or is a third item.
ThirdMayJoin == [j \in Jobs |-> CASE j = j2 -> {k1} [] j = j3 -> {k1, NoKey} [] OTHER -> {NoKey}]
CloseL1    == [c \in LaneClosers |-> l1]
LaneClose  == {close}
OneStop    == {stop1}
TwoStops   == {stop1, stop2}
SecondStop == {stop2}
None       == {}
=============================================================================
