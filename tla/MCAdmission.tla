---------------------------- MODULE MCAdmission ----------------------------
(* Small instances of Admission for TLC.                                   *)
EXTENDS Admission, TLC

CONSTANTS r1, r2, r3, r4, r5, g1, g2, g3, g4, io, cpu, tn, rs

FiveRequests  == {r1, r2, r3, r4, r5}
Second        == {r2}
FourGroups    == {g1, g2, g3, g4}
TwoLanes      == {io, cpu}
OneTenant     == {tn}
OneResource   == {rs}

\* The limits cross: r1 and r2 share the group g1, whose limit is one, and r1 shares
\* with r3, of g2, the io lane, which has one permit.  g1 has the lowest priority.
\* r4, of g3, and r5, of g4, reject.  r3 and r4 exclude each other by the limit of
\* their tenant; with r5 the total of two binds as well.
FirstTwoTogether == [r \in Requests |->
                       CASE r = r3 -> g2 [] r = r4 -> g3 [] r = r5 -> g4 [] OTHER -> g1]
FirstAndThirdIo  == [r \in Requests |-> IF r \in {r1, r3} THEN io ELSE cpu]
TenantOfOthers   == [g \in Groups |-> IF g \in {g2, g3} THEN tn ELSE Nobody]
ResourceOfSecond == [g \in Groups |-> IF g = g2 THEN rs ELSE Nobody]
FirstIsLow       == [g \in Groups |-> IF g = g1 THEN 1 ELSE 0]
TwoReject        == {g3, g4}
OneIoTwoCpu      == [l \in Lanes |-> IF l = io THEN 1 ELSE 2]
=============================================================================
