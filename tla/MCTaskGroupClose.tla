-------------------------- MODULE MCTaskGroupClose --------------------------
(* Small instances of TaskGroupClose for TLC.                              *)
EXTENDS TaskGroupClose, TLC

CONSTANTS t1, t2, c1, c2, c3, env

OneTask   == {t1}
TwoTasks  == {t1, t2}
TwoClosers == {c1, c2}
ThreeClosers == {c1, c2, c3}
OneCloser == {c1}
Second    == {c2}
None      == {}
Interchangeable == Permutations({c1, c2})
=============================================================================
