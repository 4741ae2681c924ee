---------------------------- MODULE MCTaskState ----------------------------
(* Small instances of TaskState for TLC.                                   *)
EXTENDS TaskState, TLC

CONSTANTS t1, t2

OneTask  == {t1}
TwoTasks == {t1, t2}
First    == {t1}
Second   == {t2}
None     == {}
AnyFailure == {"error", "timeout", "foreign"}
\* Without a group deadline a "timeout" can do all that the other failures do.
OwnTimeout == {"timeout"}
=============================================================================
