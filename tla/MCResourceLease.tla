-------------------------- MODULE MCResourceLease --------------------------
(* A small instance of ResourceLease for TLC.                              *)
EXTENDS ResourceLease, TLC

CONSTANTS b1, c1, e1, e2, server1, rcon1, s1, s2, p1

OneBranch      == {b1}
TwoAllocations == {server1, rcon1}
ServerThenRcon == [b \in Branches |-> <<server1, rcon1>>]
OneClient      == {c1}
TwoEndpoints   == {e1, e2}
Overlapping    == [a \in Allocations |-> IF a = server1 THEN <<e1, e2>> ELSE <<e2>>]
OnFirst        == [c \in Clients |-> e1]
OneCrash       == [b \in Branches |-> 1]
TwoScopes      == {s1, s2}
ClientApart    == [h \in Holders |-> IF h = c1 THEN s2 ELSE s1]
OneProof       == {p1}
=============================================================================
