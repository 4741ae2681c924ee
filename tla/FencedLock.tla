----------------------------- MODULE FencedLock -----------------------------
(***************************************************************************)
(* What a fenced lease authority promises.  A resource has at most one     *)
(* holder; another takes it only when the holder gave it up or its time    *)
(* ran out; each grant is made under a larger token than all before it;    *)
(* and a grant that ended is never made again, nor its time extended.      *)
(***************************************************************************)
EXTENDS Naturals

CONSTANTS Resources, Grants, Times

VARIABLES
    clock,
    holding,   \* the grant that holds each resource and until when: a set of one or none
    token,     \* the largest token given out for each resource
    used       \* the grants that were ever made

vars == <<clock, holding, token, used>>

Holding(g, t) == [grant |-> g, until |-> t]

Init ==
    /\ clock = 0
    /\ holding = [r \in Resources |-> {}]
    /\ token = [r \in Resources |-> 0]
    /\ used = {}

Tick == clock' = clock + 1 /\ UNCHANGED <<holding, token, used>>

Grant(r, g) ==
    /\ token' = [token EXCEPT ![r] = @ + 1]
    /\ g \notin used /\ used' = used \cup {g}
    /\ \A h \in holding[r] : h.until <= clock
    /\ \E t \in Times : holding' = [holding EXCEPT ![r] = {Holding(g, t)}]
    /\ UNCHANGED clock

\* Some holders give their resources up, or lose them; others are prolonged.
EndOrExtend ==
    /\ \A r \in Resources :
          \/ holding'[r] \in {{}, holding[r]}
          \/ \E h \in holding[r], t \in Times : holding'[r] = {Holding(h.grant, t)}
    /\ UNCHANGED <<clock, token, used>>

Next == EndOrExtend \/ Tick \/ \E r \in Resources, g \in Grants : Grant(r, g)

Spec == Init /\ [][Next]_vars
=============================================================================
