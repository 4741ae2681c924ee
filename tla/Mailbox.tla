------------------------------ MODULE Mailbox ------------------------------
(***************************************************************************)
(* What a serial lane promises: a bounded FIFO per lane, one item of a     *)
(* lane at a time, every accepted item executed or withdrawn by a close.   *)
(* How lanes share worker threads does not appear.                         *)
(***************************************************************************)
EXTENDS Naturals, Sequences

CONSTANTS Lanes, Items, LaneOf, Capacity, NoItem

VARIABLES
    queue,  \* accepted items of each lane, oldest first
    busy,   \* the item of each lane that is executing, or NoItem
    sealed  \* whether the lane accepts no more items

mailbox == <<queue, busy, sealed>>

Init ==
    /\ queue = [l \in Lanes |-> <<>>]
    /\ busy = [l \in Lanes |-> NoItem]
    /\ sealed = [l \in Lanes |-> FALSE]

Accept(i) ==
    LET l == LaneOf[i] IN
    /\ ~sealed[l] /\ Len(queue[l]) < Capacity
    /\ queue' = [queue EXCEPT ![l] = Append(@, i)]
    /\ UNCHANGED <<busy, sealed>>

Begin(l) ==
    /\ busy[l] = NoItem /\ queue[l] # <<>>
    /\ busy' = [busy EXCEPT ![l] = Head(queue[l])]
    /\ queue' = [queue EXCEPT ![l] = Tail(@)]
    /\ UNCHANGED sealed

End(l) ==
    /\ busy[l] # NoItem
    /\ busy' = [busy EXCEPT ![l] = NoItem]
    /\ UNCHANGED <<queue, sealed>>

\* A close seals the lane and may withdraw what has not begun.
Seal(l) ==
    /\ sealed' = [sealed EXCEPT ![l] = TRUE]
    /\ \/ UNCHANGED queue
       \/ queue' = [queue EXCEPT ![l] = <<>>]
    /\ UNCHANGED busy

Next ==
    \/ \E i \in Items : Accept(i)
    \/ \E l \in Lanes : Begin(l) \/ End(l) \/ Seal(l)

Spec ==
    /\ Init /\ [][Next]_mailbox
    /\ \A l \in Lanes : WF_mailbox(Begin(l)) /\ WF_mailbox(End(l))
=============================================================================
