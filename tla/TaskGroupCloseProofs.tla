------------------------ MODULE TaskGroupCloseProofs ------------------------
(***************************************************************************)
(* For any tasks and closers, and however submissions, ticks, cancellation *)
(* and closes interleave: one thread leads a close, its verdict is true    *)
(* and hides no failure, and a converged group has joined for good.        *)
(***************************************************************************)
EXTENDS TaskGroupClose, FiniteSetTheorems, TLAPS

-----------------------------------------------------------------------------
(***************************************************************************)
(* The inductive invariant.  The locals of a leader are facts it has read  *)
(* under some lock and uses after it; each of them is one that the seal    *)
(* makes stable.                                                           *)
(***************************************************************************)

Settled(t) == raw[t] \in {"none", "done"}

\* No thread is inside a submission, and none can get there any more.
Quiescent == closed /\ \A t \in Tasks : submitter[t] \notin ScopePcs
Drained == laneClosed /\ LaneDrained
Joined == Quiescent /\ \A t \in Tasks : Settled(t)

\* What has been found of the children when wait() did not raise.
Blameless(t) == /\ state[t] \in Terminal \cup {"absent"}
                /\ t \notin CallerScoped => state[t] # "failed"

\* The places of a leader after wait_for_submissions, and after wait.
QuiescedPcs == {"stopping", "joining", "sealing_lane", "draining", "assessing",
                "publishing", "signalling"}
JoinedPcs   == {"sealing_lane", "draining", "assessing", "publishing", "signalling"}

\* The count of submissions is the number of threads inside one.
CountOK == active = Cardinality(InScope)

\* What the place of a submitting thread says of its record and its execution.
PlaceOK(t) ==
    /\ state[t] = "absent" <=> submitter[t] \in {"idle", "entered", "refused"}
    /\ raw[t] # "none" => submitter[t] \in {"accepted", "bound", "leaving", "left"}
    /\ submitter[t] \in {"accepted", "bound"} => raw[t] # "none"
    /\ submitter[t] \in {"leaving", "left"} /\ raw[t] = "none" => state[t] \in Terminal

\* An item that may still run is the current one, or its tick is about to make it so.
TickOK ==
    /\ tick = "checked" => ItemDone
    /\ ~itemBound /\ tick # "enqueued" => item = "none"
    /\ recCancelled => recurring # "running"

LeadOK ==
    /\ SingleLeader
    /\ closing => closed

\* What each local and each place of the leader stands for.
LeaderOK(c) ==
    /\ quiesced[c] => Quiescent
    /\ lanesOk[c] => Drained
    /\ assessed[c] => Joined /\ Drained
    /\ closer[c] \in QuiescedPcs /\ ~errors[c] => quiesced[c]
    /\ closer[c] = "joining" => recCancelled /\ (quiesced[c] => todo[c] = Records)
    /\ closer[c] \in JoinedPcs /\ ~errors[c] =>
          /\ Joined
          /\ \A t \in Tasks : Blameless(t)
          /\ recurring = "cancelled"
    /\ closer[c] = "draining" => laneClosed
    /\ closer[c] = "assessing" /\ ~errors[c] => lanesOk[c]
    /\ closer[c] = "publishing" /\ ~errors[c] => assessed[c]
    /\ closer[c] = "signalling" /\ ~errors[c] => assessed[c] /\ converged

\* A converged group has joined, and nobody leads a close of it again.
ConvergedOK == converged => ~closing /\ Joined /\ Drained

Inv ==
    /\ TypeOK /\ CountOK /\ TickOK /\ LeadOK /\ ConvergedOK
    /\ \A t \in Tasks : PlaceOK(t)
    /\ \A c \in Closers : LeaderOK(c)

-----------------------------------------------------------------------------
(***************************************************************************)
(* Initially, and at every step of a submitting thread.                    *)
(***************************************************************************)

LEMMA InitInv == Init => Inv
<1> SUFFICES ASSUME Init PROVE Inv
  OBVIOUS
<1> USE TaskGroupCloseAssumption DEF Init
<1>1. TypeOK
  BY DEF TypeOK, Terminal, Results, LeaderPcs, ScopePcs
<1>2. CountOK
  <2>1. InScope = {}
    BY DEF InScope, ScopePcs
  <2> QED
    BY <2>1, FS_EmptySet DEF CountOK
<1>3. TickOK /\ ConvergedOK
  BY DEF TickOK, ItemDone, ConvergedOK
<1>4. LeadOK
  BY DEF LeadOK, SingleLeader, LeaderPcs
<1>5. \A t \in Tasks : PlaceOK(t)
  BY DEF PlaceOK
<1>6. \A c \in Closers : LeaderOK(c)
  BY DEF LeaderOK, QuiescedPcs, JoinedPcs
<1> QED
  BY <1>1, <1>2, <1>3, <1>4, <1>5, <1>6 DEF Inv

\* The threads inside a submission can be counted.
LEMMA ScopeIsFinite == IsFiniteSet(InScope) /\ Cardinality(InScope) \in Nat
<1>1. InScope \in SUBSET Tasks
  BY DEF InScope
<1> QED
  BY <1>1, FS_Subset, FS_CardinalityType, TaskGroupCloseAssumption

\* A cancelled record takes an execution that was queued with it, and no other.
LEMMA CancelRecordTypes ==
    ASSUME TypeOK, NEW t \in Tasks, CancelRecord(t)
    PROVE  /\ state' \in [Tasks -> Terminal \cup {"absent", "pending"}]
           /\ raw' \in [Tasks -> {"none", "queued", "running", "done"}]
           /\ result' \in [Tasks -> Results \cup {"none"}]
<1>1. CASE state[t] \in Terminal \cup {"absent"}
  BY <1>1 DEF CancelRecord, TypeOK, children
<1>2. CASE state[t] \notin Terminal \cup {"absent"}
  <2>1. state' = [state EXCEPT ![t] = "cancelled"]
    BY <1>2 DEF CancelRecord
  <2>2. CASE Bound(t) /\ raw[t] = "queued"
    BY <1>2, <2>1, <2>2 DEF CancelRecord, TypeOK, Terminal, Results
  <2>3. CASE ~(Bound(t) /\ raw[t] = "queued")
    BY <1>2, <2>1, <2>3 DEF CancelRecord, TypeOK, Terminal
  <2> QED
    BY <2>2, <2>3
<1> QED
  BY <1>1, <1>2

LEMMA EnterScopeStep ==
    ASSUME Inv, NEW t \in Tasks, EnterScope(t)
    PROVE  Inv'
<1> USE TaskGroupCloseAssumption DEF EnterScope, ScopeEntry, ScopePcs, vars, lifecycle, tokens,
   children, leading, periodic
<1>1. TypeOK'
  BY DEF Inv, TypeOK
<1>2. CountOK'
  <2>1. InScope' = InScope \cup {t} /\ t \notin InScope
    BY DEF Inv, TypeOK, InScope
  <2>2. Cardinality(InScope') = Cardinality(InScope) + 1
    BY <2>1, ScopeIsFinite, FS_AddElement
  <2> QED
    BY <2>2 DEF Inv, CountOK
<1>3. TickOK'
  BY DEF Inv, TypeOK, TickOK, ItemDone
<1>4. LeadOK'
  BY DEF Inv, TypeOK, LeadOK, SingleLeader
<1>5. ConvergedOK'
  BY DEF Inv, TypeOK, ConvergedOK, LeadOK, Quiescent, Drained, Joined, Settled, LaneDrained,
     ItemDone
<1>6. \A u \in Tasks : PlaceOK(u)'
  BY DEF Inv, TypeOK, PlaceOK
<1>7. \A d \in Closers : LeaderOK(d)'
  BY DEF Inv, TypeOK, LeaderOK, Records, Blameless, QuiescedPcs, JoinedPcs, Quiescent, Drained,
     Joined, Settled, LaneDrained, ItemDone
<1> QED
  BY <1>1, <1>2, <1>3, <1>4, <1>5, <1>6, <1>7 DEF Inv

LEMMA RefuseScopeStep ==
    ASSUME Inv, NEW t \in Tasks, RefuseScope(t)
    PROVE  Inv'
<1> USE TaskGroupCloseAssumption DEF RefuseScope, ScopePcs, vars, lifecycle, tokens, children,
   leading, periodic
<1>1. TypeOK'
  BY DEF Inv, TypeOK
<1>2. CountOK'
  <2>1. InScope' = InScope
    BY DEF Inv, TypeOK, InScope, ScopePcs
  <2> QED
    BY <2>1 DEF Inv, CountOK
<1>3. TickOK'
  BY DEF Inv, TypeOK, TickOK, ItemDone
<1>4. LeadOK'
  BY DEF Inv, TypeOK, LeadOK, SingleLeader
<1>5. ConvergedOK'
  BY DEF Inv, TypeOK, ConvergedOK, LeadOK, Quiescent, Drained, Joined, Settled, LaneDrained,
     ItemDone
<1>6. \A u \in Tasks : PlaceOK(u)'
  BY DEF Inv, TypeOK, PlaceOK
<1>7. \A d \in Closers : LeaderOK(d)'
  BY DEF Inv, TypeOK, LeaderOK, Records, Blameless, QuiescedPcs, JoinedPcs, Quiescent, Drained,
     Joined, Settled, LaneDrained, ItemDone
<1> QED
  BY <1>1, <1>2, <1>3, <1>4, <1>5, <1>6, <1>7 DEF Inv

LEMMA ReserveStep ==
    ASSUME Inv, NEW t \in Tasks, Reserve(t)
    PROVE  Inv'
<1> USE TaskGroupCloseAssumption DEF Reserve, ScopePcs, vars, lifecycle, tokens, children,
   leading, periodic
<1>1. TypeOK'
  BY DEF Inv, TypeOK
<1>2. CountOK'
  <2>1. InScope' = InScope
    BY DEF Inv, TypeOK, InScope, ScopePcs
  <2> QED
    BY <2>1 DEF Inv, CountOK
<1>3. TickOK'
  BY DEF Inv, TypeOK, TickOK, ItemDone
<1>4. LeadOK'
  BY DEF Inv, TypeOK, LeadOK, SingleLeader
<1>5. ConvergedOK'
  BY DEF Inv, TypeOK, ConvergedOK, LeadOK, Quiescent, Drained, Joined, Settled, LaneDrained,
     ItemDone
<1>6. \A u \in Tasks : PlaceOK(u)'
  BY DEF Inv, TypeOK, PlaceOK
<1>7. \A d \in Closers : LeaderOK(d)'
  BY DEF Inv, TypeOK, LeaderOK, Records, Blameless, QuiescedPcs, JoinedPcs, Quiescent, Drained,
     Joined, Settled, LaneDrained, ItemDone
<1> QED
  BY <1>1, <1>2, <1>3, <1>4, <1>5, <1>6, <1>7 DEF Inv

LEMMA ProviderAcceptStep ==
    ASSUME Inv, NEW t \in Tasks, ProviderAccept(t)
    PROVE  Inv'
<1> USE TaskGroupCloseAssumption DEF ProviderAccept, ScopePcs, vars, lifecycle, tokens,
   children, leading, periodic
<1>1. TypeOK'
  BY DEF Inv, TypeOK
<1>2. CountOK'
  <2>1. InScope' = InScope
    BY DEF Inv, TypeOK, InScope, ScopePcs
  <2> QED
    BY <2>1 DEF Inv, CountOK
<1>3. TickOK'
  BY DEF Inv, TypeOK, TickOK, ItemDone
<1>4. LeadOK'
  BY DEF Inv, TypeOK, LeadOK, SingleLeader
<1>5. ConvergedOK'
  BY DEF Inv, TypeOK, ConvergedOK, LeadOK, Quiescent, Drained, Joined, Settled, LaneDrained,
     ItemDone
<1>6. \A u \in Tasks : PlaceOK(u)'
  BY DEF Inv, TypeOK, PlaceOK
<1>7. \A d \in Closers : LeaderOK(d)'
  BY DEF Inv, TypeOK, LeaderOK, Records, Blameless, QuiescedPcs, JoinedPcs, Quiescent, Drained,
     Joined, Settled, LaneDrained, ItemDone
<1> QED
  BY <1>1, <1>2, <1>3, <1>4, <1>5, <1>6, <1>7 DEF Inv

LEMMA ProviderCancelStep ==
    ASSUME Inv, NEW t \in Tasks, ProviderCancel(t)
    PROVE  Inv'
<1> USE TaskGroupCloseAssumption DEF ProviderCancel, Mark, Terminal, ScopePcs, vars, lifecycle,
   tokens, children, leading, periodic
<1>1. TypeOK'
  BY DEF Inv, TypeOK
<1>2. CountOK'
  <2>1. InScope' = InScope
    BY DEF Inv, TypeOK, InScope, ScopePcs
  <2> QED
    BY <2>1 DEF Inv, CountOK
<1>3. TickOK'
  BY DEF Inv, TypeOK, TickOK, ItemDone
<1>4. LeadOK'
  BY DEF Inv, TypeOK, LeadOK, SingleLeader
<1>5. ConvergedOK'
  BY DEF Inv, TypeOK, ConvergedOK, LeadOK, Quiescent, Drained, Joined, Settled, LaneDrained,
     ItemDone
<1>6. \A u \in Tasks : PlaceOK(u)'
  BY DEF Inv, TypeOK, PlaceOK
<1>7. \A d \in Closers : LeaderOK(d)'
  BY DEF Inv, TypeOK, LeaderOK, Records, Blameless, QuiescedPcs, JoinedPcs, Quiescent, Drained,
     Joined, Settled, LaneDrained, ItemDone
<1> QED
  BY <1>1, <1>2, <1>3, <1>4, <1>5, <1>6, <1>7 DEF Inv

LEMMA ProviderRejectStep ==
    ASSUME Inv, NEW t \in Tasks, ProviderReject(t)
    PROVE  Inv'
<1> USE TaskGroupCloseAssumption DEF ProviderReject, Mark, Terminal, ScopePcs, vars, lifecycle,
   tokens, children, leading, periodic
<1>1. TypeOK'
  BY DEF Inv, TypeOK
<1>2. CountOK'
  <2>1. InScope' = InScope
    BY DEF Inv, TypeOK, InScope, ScopePcs
  <2> QED
    BY <2>1 DEF Inv, CountOK
<1>3. TickOK'
  BY DEF Inv, TypeOK, TickOK, ItemDone
<1>4. LeadOK'
  BY DEF Inv, TypeOK, LeadOK, SingleLeader
<1>5. ConvergedOK'
  BY DEF Inv, TypeOK, ConvergedOK, LeadOK, Quiescent, Drained, Joined, Settled, LaneDrained,
     ItemDone
<1>6. \A u \in Tasks : PlaceOK(u)'
  BY DEF Inv, TypeOK, PlaceOK
<1>7. \A d \in Closers : LeaderOK(d)'
  BY DEF Inv, TypeOK, LeaderOK, Records, Blameless, QuiescedPcs, JoinedPcs, Quiescent, Drained,
     Joined, Settled, LaneDrained, ItemDone
<1> QED
  BY <1>1, <1>2, <1>3, <1>4, <1>5, <1>6, <1>7 DEF Inv

LEMMA BindStep ==
    ASSUME Inv, NEW t \in Tasks, Bind(t)
    PROVE  Inv'
<1> USE TaskGroupCloseAssumption DEF Bind, ScopePcs, vars, lifecycle, tokens, children,
   leading, periodic
<1>1. TypeOK'
  BY DEF Inv, TypeOK
<1>2. CountOK'
  <2>1. InScope' = InScope
    BY DEF Inv, TypeOK, InScope, ScopePcs
  <2> QED
    BY <2>1 DEF Inv, CountOK
<1>3. TickOK'
  BY DEF Inv, TypeOK, TickOK, ItemDone
<1>4. LeadOK'
  BY DEF Inv, TypeOK, LeadOK, SingleLeader
<1>5. ConvergedOK'
  BY DEF Inv, TypeOK, ConvergedOK, LeadOK, Quiescent, Drained, Joined, Settled, LaneDrained,
     ItemDone
<1>6. \A u \in Tasks : PlaceOK(u)'
  BY DEF Inv, TypeOK, PlaceOK
<1>7. \A d \in Closers : LeaderOK(d)'
  BY DEF Inv, TypeOK, LeaderOK, Records, Blameless, QuiescedPcs, JoinedPcs, Quiescent, Drained,
     Joined, Settled, LaneDrained, ItemDone
<1> QED
  BY <1>1, <1>2, <1>3, <1>4, <1>5, <1>6, <1>7 DEF Inv

LEMMA CancelIfClosingStep ==
    ASSUME Inv, NEW t \in Tasks, CancelIfClosing(t)
    PROVE  Inv'
<1> USE TaskGroupCloseAssumption DEF CancelIfClosing, CancelRecord, Bound, Terminal, ScopePcs,
   vars, lifecycle, tokens, children, leading, periodic
<1>1. TypeOK'
  <2>1. UNCHANGED children \/ CancelRecord(t)
    BY Zenon
  <2>2. CASE UNCHANGED children
    BY <2>2 DEF Inv, TypeOK
  <2>3. CASE CancelRecord(t)
    <3>1. TypeOK
      BY DEF Inv
    <3> HIDE DEF CancelRecord
    <3> QED
      BY <3>1, <2>3, CancelRecordTypes DEF TypeOK
  <2> QED
    BY <2>1, <2>2, <2>3
<1>2. CountOK'
  <2>1. InScope' = InScope
    BY DEF Inv, TypeOK, InScope, ScopePcs
  <2> QED
    BY <2>1 DEF Inv, CountOK
<1>3. TickOK'
  BY DEF Inv, TypeOK, TickOK, ItemDone
<1>4. LeadOK'
  BY DEF Inv, TypeOK, LeadOK, SingleLeader
<1>5. ConvergedOK'
  BY DEF Inv, TypeOK, ConvergedOK, LeadOK, Quiescent, Drained, Joined, Settled, LaneDrained,
     ItemDone
<1>6. \A u \in Tasks : PlaceOK(u)'
  BY DEF Inv, TypeOK, PlaceOK
<1>7. \A d \in Closers : LeaderOK(d)'
  BY DEF Inv, TypeOK, LeaderOK, Records, Blameless, QuiescedPcs, JoinedPcs, Quiescent, Drained,
     Joined, Settled, LaneDrained, ItemDone
<1> QED
  BY <1>1, <1>2, <1>3, <1>4, <1>5, <1>6, <1>7 DEF Inv

\* A thread that leaves was one of those counted.
LEMMA ScopeLeft ==
    ASSUME Inv, NEW t \in Tasks, LeaveScope(t)
    PROVE  active' = Cardinality(InScope') /\ active' \in Nat
<1>1. InScope' = InScope \ {t} /\ t \in InScope
  BY DEF Inv, TypeOK, InScope, ScopePcs, LeaveScope
<1>2. IsFiniteSet(InScope') /\ Cardinality(InScope') = Cardinality(InScope) - 1
  BY <1>1, ScopeIsFinite, FS_RemoveElement
<1>3. Cardinality(InScope') \in Nat
  BY <1>2, FS_CardinalityType
<1> QED
  BY <1>2, <1>3 DEF Inv, CountOK, LeaveScope

LEMMA LeaveScopeStep ==
    ASSUME Inv, NEW t \in Tasks, LeaveScope(t)
    PROVE  Inv'
<1> USE TaskGroupCloseAssumption DEF LeaveScope, ScopePcs, vars, lifecycle, tokens, children,
   leading, periodic
<1>1. TypeOK'
  <2>1. active' \in Nat
    BY ScopeLeft
  <2> QED
    BY <2>1 DEF Inv, TypeOK
<1>2. CountOK'
  BY ScopeLeft DEF CountOK
<1>3. TickOK'
  BY DEF Inv, TypeOK, TickOK, ItemDone
<1>4. LeadOK'
  BY DEF Inv, TypeOK, LeadOK, SingleLeader
<1>5. ConvergedOK'
  BY DEF Inv, TypeOK, ConvergedOK, LeadOK, Quiescent, Drained, Joined, Settled, LaneDrained,
     ItemDone
<1>6. \A u \in Tasks : PlaceOK(u)'
  BY DEF Inv, TypeOK, PlaceOK
<1>7. \A d \in Closers : LeaderOK(d)'
  BY DEF Inv, TypeOK, LeaderOK, Records, Blameless, QuiescedPcs, JoinedPcs, Quiescent, Drained,
     Joined, Settled, LaneDrained, ItemDone
<1> QED
  BY <1>1, <1>2, <1>3, <1>4, <1>5, <1>6, <1>7 DEF Inv

-----------------------------------------------------------------------------
(***************************************************************************)
(* Every step of a child, of the timer thread and of the cancelling one.   *)
(***************************************************************************)

\* No other step changes who is inside a submission.
LEMMA ScopeKept == active' = active /\ submitter' = submitter /\ CountOK => CountOK'
BY DEF CountOK, InScope

LEMMA StartStep ==
    ASSUME Inv, NEW t \in Tasks, Start(t)
    PROVE  Inv'
<1> USE TaskGroupCloseAssumption DEF Start, vars, lifecycle, tokens, children, leading,
   periodic
<1>1. TypeOK'
  BY DEF Inv, TypeOK
<1>2. CountOK'
  BY ScopeKept DEF Inv
<1>3. TickOK'
  BY DEF Inv, TypeOK, TickOK, ItemDone
<1>4. LeadOK'
  BY DEF Inv, TypeOK, LeadOK, SingleLeader
<1>5. ConvergedOK'
  BY DEF Inv, TypeOK, ConvergedOK, LeadOK, Quiescent, Drained, Joined, Settled, LaneDrained,
     ItemDone
<1>6. \A u \in Tasks : PlaceOK(u)'
  BY DEF Inv, TypeOK, PlaceOK
<1>7. \A d \in Closers : LeaderOK(d)'
  BY DEF Inv, TypeOK, LeaderOK, Records, Blameless, QuiescedPcs, JoinedPcs, Quiescent, Drained,
     Joined, Settled, LaneDrained, ItemDone
<1> QED
  BY <1>1, <1>2, <1>3, <1>4, <1>5, <1>6, <1>7 DEF Inv

LEMMA FinishStep ==
    ASSUME Inv, NEW t \in Tasks, Finish(t)
    PROVE  Inv'
<1> USE TaskGroupCloseAssumption DEF Finish, Results, vars, lifecycle, tokens, children,
   leading, periodic
<1>1. TypeOK'
  BY DEF Inv, TypeOK
<1>2. CountOK'
  BY ScopeKept DEF Inv
<1>3. TickOK'
  BY DEF Inv, TypeOK, TickOK, ItemDone
<1>4. LeadOK'
  BY DEF Inv, TypeOK, LeadOK, SingleLeader
<1>5. ConvergedOK'
  BY DEF Inv, TypeOK, ConvergedOK, LeadOK, Quiescent, Drained, Joined, Settled, LaneDrained,
     ItemDone
<1>6. \A u \in Tasks : PlaceOK(u)'
  BY DEF Inv, TypeOK, PlaceOK
<1>7. \A d \in Closers : LeaderOK(d)'
  BY DEF Inv, TypeOK, LeaderOK, Records, Blameless, QuiescedPcs, JoinedPcs, Quiescent, Drained,
     Joined, Settled, LaneDrained, ItemDone
<1> QED
  BY <1>1, <1>2, <1>3, <1>4, <1>5, <1>6, <1>7 DEF Inv

LEMMA SyncStep ==
    ASSUME Inv, NEW t \in Tasks, Sync(t)
    PROVE  Inv'
<1> USE TaskGroupCloseAssumption DEF Sync, Bound, Finished, Synced, Terminal, vars, lifecycle,
   tokens, children, leading, periodic
<1>1. TypeOK'
  BY DEF Inv, TypeOK
<1>2. CountOK'
  BY ScopeKept DEF Inv
<1>3. TickOK'
  BY DEF Inv, TypeOK, TickOK, ItemDone
<1>4. LeadOK'
  BY DEF Inv, TypeOK, LeadOK, SingleLeader
<1>5. ConvergedOK'
  BY DEF Inv, TypeOK, ConvergedOK, LeadOK, Quiescent, Drained, Joined, Settled, LaneDrained,
     ItemDone
<1>6. \A u \in Tasks : PlaceOK(u)'
  BY DEF Inv, TypeOK, PlaceOK
<1>7. \A d \in Closers : LeaderOK(d)'
  <2>1. state[t] = "pending" /\ t \in Tasks
    BY DEF Inv, TypeOK, PlaceOK
  <2>2. Records' = Records
    <3>1. \A u \in Tasks : state'[u] # "absent" <=> state[u] # "absent"
      BY <2>1 DEF Inv, TypeOK
    <3> QED
      BY <3>1 DEF Records
  <2>3. ~Blameless(t)
    BY <2>1 DEF Blameless
  <2>4. SUFFICES ASSUME NEW d \in Closers PROVE LeaderOK(d)'
    OBVIOUS
  <2>5. LeaderOK(d)
    BY DEF Inv
  <2>6. UNCHANGED <<Quiescent, Drained, Joined>>
    BY DEF Quiescent, Drained, Joined, Settled, LaneDrained, ItemDone
  <2> QED
    BY <2>2, <2>3, <2>5, <2>6 DEF LeaderOK
<1> QED
  BY <1>1, <1>2, <1>3, <1>4, <1>5, <1>6, <1>7 DEF Inv

LEMMA TickPassesStep ==
    ASSUME Inv, TickPasses
    PROVE  Inv'
<1> USE TaskGroupCloseAssumption DEF TickPasses, CurrentDone, ItemDone, vars, lifecycle,
   tokens, children, leading, periodic
<1>1. TypeOK'
  BY DEF Inv, TypeOK
<1>2. CountOK'
  BY ScopeKept DEF Inv
<1>3. TickOK'
  BY DEF Inv, TypeOK, TickOK, ItemDone
<1>4. LeadOK'
  BY DEF Inv, TypeOK, LeadOK, SingleLeader
<1>5. ConvergedOK'
  BY DEF Inv, TypeOK, ConvergedOK, LeadOK, Quiescent, Drained, Joined, Settled, LaneDrained,
     ItemDone
<1>6. \A u \in Tasks : PlaceOK(u)'
  BY DEF Inv, TypeOK, PlaceOK
<1>7. \A d \in Closers : LeaderOK(d)'
  BY DEF Inv, TypeOK, LeaderOK, Records, Blameless, QuiescedPcs, JoinedPcs, Quiescent, Drained,
     Joined, Settled, LaneDrained, ItemDone
<1> QED
  BY <1>1, <1>2, <1>3, <1>4, <1>5, <1>6, <1>7 DEF Inv

LEMMA TickEnqueueStep ==
    ASSUME Inv, TickEnqueue
    PROVE  Inv'
<1> USE TaskGroupCloseAssumption DEF TickEnqueue, vars, lifecycle, tokens, children, leading,
   periodic
<1>1. TypeOK'
  BY DEF Inv, TypeOK
<1>2. CountOK'
  BY ScopeKept DEF Inv
<1>3. TickOK'
  BY DEF Inv, TypeOK, TickOK, ItemDone
<1>4. LeadOK'
  BY DEF Inv, TypeOK, LeadOK, SingleLeader
<1>5. ConvergedOK'
  BY DEF Inv, TypeOK, ConvergedOK, LeadOK, Quiescent, Drained, Joined, Settled, LaneDrained,
     ItemDone
<1>6. \A u \in Tasks : PlaceOK(u)'
  BY DEF Inv, TypeOK, PlaceOK
<1>7. \A d \in Closers : LeaderOK(d)'
  BY DEF Inv, TypeOK, LeaderOK, Records, Blameless, QuiescedPcs, JoinedPcs, Quiescent, Drained,
     Joined, Settled, LaneDrained, ItemDone
<1> QED
  BY <1>1, <1>2, <1>3, <1>4, <1>5, <1>6, <1>7 DEF Inv

LEMMA TickRefusedStep ==
    ASSUME Inv, TickRefused
    PROVE  Inv'
<1> USE TaskGroupCloseAssumption DEF TickRefused, vars, lifecycle, tokens, children, leading,
   periodic
<1>1. TypeOK'
  BY DEF Inv, TypeOK
<1>2. CountOK'
  BY ScopeKept DEF Inv
<1>3. TickOK'
  BY DEF Inv, TypeOK, TickOK, ItemDone
<1>4. LeadOK'
  BY DEF Inv, TypeOK, LeadOK, SingleLeader
<1>5. ConvergedOK'
  BY DEF Inv, TypeOK, ConvergedOK, LeadOK, Quiescent, Drained, Joined, Settled, LaneDrained,
     ItemDone
<1>6. \A u \in Tasks : PlaceOK(u)'
  BY DEF Inv, TypeOK, PlaceOK
<1>7. \A d \in Closers : LeaderOK(d)'
  BY DEF Inv, TypeOK, LeaderOK, Records, Blameless, QuiescedPcs, JoinedPcs, Quiescent, Drained,
     Joined, Settled, LaneDrained, ItemDone
<1> QED
  BY <1>1, <1>2, <1>3, <1>4, <1>5, <1>6, <1>7 DEF Inv

LEMMA TickBindStep ==
    ASSUME Inv, TickBind
    PROVE  Inv'
<1> USE TaskGroupCloseAssumption DEF TickBind, vars, lifecycle, tokens, children, leading,
   periodic
<1>1. TypeOK'
  BY DEF Inv, TypeOK
<1>2. CountOK'
  BY ScopeKept DEF Inv
<1>3. TickOK'
  BY DEF Inv, TypeOK, TickOK, ItemDone
<1>4. LeadOK'
  BY DEF Inv, TypeOK, LeadOK, SingleLeader
<1>5. ConvergedOK'
  BY DEF Inv, TypeOK, ConvergedOK, LeadOK, Quiescent, Drained, Joined, Settled, LaneDrained,
     ItemDone
<1>6. \A u \in Tasks : PlaceOK(u)'
  BY DEF Inv, TypeOK, PlaceOK
<1>7. \A d \in Closers : LeaderOK(d)'
  BY DEF Inv, TypeOK, LeaderOK, Records, Blameless, QuiescedPcs, JoinedPcs, Quiescent, Drained,
     Joined, Settled, LaneDrained, ItemDone
<1> QED
  BY <1>1, <1>2, <1>3, <1>4, <1>5, <1>6, <1>7 DEF Inv

LEMMA ItemStartStep ==
    ASSUME Inv, ItemStart
    PROVE  Inv'
<1> USE TaskGroupCloseAssumption DEF ItemStart, vars, lifecycle, tokens, children, leading,
   periodic
<1>1. TypeOK'
  BY DEF Inv, TypeOK
<1>2. CountOK'
  BY ScopeKept DEF Inv
<1>3. TickOK'
  BY DEF Inv, TypeOK, TickOK, ItemDone
<1>4. LeadOK'
  BY DEF Inv, TypeOK, LeadOK, SingleLeader
<1>5. ConvergedOK'
  BY DEF Inv, TypeOK, ConvergedOK, LeadOK, Quiescent, Drained, Joined, Settled, LaneDrained,
     ItemDone
<1>6. \A u \in Tasks : PlaceOK(u)'
  BY DEF Inv, TypeOK, PlaceOK
<1>7. \A d \in Closers : LeaderOK(d)'
  BY DEF Inv, TypeOK, LeaderOK, Records, Blameless, QuiescedPcs, JoinedPcs, Quiescent, Drained,
     Joined, Settled, LaneDrained, ItemDone
<1> QED
  BY <1>1, <1>2, <1>3, <1>4, <1>5, <1>6, <1>7 DEF Inv

LEMMA ItemFinishStep ==
    ASSUME Inv, ItemFinish
    PROVE  Inv'
<1> USE TaskGroupCloseAssumption DEF ItemFinish, vars, lifecycle, tokens, children, leading,
   periodic
<1>1. TypeOK'
  BY DEF Inv, TypeOK
<1>2. CountOK'
  BY ScopeKept DEF Inv
<1>3. TickOK'
  BY DEF Inv, TypeOK, TickOK, ItemDone
<1>4. LeadOK'
  BY DEF Inv, TypeOK, LeadOK, SingleLeader
<1>5. ConvergedOK'
  BY DEF Inv, TypeOK, ConvergedOK, LeadOK, Quiescent, Drained, Joined, Settled, LaneDrained,
     ItemDone
<1>6. \A u \in Tasks : PlaceOK(u)'
  BY DEF Inv, TypeOK, PlaceOK
<1>7. \A d \in Closers : LeaderOK(d)'
  BY DEF Inv, TypeOK, LeaderOK, Records, Blameless, QuiescedPcs, JoinedPcs, Quiescent, Drained,
     Joined, Settled, LaneDrained, ItemDone
<1> QED
  BY <1>1, <1>2, <1>3, <1>4, <1>5, <1>6, <1>7 DEF Inv

LEMMA CancelBeginsStep ==
    ASSUME Inv, CancelBegins
    PROVE  Inv'
<1> USE TaskGroupCloseAssumption DEF CancelBegins, CancelGroup, CancelRecurring, Records, vars,
   lifecycle, tokens, children, leading, periodic
<1>1. TypeOK'
  BY DEF Inv, TypeOK
<1>2. CountOK'
  BY ScopeKept DEF Inv
<1>3. TickOK'
  BY DEF Inv, TypeOK, TickOK, ItemDone
<1>4. LeadOK'
  BY DEF Inv, TypeOK, LeadOK, SingleLeader
<1>5. ConvergedOK'
  BY DEF Inv, TypeOK, ConvergedOK, LeadOK, Quiescent, Drained, Joined, Settled, LaneDrained,
     ItemDone
<1>6. \A u \in Tasks : PlaceOK(u)'
  BY DEF Inv, TypeOK, PlaceOK
<1>7. \A d \in Closers : LeaderOK(d)'
  BY DEF Inv, TypeOK, LeaderOK, Records, Blameless, QuiescedPcs, JoinedPcs, Quiescent, Drained,
     Joined, Settled, LaneDrained, ItemDone
<1> QED
  BY <1>1, <1>2, <1>3, <1>4, <1>5, <1>6, <1>7 DEF Inv

LEMMA CancelVisitsStep ==
    ASSUME Inv, NEW t \in Tasks, NEW a \in Closers \cup {Canceller}, CancelVisits(a, t)
    PROVE  Inv'
<1> USE TaskGroupCloseAssumption DEF CancelVisits, CancelRecord, Bound, Terminal, vars,
   lifecycle, tokens, children, leading, periodic
<1>1. TypeOK'
  <2>1. TypeOK /\ CancelRecord(t)
    BY DEF Inv
  <2> HIDE DEF CancelRecord
  <2> QED
    BY <2>1, CancelRecordTypes DEF TypeOK
<1>2. CountOK'
  BY ScopeKept DEF Inv
<1>3. TickOK'
  BY DEF Inv, TypeOK, TickOK, ItemDone
<1>4. LeadOK'
  BY DEF Inv, TypeOK, LeadOK, SingleLeader
<1>5. ConvergedOK'
  BY DEF Inv, TypeOK, ConvergedOK, LeadOK, Quiescent, Drained, Joined, Settled, LaneDrained,
     ItemDone
<1>6. \A u \in Tasks : PlaceOK(u)'
  BY DEF Inv, TypeOK, PlaceOK
<1>7. \A d \in Closers : LeaderOK(d)'
  BY DEF Inv, TypeOK, LeaderOK, Records, Blameless, QuiescedPcs, JoinedPcs, Quiescent, Drained,
     Joined, Settled, LaneDrained, ItemDone
<1> QED
  BY <1>1, <1>2, <1>3, <1>4, <1>5, <1>6, <1>7 DEF Inv

LEMMA CancelEndsStep ==
    ASSUME Inv, CancelEnds
    PROVE  Inv'
<1> USE TaskGroupCloseAssumption DEF CancelEnds, vars, lifecycle, tokens, children, leading,
   periodic
<1>1. TypeOK'
  BY DEF Inv, TypeOK
<1>2. CountOK'
  BY ScopeKept DEF Inv
<1>3. TickOK'
  BY DEF Inv, TypeOK, TickOK, ItemDone
<1>4. LeadOK'
  BY DEF Inv, TypeOK, LeadOK, SingleLeader
<1>5. ConvergedOK'
  BY DEF Inv, TypeOK, ConvergedOK, LeadOK, Quiescent, Drained, Joined, Settled, LaneDrained,
     ItemDone
<1>6. \A u \in Tasks : PlaceOK(u)'
  BY DEF Inv, TypeOK, PlaceOK
<1>7. \A d \in Closers : LeaderOK(d)'
  BY DEF Inv, TypeOK, LeaderOK, Records, Blameless, QuiescedPcs, JoinedPcs, Quiescent, Drained,
     Joined, Settled, LaneDrained, ItemDone
<1> QED
  BY <1>1, <1>2, <1>3, <1>4, <1>5, <1>6, <1>7 DEF Inv

-----------------------------------------------------------------------------
(***************************************************************************)
(* Every step of a closing thread.                                         *)
(***************************************************************************)

\* wait() leaves a record that is final, or absent, as it is.
LEMMA JoinedStates ==
    ASSUME Inv, NEW c \in Closers, CloseJoins(c)
    PROVE  \A t \in Tasks : /\ state'[t] = "absent" <=> state[t] = "absent"
                            /\ state[t] \in Terminal => state'[t] = state[t]
<1> DEFINE synced == {t \in todo[c] : Bound(t) /\ Finished(t) /\ state[t] \notin Terminal}
<1>1. PICK s \in [Tasks -> Terminal] :
          state' = [t \in Tasks |-> IF t \in synced THEN s[t] ELSE state[t]]
  BY DEF CloseJoins
<1>2. SUFFICES ASSUME NEW t \in Tasks
               PROVE  /\ state'[t] = "absent" <=> state[t] = "absent"
                      /\ state[t] \in Terminal => state'[t] = state[t]
  OBVIOUS
<1>3. state'[t] = IF t \in synced THEN s[t] ELSE state[t]
  BY <1>1
<1>4. t \in synced => state[t] # "absent" /\ state[t] \notin Terminal
  BY DEF Inv, PlaceOK, Bound
<1>5. s[t] \in Terminal /\ "absent" \notin Terminal
  BY DEF Terminal
<1> HIDE DEF synced
<1> QED
  BY <1>3, <1>4, <1>5

LEMMA CloseIsCompleteStep ==
    ASSUME Inv, NEW c \in Closers, CloseIsComplete(c)
    PROVE  Inv'
<1> USE TaskGroupCloseAssumption DEF CloseIsComplete, CloserGoes, Returns, vars, lifecycle,
   tokens, children, leading, periodic
<1>1. TypeOK'
  BY DEF Inv, TypeOK, LeaderPcs
<1>2. CountOK'
  BY ScopeKept DEF Inv
<1>3. TickOK'
  BY DEF Inv, TypeOK, TickOK, ItemDone
<1>4. LeadOK'
  BY DEF Inv, TypeOK, LeadOK, SingleLeader, LeaderPcs
<1>5. ConvergedOK'
  BY DEF Inv, TypeOK, ConvergedOK, LeadOK, Quiescent, Drained, Joined, Settled, LaneDrained,
     ItemDone
<1>6. \A u \in Tasks : PlaceOK(u)'
  BY DEF Inv, TypeOK, PlaceOK
<1>7. \A d \in Closers : LeaderOK(d)'
  BY DEF Inv, TypeOK, LeaderOK, Records, Blameless, QuiescedPcs, JoinedPcs, Quiescent, Drained,
     Joined, Settled, LaneDrained, ItemDone
<1> QED
  BY <1>1, <1>2, <1>3, <1>4, <1>5, <1>6, <1>7 DEF Inv

LEMMA CloseMustWaitStep ==
    ASSUME Inv, NEW c \in Closers, CloseMustWait(c)
    PROVE  Inv'
<1> USE TaskGroupCloseAssumption DEF CloseMustWait, CloserGoes, vars, lifecycle, tokens,
   children, leading, periodic
<1>1. TypeOK'
  BY DEF Inv, TypeOK, LeaderPcs
<1>2. CountOK'
  BY ScopeKept DEF Inv
<1>3. TickOK'
  BY DEF Inv, TypeOK, TickOK, ItemDone
<1>4. LeadOK'
  BY DEF Inv, TypeOK, LeadOK, SingleLeader, LeaderPcs
<1>5. ConvergedOK'
  BY DEF Inv, TypeOK, ConvergedOK, LeadOK, Quiescent, Drained, Joined, Settled, LaneDrained,
     ItemDone
<1>6. \A u \in Tasks : PlaceOK(u)'
  BY DEF Inv, TypeOK, PlaceOK
<1>7. \A d \in Closers : LeaderOK(d)'
  BY DEF Inv, TypeOK, LeaderOK, Records, Blameless, QuiescedPcs, JoinedPcs, Quiescent, Drained,
     Joined, Settled, LaneDrained, ItemDone
<1> QED
  BY <1>1, <1>2, <1>3, <1>4, <1>5, <1>6, <1>7 DEF Inv

LEMMA CloseLeadsStep ==
    ASSUME Inv, NEW c \in Closers, CloseLeads(c)
    PROVE  Inv'
<1> USE TaskGroupCloseAssumption DEF CloseLeads, CloserGoes, Leads, vars, lifecycle, tokens,
   children, leading, periodic
<1>1. TypeOK'
  <2>1. closer' \in [Closers -> LeaderPcs \cup {"idle", "arriving", "blocked", "woken", "signalling"}]
    BY DEF Inv, TypeOK, LeaderPcs
  <2>2. outcome' \in [Closers -> {"none", "clean", "failed"}]
    BY DEF Inv, TypeOK
  <2>3. closing' \in BOOLEAN /\ closed' \in BOOLEAN /\ failure' \in BOOLEAN /\ event' \in BOOLEAN
    BY Zenon
  <2> QED
    BY <2>1, <2>2, <2>3 DEF Inv, TypeOK
<1>2. CountOK'
  BY ScopeKept DEF Inv
<1>3. TickOK'
  BY DEF Inv, TypeOK, TickOK, ItemDone
<1>4. LeadOK'
  BY DEF Inv, TypeOK, LeadOK, SingleLeader, LeaderPcs
<1>5. ConvergedOK'
  BY DEF Inv, TypeOK, ConvergedOK, LeadOK, Quiescent, Drained, Joined, Settled, LaneDrained,
     ItemDone
<1>6. \A u \in Tasks : PlaceOK(u)'
  BY DEF Inv, TypeOK, PlaceOK
<1>7. \A d \in Closers : LeaderOK(d)'
  BY DEF Inv, TypeOK, LeaderOK, Records, Blameless, QuiescedPcs, JoinedPcs, Quiescent, Drained,
     Joined, Settled, LaneDrained, ItemDone
<1> QED
  BY <1>1, <1>2, <1>3, <1>4, <1>5, <1>6, <1>7 DEF Inv

LEMMA CloseSealsSubmissionsStep ==
    ASSUME Inv, NEW c \in Closers, CloseSealsSubmissions(c)
    PROVE  Inv'
<1> USE TaskGroupCloseAssumption DEF CloseSealsSubmissions, CloserGoes, CancelGroup,
   CancelRecurring, Records, vars, lifecycle, tokens, children, leading, periodic
<1>1. TypeOK'
  <2>1. closer' \in [Closers -> LeaderPcs \cup {"idle", "arriving", "blocked", "woken", "signalling"}]
    BY DEF Inv, TypeOK, LeaderPcs
  <2>2. todo' \in [Closers \cup {Canceller} -> SUBSET Tasks]
    BY DEF Inv, TypeOK
  <2>3. /\ cancelled' \in BOOLEAN /\ recCancelled' \in BOOLEAN
        /\ recurring' \in {"running", "failed", "cancelled"}
        /\ item' \in {"none", "queued", "running", "done"}
    BY DEF Inv, TypeOK
  <2> QED
    BY <2>1, <2>2, <2>3 DEF Inv, TypeOK
<1>2. CountOK'
  BY ScopeKept DEF Inv
<1>3. TickOK'
  BY DEF Inv, TypeOK, TickOK, ItemDone
<1>4. LeadOK'
  BY DEF Inv, TypeOK, LeadOK, SingleLeader, LeaderPcs
<1>5. ConvergedOK'
  BY DEF Inv, TypeOK, ConvergedOK, LeadOK, Quiescent, Drained, Joined, Settled, LaneDrained,
     ItemDone
<1>6. \A u \in Tasks : PlaceOK(u)'
  BY DEF Inv, TypeOK, PlaceOK
<1>7. \A d \in Closers : LeaderOK(d)'
  BY DEF Inv, TypeOK, LeaderOK, Records, Blameless, QuiescedPcs, JoinedPcs, Quiescent, Drained,
     Joined, Settled, LaneDrained, ItemDone
<1> QED
  BY <1>1, <1>2, <1>3, <1>4, <1>5, <1>6, <1>7 DEF Inv

LEMMA CloseCancelledStep ==
    ASSUME Inv, NEW c \in Closers, CloseCancelled(c)
    PROVE  Inv'
<1> USE TaskGroupCloseAssumption DEF CloseCancelled, CloserGoes, vars, lifecycle, tokens,
   children, leading, periodic
<1>1. TypeOK'
  BY DEF Inv, TypeOK, LeaderPcs
<1>2. CountOK'
  BY ScopeKept DEF Inv
<1>3. TickOK'
  BY DEF Inv, TypeOK, TickOK, ItemDone
<1>4. LeadOK'
  BY DEF Inv, TypeOK, LeadOK, SingleLeader, LeaderPcs
<1>5. ConvergedOK'
  BY DEF Inv, TypeOK, ConvergedOK, LeadOK, Quiescent, Drained, Joined, Settled, LaneDrained,
     ItemDone
<1>6. \A u \in Tasks : PlaceOK(u)'
  BY DEF Inv, TypeOK, PlaceOK
<1>7. \A d \in Closers : LeaderOK(d)'
  BY DEF Inv, TypeOK, LeaderOK, Records, Blameless, QuiescedPcs, JoinedPcs, Quiescent, Drained,
     Joined, Settled, LaneDrained, ItemDone
<1> QED
  BY <1>1, <1>2, <1>3, <1>4, <1>5, <1>6, <1>7 DEF Inv

LEMMA CloseQuiescesStep ==
    ASSUME Inv, NEW c \in Closers, CloseQuiesces(c)
    PROVE  Inv'
<1> USE TaskGroupCloseAssumption DEF CloseQuiesces, CloserGoes, vars, lifecycle, tokens,
   children, leading, periodic
<1>1. TypeOK'
  <2>1. closer' \in [Closers -> LeaderPcs \cup {"idle", "arriving", "blocked", "woken", "signalling"}]
    BY DEF Inv, TypeOK, LeaderPcs
  <2>2. quiesced' \in [Closers -> BOOLEAN]
    BY DEF Inv, TypeOK
  <2>3. errors' \in [Closers -> BOOLEAN]
    BY DEF Inv, TypeOK
  <2> QED
    BY <2>1, <2>2, <2>3 DEF Inv, TypeOK
<1>2. CountOK'
  BY ScopeKept DEF Inv
<1>3. TickOK'
  BY DEF Inv, TypeOK, TickOK, ItemDone
<1>4. LeadOK'
  BY DEF Inv, TypeOK, LeadOK, SingleLeader, LeaderPcs
<1>5. ConvergedOK'
  BY DEF Inv, TypeOK, ConvergedOK, LeadOK, Quiescent, Drained, Joined, Settled, LaneDrained,
     ItemDone
<1>6. \A u \in Tasks : PlaceOK(u)'
  BY DEF Inv, TypeOK, PlaceOK
<1>7. \A d \in Closers : LeaderOK(d)'
  <2>1. /\ UNCHANGED <<Quiescent, Drained, Joined, Records>>
        /\ \A t \in Tasks : Blameless(t)' = Blameless(t)
    BY DEF Quiescent, Drained, Joined, Settled, LaneDrained, ItemDone, Records, Blameless
  <2>2. SUFFICES ASSUME NEW d \in Closers PROVE LeaderOK(d)'
    OBVIOUS
  <2>3. LeaderOK(c) /\ LeaderOK(d)
    BY DEF Inv
  <2>4. CASE d # c
    BY <2>1, <2>3, <2>4 DEF Inv, TypeOK, LeaderOK
  <2>5. active = 0 => Quiescent
    <3>1. active = 0 => InScope = {}
      BY ScopeIsFinite, FS_EmptySet, FS_Subset, TaskGroupCloseAssumption DEF Inv, CountOK,
         InScope
    <3>2. closed
      BY DEF Inv, TypeOK, LeadOK, SingleLeader, LeaderPcs
    <3> QED
      BY <3>1, <3>2 DEF Quiescent, InScope
  <2>6. CASE d = c
    BY <2>1, <2>3, <2>5, <2>6 DEF Inv, TypeOK, LeaderOK, QuiescedPcs, JoinedPcs
  <2> QED
    BY <2>4, <2>6
<1> QED
  BY <1>1, <1>2, <1>3, <1>4, <1>5, <1>6, <1>7 DEF Inv

LEMMA CloseStopsRecurringStep ==
    ASSUME Inv, NEW c \in Closers, CloseStopsRecurring(c)
    PROVE  Inv'
<1> USE TaskGroupCloseAssumption DEF CloseStopsRecurring, CloserGoes, CancelRecurring, Records,
   vars, lifecycle, tokens, children, leading, periodic
<1>1. TypeOK'
  BY DEF Inv, TypeOK, LeaderPcs
<1>2. CountOK'
  BY ScopeKept DEF Inv
<1>3. TickOK'
  BY DEF Inv, TypeOK, TickOK, ItemDone
<1>4. LeadOK'
  BY DEF Inv, TypeOK, LeadOK, SingleLeader, LeaderPcs
<1>5. ConvergedOK'
  BY DEF Inv, TypeOK, ConvergedOK, LeadOK, Quiescent, Drained, Joined, Settled, LaneDrained,
     ItemDone
<1>6. \A u \in Tasks : PlaceOK(u)'
  BY DEF Inv, TypeOK, PlaceOK
<1>7. \A d \in Closers : LeaderOK(d)'
  BY DEF Inv, TypeOK, LeaderOK, Records, Blameless, QuiescedPcs, JoinedPcs, Quiescent, Drained,
     Joined, Settled, LaneDrained, ItemDone
<1> QED
  BY <1>1, <1>2, <1>3, <1>4, <1>5, <1>6, <1>7 DEF Inv

LEMMA CloseJoinsStep ==
    ASSUME Inv, NEW c \in Closers, CloseJoins(c)
    PROVE  Inv'
<1> USE TaskGroupCloseAssumption DEF CloseJoins, CloserGoes, JoinErrors, vars, lifecycle,
   tokens, children, leading, periodic
<1>1. TypeOK'
  BY DEF Inv, TypeOK, LeaderPcs
<1>2. CountOK'
  BY ScopeKept DEF Inv
<1>3. TickOK'
  BY DEF Inv, TypeOK, TickOK, ItemDone
<1>4. LeadOK'
  BY DEF Inv, TypeOK, LeadOK, SingleLeader, LeaderPcs
<1>5. ConvergedOK'
  BY DEF Inv, TypeOK, ConvergedOK, LeadOK, Quiescent, Drained, Joined, Settled, LaneDrained,
     ItemDone
<1>6. \A u \in Tasks : PlaceOK(u)'
  <2>1. /\ \A t \in Tasks : state'[t] = "absent" <=> state[t] = "absent"
        /\ \A t \in Tasks : state[t] \in Terminal => state'[t] = state[t]
    BY JoinedStates
  <2> QED
    BY <2>1 DEF Inv, PlaceOK
<1>7. \A d \in Closers : LeaderOK(d)'
  <2>1. /\ \A t \in Tasks : state'[t] = "absent" <=> state[t] = "absent"
        /\ \A t \in Tasks : state[t] \in Terminal => state'[t] = state[t]
    BY JoinedStates
  <2>2. UNCHANGED <<Quiescent, Drained, Joined, Records>>
    <3>1. UNCHANGED <<Quiescent, Drained, Joined>>
      BY DEF Quiescent, Drained, Joined, Settled, LaneDrained, ItemDone
    <3> QED
      BY <2>1, <3>1 DEF Records
  <2>3. \A t \in Tasks : Blameless(t) => Blameless(t)'
    BY <2>1 DEF Blameless
  <2>4. SUFFICES ASSUME NEW d \in Closers PROVE LeaderOK(d)'
    OBVIOUS
  <2>5. LeaderOK(c) /\ LeaderOK(d)
    BY DEF Inv
  <2>6. CASE d # c
    BY <2>2, <2>3, <2>5, <2>6 DEF Inv, TypeOK, LeaderOK
  <2>7. ~errors'[c] => /\ ~errors[c] /\ quiesced[c] /\ todo[c] = Records /\ recCancelled
                       /\ CurrentDone
                       /\ \A t \in todo[c] : Bound(t) => Finished(t)
                       /\ \A t \in todo[c] \ CallerScoped : state'[t] # "failed"
                       /\ recurring # "failed"
    BY <2>5 DEF Inv, TypeOK, LeaderOK, QuiescedPcs
  <2>8. ASSUME ~errors'[c] PROVE Joined /\ (\A t \in Tasks : Blameless(t)') /\ recurring = "cancelled"
    <3>1. Quiescent
      BY <2>5, <2>7, <2>8 DEF LeaderOK
    <3>2. \A t \in Records : IF Bound(t) THEN Finished(t) ELSE raw[t] = "none" /\ state[t] \in Terminal
      BY <2>7, <2>8, <3>1 DEF Inv, TypeOK, PlaceOK, Quiescent, Bound, Records, ScopePcs
    <3>3. Joined
      BY <3>1, <3>2 DEF Inv, TypeOK, PlaceOK, Joined, Settled, Records, Finished, ScopePcs,
         Quiescent
    <3>4. \A t \in Records : state'[t] \in Terminal
      BY <2>7, <2>8, <2>1, <3>2 DEF Inv, TypeOK, Terminal, Records
    <3>5. \A t \in Tasks : Blameless(t)'
      BY <2>1, <2>7, <2>8, <3>4 DEF Blameless, Records
    <3>6. recurring = "cancelled"
      BY <2>7, <2>8 DEF Inv, TypeOK, TickOK
    <3> QED
      BY <3>3, <3>5, <3>6
  <2>9. CASE d = c
    BY <2>2, <2>5, <2>7, <2>8, <2>9 DEF Inv, TypeOK, LeaderOK, QuiescedPcs, JoinedPcs
  <2> QED
    BY <2>6, <2>9
<1> QED
  BY <1>1, <1>2, <1>3, <1>4, <1>5, <1>6, <1>7 DEF Inv

LEMMA CloseSealsLaneStep ==
    ASSUME Inv, NEW c \in Closers, CloseSealsLane(c)
    PROVE  Inv'
<1> USE TaskGroupCloseAssumption DEF CloseSealsLane, CloserGoes, vars, lifecycle, tokens,
   children, leading, periodic
<1>1. TypeOK'
  BY DEF Inv, TypeOK, LeaderPcs
<1>2. CountOK'
  BY ScopeKept DEF Inv
<1>3. TickOK'
  BY DEF Inv, TypeOK, TickOK, ItemDone
<1>4. LeadOK'
  BY DEF Inv, TypeOK, LeadOK, SingleLeader, LeaderPcs
<1>5. ConvergedOK'
  BY DEF Inv, TypeOK, ConvergedOK, LeadOK, Quiescent, Drained, Joined, Settled, LaneDrained,
     ItemDone
<1>6. \A u \in Tasks : PlaceOK(u)'
  BY DEF Inv, TypeOK, PlaceOK
<1>7. \A d \in Closers : LeaderOK(d)'
  BY DEF Inv, TypeOK, LeaderOK, Records, Blameless, QuiescedPcs, JoinedPcs, Quiescent, Drained,
     Joined, Settled, LaneDrained, ItemDone
<1> QED
  BY <1>1, <1>2, <1>3, <1>4, <1>5, <1>6, <1>7 DEF Inv

LEMMA CloseDrainsLaneStep ==
    ASSUME Inv, NEW c \in Closers, CloseDrainsLane(c)
    PROVE  Inv'
<1> USE TaskGroupCloseAssumption DEF CloseDrainsLane, CloserGoes, vars, lifecycle, tokens,
   children, leading, periodic
<1>1. TypeOK'
  <2>1. closer' \in [Closers -> LeaderPcs \cup {"idle", "arriving", "blocked", "woken", "signalling"}]
    BY DEF Inv, TypeOK, LeaderPcs
  <2>2. lanesOk' \in [Closers -> BOOLEAN]
    BY DEF Inv, TypeOK
  <2>3. errors' \in [Closers -> BOOLEAN]
    BY DEF Inv, TypeOK
  <2> QED
    BY <2>1, <2>2, <2>3 DEF Inv, TypeOK
<1>2. CountOK'
  BY ScopeKept DEF Inv
<1>3. TickOK'
  BY DEF Inv, TypeOK, TickOK, ItemDone
<1>4. LeadOK'
  BY DEF Inv, TypeOK, LeadOK, SingleLeader, LeaderPcs
<1>5. ConvergedOK'
  BY DEF Inv, TypeOK, ConvergedOK, LeadOK, Quiescent, Drained, Joined, Settled, LaneDrained,
     ItemDone
<1>6. \A u \in Tasks : PlaceOK(u)'
  BY DEF Inv, TypeOK, PlaceOK
<1>7. \A d \in Closers : LeaderOK(d)'
  BY DEF Inv, TypeOK, LeaderOK, Records, Blameless, QuiescedPcs, JoinedPcs, Quiescent, Drained,
     Joined, Settled, LaneDrained, ItemDone
<1> QED
  BY <1>1, <1>2, <1>3, <1>4, <1>5, <1>6, <1>7 DEF Inv

LEMMA CloseAssessesStep ==
    ASSUME Inv, NEW c \in Closers, CloseAssesses(c)
    PROVE  Inv'
<1> USE TaskGroupCloseAssumption DEF CloseAssesses, CloserGoes, vars, lifecycle, tokens,
   children, leading, periodic
<1>1. TypeOK'
  <2>1. closer' \in [Closers -> LeaderPcs \cup {"idle", "arriving", "blocked", "woken", "signalling"}]
    BY DEF Inv, TypeOK, LeaderPcs
  <2>2. Converges(c) \in BOOLEAN
    BY DEF Inv, TypeOK, Converges, AllExecutionDone
  <2>3. assessed' \in [Closers -> BOOLEAN]
    BY <2>2 DEF Inv, TypeOK
  <2> QED
    BY <2>1, <2>2, <2>3 DEF Inv, TypeOK
<1>2. CountOK'
  BY ScopeKept DEF Inv
<1>3. TickOK'
  BY DEF Inv, TypeOK, TickOK, ItemDone
<1>4. LeadOK'
  BY DEF Inv, TypeOK, LeadOK, SingleLeader, LeaderPcs
<1>5. ConvergedOK'
  BY DEF Inv, TypeOK, ConvergedOK, LeadOK, Quiescent, Drained, Joined, Settled, LaneDrained,
     ItemDone
<1>6. \A u \in Tasks : PlaceOK(u)'
  BY DEF Inv, TypeOK, PlaceOK
<1>7. \A d \in Closers : LeaderOK(d)'
  <2>1. /\ UNCHANGED <<Quiescent, Drained, Joined, Records>>
        /\ \A t \in Tasks : Blameless(t)' = Blameless(t)
    BY DEF Quiescent, Drained, Joined, Settled, LaneDrained, ItemDone, Records, Blameless
  <2>2. SUFFICES ASSUME NEW d \in Closers PROVE LeaderOK(d)'
    OBVIOUS
  <2>3. LeaderOK(c) /\ LeaderOK(d)
    BY DEF Inv
  <2>4. CASE d # c
    BY <2>1, <2>3, <2>4 DEF Inv, TypeOK, LeaderOK
  <2>5. ASSUME Converges(c) PROVE Joined /\ Drained
    <3>1. Quiescent /\ Drained
      BY <2>3, <2>5 DEF LeaderOK, Converges
    <3>2. ASSUME NEW t \in Tasks PROVE Settled(t)
      BY <2>5, <3>1 DEF Inv, TypeOK, PlaceOK, Converges, AllExecutionDone, Records, Bound,
         Finished,
                        Quiescent, ScopePcs, Settled
    <3> QED
      BY <3>1, <3>2 DEF Joined
  <2>6. ASSUME ~errors[c] PROVE Converges(c)
    <3>1. Joined /\ Drained /\ quiesced[c] /\ lanesOk[c]
      BY <2>3, <2>6 DEF LeaderOK, QuiescedPcs, JoinedPcs
    <3>2. ASSUME NEW t \in Records PROVE IF Bound(t) THEN Finished(t) ELSE state[t] \in Terminal
      BY <3>1 DEF Inv, TypeOK, PlaceOK, Records, Bound, Finished, Joined, Quiescent, ScopePcs,
         Settled
    <3>3. CurrentDone
      BY <3>1 DEF Drained, LaneDrained, CurrentDone
    <3> QED
      BY <3>1, <3>2, <3>3 DEF Converges, AllExecutionDone
  <2>7. CASE d = c
    BY <2>1, <2>3, <2>5, <2>6, <2>7 DEF Inv, TypeOK, LeaderOK, QuiescedPcs, JoinedPcs
  <2> QED
    BY <2>4, <2>7
<1> QED
  BY <1>1, <1>2, <1>3, <1>4, <1>5, <1>6, <1>7 DEF Inv

LEMMA ClosePublishesStep ==
    ASSUME Inv, NEW c \in Closers, ClosePublishes(c)
    PROVE  Inv'
<1> USE TaskGroupCloseAssumption DEF ClosePublishes, CloserGoes, vars, lifecycle, tokens,
   children, leading, periodic
<1>1. TypeOK'
  <2>1. closer' \in [Closers -> LeaderPcs \cup {"idle", "arriving", "blocked", "woken", "signalling"}]
    BY DEF Inv, TypeOK, LeaderPcs
  <2>2. errors[c] \in BOOLEAN /\ assessed[c] \in BOOLEAN
    BY DEF Inv, TypeOK
  <2>3. failure' \in BOOLEAN /\ converged' \in BOOLEAN /\ closing' \in BOOLEAN
    BY <2>2, Zenon
  <2> QED
    BY <2>1, <2>2, <2>3 DEF Inv, TypeOK
<1>2. CountOK'
  BY ScopeKept DEF Inv
<1>3. TickOK'
  BY DEF Inv, TypeOK, TickOK, ItemDone
<1>4. LeadOK'
  BY DEF Inv, TypeOK, LeadOK, SingleLeader, LeaderPcs
<1>5. ConvergedOK'
  <2>1. LeaderOK(c)
    BY DEF Inv
  <2>2. UNCHANGED <<Joined, Drained>>
    BY DEF Quiescent, Drained, Joined, Settled, LaneDrained, ItemDone
  <2> QED
    BY <2>1, <2>2 DEF ConvergedOK, LeaderOK
<1>6. \A u \in Tasks : PlaceOK(u)'
  BY DEF Inv, TypeOK, PlaceOK
<1>7. \A d \in Closers : LeaderOK(d)'
  <2>1. /\ UNCHANGED <<Quiescent, Drained, Joined, Records>>
        /\ \A t \in Tasks : Blameless(t)' = Blameless(t)
    BY DEF Quiescent, Drained, Joined, Settled, LaneDrained, ItemDone, Records, Blameless
  <2>2. SUFFICES ASSUME NEW d \in Closers PROVE LeaderOK(d)'
    OBVIOUS
  <2>3. LeaderOK(c) /\ LeaderOK(d)
    BY DEF Inv
  <2>4. ~converged
    BY DEF Inv, TypeOK, LeadOK, SingleLeader, LeaderPcs, ConvergedOK
  <2>5. CASE d # c
    BY <2>1, <2>3, <2>4, <2>5 DEF Inv, TypeOK, LeaderOK
  <2>6. CASE d = c
    BY <2>1, <2>3, <2>6 DEF Inv, TypeOK, LeaderOK, QuiescedPcs, JoinedPcs
  <2> QED
    BY <2>5, <2>6
<1> QED
  BY <1>1, <1>2, <1>3, <1>4, <1>5, <1>6, <1>7 DEF Inv

LEMMA CloseSignalsStep ==
    ASSUME Inv, NEW c \in Closers, CloseSignals(c)
    PROVE  Inv'
<1> USE TaskGroupCloseAssumption DEF CloseSignals, CloserGoes, vars, lifecycle, tokens,
   children, leading, periodic
<1>1. TypeOK'
  BY DEF Inv, TypeOK, LeaderPcs
<1>2. CountOK'
  BY ScopeKept DEF Inv
<1>3. TickOK'
  BY DEF Inv, TypeOK, TickOK, ItemDone
<1>4. LeadOK'
  BY DEF Inv, TypeOK, LeadOK, SingleLeader, LeaderPcs
<1>5. ConvergedOK'
  BY DEF Inv, TypeOK, ConvergedOK, LeadOK, Quiescent, Drained, Joined, Settled, LaneDrained,
     ItemDone
<1>6. \A u \in Tasks : PlaceOK(u)'
  BY DEF Inv, TypeOK, PlaceOK
<1>7. \A d \in Closers : LeaderOK(d)'
  BY DEF Inv, TypeOK, LeaderOK, Records, Blameless, QuiescedPcs, JoinedPcs, Quiescent, Drained,
     Joined, Settled, LaneDrained, ItemDone
<1> QED
  BY <1>1, <1>2, <1>3, <1>4, <1>5, <1>6, <1>7 DEF Inv

LEMMA AwaitCloseStep ==
    ASSUME Inv, NEW c \in Closers, AwaitClose(c)
    PROVE  Inv'
<1> USE TaskGroupCloseAssumption DEF AwaitClose, CloserGoes, vars, lifecycle, tokens, children,
   leading, periodic
<1>1. TypeOK'
  BY DEF Inv, TypeOK, LeaderPcs
<1>2. CountOK'
  BY ScopeKept DEF Inv
<1>3. TickOK'
  BY DEF Inv, TypeOK, TickOK, ItemDone
<1>4. LeadOK'
  BY DEF Inv, TypeOK, LeadOK, SingleLeader, LeaderPcs
<1>5. ConvergedOK'
  BY DEF Inv, TypeOK, ConvergedOK, LeadOK, Quiescent, Drained, Joined, Settled, LaneDrained,
     ItemDone
<1>6. \A u \in Tasks : PlaceOK(u)'
  BY DEF Inv, TypeOK, PlaceOK
<1>7. \A d \in Closers : LeaderOK(d)'
  BY DEF Inv, TypeOK, LeaderOK, Records, Blameless, QuiescedPcs, JoinedPcs, Quiescent, Drained,
     Joined, Settled, LaneDrained, ItemDone
<1> QED
  BY <1>1, <1>2, <1>3, <1>4, <1>5, <1>6, <1>7 DEF Inv

LEMMA AwaitTimesOutStep ==
    ASSUME Inv, NEW c \in Closers, AwaitTimesOut(c)
    PROVE  Inv'
<1> USE TaskGroupCloseAssumption DEF AwaitTimesOut, CloserGoes, Returns, vars, lifecycle,
   tokens, children, leading, periodic
<1>1. TypeOK'
  BY DEF Inv, TypeOK, LeaderPcs
<1>2. CountOK'
  BY ScopeKept DEF Inv
<1>3. TickOK'
  BY DEF Inv, TypeOK, TickOK, ItemDone
<1>4. LeadOK'
  BY DEF Inv, TypeOK, LeadOK, SingleLeader, LeaderPcs
<1>5. ConvergedOK'
  BY DEF Inv, TypeOK, ConvergedOK, LeadOK, Quiescent, Drained, Joined, Settled, LaneDrained,
     ItemDone
<1>6. \A u \in Tasks : PlaceOK(u)'
  BY DEF Inv, TypeOK, PlaceOK
<1>7. \A d \in Closers : LeaderOK(d)'
  BY DEF Inv, TypeOK, LeaderOK, Records, Blameless, QuiescedPcs, JoinedPcs, Quiescent, Drained,
     Joined, Settled, LaneDrained, ItemDone
<1> QED
  BY <1>1, <1>2, <1>3, <1>4, <1>5, <1>6, <1>7 DEF Inv

LEMMA ReadVerdictStep ==
    ASSUME Inv, NEW c \in Closers, ReadVerdict(c)
    PROVE  Inv'
<1> USE TaskGroupCloseAssumption DEF ReadVerdict, CloserGoes, Returns, vars, lifecycle, tokens,
   children, leading, periodic
<1>1. TypeOK'
  BY DEF Inv, TypeOK, LeaderPcs
<1>2. CountOK'
  BY ScopeKept DEF Inv
<1>3. TickOK'
  BY DEF Inv, TypeOK, TickOK, ItemDone
<1>4. LeadOK'
  BY DEF Inv, TypeOK, LeadOK, SingleLeader, LeaderPcs
<1>5. ConvergedOK'
  BY DEF Inv, TypeOK, ConvergedOK, LeadOK, Quiescent, Drained, Joined, Settled, LaneDrained,
     ItemDone
<1>6. \A u \in Tasks : PlaceOK(u)'
  BY DEF Inv, TypeOK, PlaceOK
<1>7. \A d \in Closers : LeaderOK(d)'
  BY DEF Inv, TypeOK, LeaderOK, Records, Blameless, QuiescedPcs, JoinedPcs, Quiescent, Drained,
     Joined, Settled, LaneDrained, ItemDone
<1> QED
  BY <1>1, <1>2, <1>3, <1>4, <1>5, <1>6, <1>7 DEF Inv

-----------------------------------------------------------------------------
(***************************************************************************)
(* The invariant holds, and what follows from it.                          *)
(***************************************************************************)

LEMMA NextStep == Inv /\ Next => Inv'
<1> SUFFICES ASSUME Inv, Next PROVE Inv'
  OBVIOUS
<1>1. ASSUME NEW t \in Tasks, Submit(t) PROVE Inv'
  BY <1>1, EnterScopeStep, RefuseScopeStep, ReserveStep, ProviderAcceptStep,
     ProviderCancelStep, ProviderRejectStep, BindStep, CancelIfClosingStep, LeaveScopeStep DEF
     Submit
<1>2. ASSUME NEW t \in Tasks, Execute(t) PROVE Inv'
  BY <1>2, StartStep, FinishStep, SyncStep DEF Execute
<1>3. CASE Tick
  BY <1>3, TickPassesStep, TickEnqueueStep, TickRefusedStep, TickBindStep, ItemStartStep,
     ItemFinishStep DEF Tick
<1>4. CASE Cancel
  BY <1>4, CancelBeginsStep, CancelEndsStep, CancelVisitsStep DEF Cancel
<1>5. ASSUME NEW c \in Closers, Close(c) PROVE Inv'
  BY <1>5, CloseIsCompleteStep, CloseMustWaitStep, CloseLeadsStep, CloseSealsSubmissionsStep,
     CloseCancelledStep, CloseQuiescesStep, CloseStopsRecurringStep, CloseJoinsStep,
     CloseSealsLaneStep, CloseDrainsLaneStep, CloseAssessesStep, ClosePublishesStep,
     CloseSignalsStep, AwaitCloseStep, AwaitTimesOutStep, ReadVerdictStep, CancelVisitsStep DEF
     Close
<1> QED
  BY <1>1, <1>2, <1>3, <1>4, <1>5 DEF Next

LEMMA StutterStep == Inv /\ UNCHANGED vars => Inv'
<1> SUFFICES ASSUME Inv, UNCHANGED vars PROVE Inv'
  OBVIOUS
<1> USE DEF vars, lifecycle, tokens, children, leading, periodic
<1>1. TypeOK' /\ TickOK' /\ LeadOK'
  BY DEF Inv, TypeOK, TickOK, ItemDone, LeadOK, SingleLeader
<1>2. CountOK'
  BY ScopeKept DEF Inv
<1>3. ConvergedOK'
  BY DEF Inv, ConvergedOK, Joined, Quiescent, Drained, LaneDrained, ItemDone, Settled
<1>4. \A t \in Tasks : PlaceOK(t)'
  BY DEF Inv, PlaceOK
<1>5. \A c \in Closers : LeaderOK(c)'
  BY DEF Inv, LeaderOK, Joined, Quiescent, Drained, LaneDrained, ItemDone, Settled, Records,
     Blameless
<1> QED
  BY <1>1, <1>2, <1>3, <1>4, <1>5 DEF Inv

\* The inductive invariant holds in every reachable state.
THEOREM Invariance == Spec => []Inv
<1>1. Inv /\ [Next]_vars => Inv'
  BY NextStep, StutterStep
<1> QED
  BY InitInv, <1>1, PTL DEF Spec

\* Every variable of the group stays in its set; the count of submissions never
\* goes below zero.
THEOREM TypeCorrect == Spec => []TypeOK
<1>1. Inv => TypeOK
  BY DEF Inv
<1> QED
  BY <1>1, Invariance, PTL

\* However many threads call close, one leads, and closing says that one does.
THEOREM OneThreadLeads == Spec => []SingleLeader
<1>1. Inv => SingleLeader
  BY DEF Inv, LeadOK
<1> QED
  BY <1>1, Invariance, PTL

\* A group that reports converged has joined its submissions, its children, its
\* lane and the item of a tick, although each was tested at another moment.
THEOREM ConvergedGroupsHaveJoined == Spec => []ConvergedMeansJoined
<1>1. Inv => ConvergedMeansJoined
  <2> SUFFICES ASSUME Inv, converged
               PROVE  /\ active = 0 /\ InScope = {}
                      /\ \A t \in Tasks : raw[t] \in {"none", "done"}
                      /\ laneClosed /\ ItemDone
    BY DEF ConvergedMeansJoined
  <2>1. Joined /\ Drained
    BY DEF Inv, ConvergedOK
  <2>2. InScope = {}
    BY <2>1 DEF Joined, Quiescent, InScope
  <2>3. active = 0
    BY <2>2, FS_EmptySet DEF Inv, CountOK
  <2> QED
    BY <2>1, <2>2, <2>3 DEF Joined, Settled, Drained, LaneDrained
<1> QED
  BY <1>1, Invariance, PTL

\* No error of the bounded steps of close is lost on the way to its verdict: a
\* leader that returns normally leaves a converged group.
THEOREM LeadersTellTheTruth == Spec => []LeaderVerdictIsTrue
<1>1. Inv => LeaderVerdictIsTrue
  BY DEF Inv, LeaderOK, LeaderVerdictIsTrue
<1> QED
  BY <1>1, Invariance, PTL

\* A leader that returns normally hides no failure of a child the group owns, nor
\* of its recurring task, although both may finish while it closes.
THEOREM LeadersHideNoFailure == Spec => []FailuresAreReported
<1>1. Inv => FailuresAreReported
  <2> SUFFICES ASSUME Inv, NEW c \in Closers, closer[c] = "signalling", ~errors[c]
               PROVE  /\ \A t \in Tasks \ CallerScoped : state[t] # "failed"
                      /\ recurring # "failed"
    BY DEF FailuresAreReported
  <2>1. (\A t \in Tasks : Blameless(t)) /\ recurring = "cancelled"
    BY DEF Inv, LeaderOK, JoinedPcs
  <2> QED
    BY <2>1 DEF Blameless
<1> QED
  BY <1>1, Invariance, PTL

-----------------------------------------------------------------------------
(***************************************************************************)
(* Convergence is final.                                                   *)
(***************************************************************************)

Final == UNCHANGED <<active, closing, closed, converged, failure, raw, item>>

\* In a converged group nobody is inside a submission or leads a close.
LEMMA ConvergedFacts ==
    ASSUME Inv, converged
    PROVE  /\ closed /\ ~closing /\ laneClosed /\ item \in {"none", "done"}
           /\ \A t \in Tasks : submitter[t] \notin ScopePcs /\ raw[t] \in {"none", "done"}
           /\ \A c \in Closers : closer[c] \notin LeaderPcs
BY DEF Inv, ConvergedOK, Joined, Quiescent, Drained, LaneDrained, ItemDone, Settled, LeadOK,
   SingleLeader

LEMMA ConvergedStep == Inv /\ converged /\ Next => Final
<1> SUFFICES ASSUME Inv, converged, Next PROVE Final
  OBVIOUS
<1> USE ConvergedFacts DEF Final, vars, lifecycle, tokens, children, leading, periodic
<1>1. ASSUME NEW t \in Tasks, Submit(t) PROVE Final
  BY <1>1 DEF Submit, EnterScope, RefuseScope, Reserve, ProviderAccept, ProviderCancel,
          ProviderReject, Bind, CancelIfClosing, LeaveScope, CancelRecord, ScopePcs
<1>2. ASSUME NEW t \in Tasks, Execute(t) PROVE Final
  BY <1>2 DEF Execute, Start, Finish, Sync
<1>3. CASE Tick
  BY <1>3 DEF Tick, TickPasses, TickEnqueue, TickRefused, TickBind, ItemStart, ItemFinish
<1>4. ASSUME NEW t \in Tasks, CancelRecord(t) PROVE raw' = raw
  BY <1>4 DEF CancelRecord
<1>5. CancelRecurring => item' = item
  BY DEF CancelRecurring
<1>6. CASE Cancel
  BY <1>4, <1>5, <1>6 DEF Cancel, CancelBegins, CancelGroup, CancelEnds, CancelVisits
<1>7. ASSUME NEW c \in Closers, Close(c) PROVE Final
  BY <1>4, <1>5, <1>7
     DEF Close, CancelVisits, Leads, CancelGroup, LeaderPcs,
         CloseIsComplete, CloseMustWait, CloseLeads, CloseSealsSubmissions,
         CloseCancelled, CloseQuiesces, CloseStopsRecurring, CloseJoins, CloseSealsLane,
         CloseDrainsLane, CloseAssesses, ClosePublishes, CloseSignals, AwaitClose,
         AwaitTimesOut, ReadVerdict
<1> QED
  BY <1>1, <1>2, <1>3, <1>6, <1>7 DEF Next

\* Convergence is never taken back: afterwards no count, flag, verdict, execution
\* or lane item of the group changes.
THEOREM ConvergenceStands == Spec => ConvergenceIsFinal
<1> DEFINE F == converged => UNCHANGED <<active, closing, closed, converged, failure, raw, item>>
<1>1. Inv /\ [Next]_vars => [F]_vars
  <2>1. Inv /\ Next => F
    BY ConvergedStep DEF Final
  <2> QED
    BY <2>1
<1> QED
  BY <1>1, Invariance, PTL DEF Spec, ConvergenceIsFinal

-----------------------------------------------------------------------------
(***************************************************************************)
(* A close that meets no other closing thread.                             *)
(***************************************************************************)

\* A single thread closes the group.
Alone == \A c, d \in Closers : c = d

\* It has never waited for another one, and what it was told is so.
ToldOK == \A c \in Closers : /\ closer[c] \notin {"arriving", "blocked", "woken"}
                             /\ outcome[c] = "clean" => converged

LEMMA ToldStep ==
    ASSUME Alone, Inv, ToldOK, Next
    PROVE  ToldOK'
<1> USE DEF vars, lifecycle, tokens, children, leading, periodic
<1>1. converged => converged'
  BY ConvergedStep DEF Final
<1>2. ASSUME NEW t \in Tasks, Submit(t) PROVE ToldOK'
  BY <1>1, <1>2 DEF ToldOK, Submit, EnterScope, RefuseScope, Reserve, ProviderAccept,
     ProviderCancel,
          ProviderReject, Bind, CancelIfClosing, LeaveScope
<1>3. ASSUME NEW t \in Tasks, Execute(t) PROVE ToldOK'
  BY <1>1, <1>3 DEF ToldOK, Execute, Start, Finish, Sync
<1>4. CASE Tick
  BY <1>1, <1>4 DEF ToldOK, Tick, TickPasses, TickEnqueue, TickRefused, TickBind, ItemStart,
     ItemFinish
<1>5. CASE Cancel
  BY <1>1, <1>5 DEF ToldOK, Cancel, CancelBegins, CancelGroup, CancelEnds, CancelVisits
<1>6. ASSUME NEW c \in Closers, Close(c) PROVE ToldOK'
  <2>1. closing => closer[c] \in LeaderPcs
    BY DEF Alone, Inv, LeadOK, SingleLeader
  <2>2. closer[c] = "signalling" /\ ~errors[c] => converged
    BY DEF Inv, LeaderOK
  <2>3. closer'[c] \notin {"arriving", "blocked", "woken"} /\ (outcome'[c] = "clean" => converged')
    BY <1>1, <1>6, <2>1, <2>2
       DEF Inv, TypeOK, ToldOK, Close, CloserGoes, Returns, CancelVisits, LeaderPcs,
           CloseIsComplete, CloseMustWait, CloseLeads, CloseSealsSubmissions,
           CloseCancelled, CloseQuiesces, CloseStopsRecurring, CloseJoins, CloseSealsLane,
           CloseDrainsLane, CloseAssesses, ClosePublishes, CloseSignals, AwaitClose,
           AwaitTimesOut, ReadVerdict
  <2> QED
    BY <2>3 DEF Alone, ToldOK
<1> QED
  BY <1>2, <1>3, <1>4, <1>5, <1>6 DEF Next

\* For a thread that shares the close with nobody, a normal return means that the
\* group has converged: only a waiter can be told otherwise.
THEOREM LoneClosersAreToldTheTruth ==
    ASSUME Alone
    PROVE  Spec => []CleanCloseIsConverged
<1>1. Init => ToldOK
  BY DEF Init, ToldOK
<1>2. Inv /\ ToldOK /\ [Next]_vars => ToldOK'
  <2>1. ToldOK /\ UNCHANGED vars => ToldOK'
    BY DEF ToldOK, vars, lifecycle
  <2> QED
    BY <2>1, ToldStep
<1>3. ToldOK => CleanCloseIsConverged
  BY DEF ToldOK, CleanCloseIsConverged
<1> QED
  BY <1>1, <1>2, <1>3, Invariance, PTL DEF Spec
=============================================================================
