------------------------- MODULE HandleManagerProofs -------------------------
(***************************************************************************)
(* The handle budget is exact and never exceeded, for every MaxOpenHandles,*)
(* shard count and number of goroutines.  BudgetExact alone is not         *)
(* inductive: a Put must add an id the table does not have yet, so the     *)
(* invariant also says that ids handed out are fresh and distinct.  That   *)
(* closed handles are dropped and that Shutdown misses none of those it    *)
(* has to close rests on what its copy of the shards has come past.        *)
(***************************************************************************)
EXTENDS HandleManager, FiniteSetTheorems, TLAPS

\* An Open about to Put holds an id nobody else has and the table never had.
FreshIds ==
  /\ \A t \in Threads : pc[t] = "put" =>
       /\ id[t] # 0 /\ id[t] \notin entries
       /\ \A u \in Threads : pc[u] = "put" /\ id[u] = id[t] => u = t

\* A goroutine between Load and CompareAndSwap saw a free slot.
SeenFree == \A t \in Threads : pc[t] = "cas" => seen[t] < Max

\* Shutdown has a shard left to copy as long as it copies.
ShardLeft == spc \in {"idle", "snapshot"} => shard < Shards

Budget == active <= Max

IInv == TypeOK /\ FreshIds /\ SeenFree /\ ShardLeft /\ Budget /\ BudgetExact

\* The table and the set of reservations are finite.
LEMMA Finite ==
  ASSUME TypeOK
  PROVE  /\ IsFiniteSet(entries) /\ Cardinality(entries) \in Nat
         /\ IsFiniteSet(Reserved) /\ Cardinality(Reserved) \in Nat
<1>1. IsFiniteSet(1 .. seq)
  BY FS_Interval DEF TypeOK
<1>2. IsFiniteSet(entries)
  BY <1>1, FS_Subset DEF TypeOK
<1>3. IsFiniteSet(Reserved)
  BY HandleAssumption, FS_Subset DEF Reserved
<1>4. QED
  BY <1>2, <1>3, FS_CardinalityType

\* The empty table.
LEMMA InitIInv == Init => IInv
<1> SUFFICES ASSUME Init PROVE IInv
  OBVIOUS
<1>1. TypeOK
  BY HandleAssumption DEF Init, TypeOK
<1>2. Reserved = {} /\ entries = {}
  BY DEF Init, Reserved
<1>3. BudgetExact
  BY <1>2, FS_EmptySet DEF Init, BudgetExact
<1>4. FreshIds /\ SeenFree /\ ShardLeft /\ Budget
  BY HandleAssumption DEF Init, FreshIds, SeenFree, ShardLeft, Budget
<1>5. QED
  BY <1>1, <1>3, <1>4 DEF IInv

\* A drop keeps the budget exact: it counts down exactly when an entry goes.
LEMMA DroppedFacts ==
  ASSUME TypeOK, BudgetExact, NEW h, Dropped(h)
  PROVE  /\ active' \in Nat /\ active' <= active
         /\ entries' \subseteq entries
         /\ active' = Cardinality(entries') + Cardinality(Reserved)
<1>1. /\ IsFiniteSet(entries) /\ Cardinality(entries) \in Nat
      /\ IsFiniteSet(Reserved) /\ Cardinality(Reserved) \in Nat
  BY Finite
<1>2. CASE h \in entries
  <2>1. Cardinality(entries \ {h}) = Cardinality(entries) - 1 /\ Cardinality(entries \ {h}) \in Nat
    BY <1>1, <1>2, FS_RemoveElement, FS_CardinalityType
  <2>2. QED
    BY <1>1, <1>2, <2>1 DEF Dropped, BudgetExact
<1>3. CASE h \notin entries
  <2>1. entries \ {h} = entries
    BY <1>3
  <2>2. QED
    BY <1>1, <1>3, <2>1 DEF Dropped, BudgetExact, TypeOK
<1>4. QED
  BY <1>2, <1>3

\* The types, action by action.
LEMMA TypeStep ==
  ASSUME IInv, Next
  PROVE  TypeOK'
<1>1. TypeOK /\ BudgetExact /\ FreshIds /\ ShardLeft
  BY DEF IInv
<1>2. ASSUME NEW t \in Threads, Open(t)
      PROVE  TypeOK'
  BY <1>1, <1>2 DEF Open, Goto, TypeOK, svars
<1>3. ASSUME NEW t \in Threads, Load(t)
      PROVE  TypeOK'
  BY <1>1, <1>3 DEF Load, Goto, TypeOK, svars
<1>4. ASSUME NEW t \in Threads, CAS(t)
      PROVE  TypeOK'
  BY <1>1, <1>4 DEF CAS, Goto, TypeOK, svars
<1>5. ASSUME NEW t \in Threads, NewId(t)
      PROVE  TypeOK'
  <2>1. seq' \in Nat /\ 1 .. seq \subseteq 1 .. seq' /\ 0 .. seq \subseteq 0 .. seq' /\ seq' \in 0 .. seq'
    BY <1>1, <1>5 DEF NewId, TypeOK
  <2>2. QED
    BY <1>1, <1>5, <2>1 DEF NewId, Goto, TypeOK, svars
<1>6. ASSUME NEW t \in Threads, Put(t)
      PROVE  TypeOK'
  <2>1. id[t] \in 1 .. seq
    BY <1>1, <1>6 DEF Put, TypeOK, FreshIds
  <2>2. entries' \subseteq 1 .. seq /\ id' \in [Threads -> 0 .. seq]
    <3>1. 0 \in 0 .. seq
      BY <1>1 DEF TypeOK
    <3>2. QED
      BY <1>1, <1>6, <2>1, <3>1 DEF Put, TypeOK
  <2>3. QED
    BY <1>1, <1>6, <2>2 DEF Put, Goto, TypeOK, svars
<1>7. ASSUME NEW t \in Threads, NEW h \in entries, Close(t, h)
      PROVE  TypeOK'
  <2>1. h \in 1 .. seq /\ h \in 0 .. seq
    BY <1>1 DEF TypeOK
  <2>2. QED
    BY <1>1, <1>7, <2>1 DEF Close, Goto, TypeOK, svars
<1>8. ASSUME NEW h, Dropped(h)
      PROVE  active' \in Nat /\ entries' \subseteq 1 .. seq
  <2>1. IsFiniteSet(entries) /\ Cardinality(entries) \in Nat /\ Cardinality(Reserved) \in Nat
    BY <1>1, Finite
  <2>2. h \in entries => Cardinality(entries) >= 1
    BY <2>1, FS_EmptySet
  <2>3. active' \in Nat
    BY <1>1, <1>8, <2>1, <2>2 DEF Dropped, BudgetExact
  <2>4. entries' \subseteq 1 .. seq
    BY <1>1, <1>8 DEF Dropped, TypeOK
  <2>5. QED
    BY <2>3, <2>4
<1>9. ASSUME NEW t \in Threads, Drop(t)
      PROVE  TypeOK'
  <2>1. active' \in Nat /\ entries' \subseteq 1 .. seq
    BY <1>8, <1>9 DEF Drop
  <2>2. QED
    BY <1>1, <1>9, <2>1 DEF Drop, Goto, TypeOK, svars
<1>10. CASE Shutdown
  BY <1>1, <1>10 DEF Shutdown, TypeOK, ovars
<1>11. CASE Snapshot
  <2>1. shard' \in 0 .. Shards
    BY <1>1, <1>11, HandleAssumption DEF Snapshot, TypeOK, ShardLeft
  <2>2. snap' \subseteq 1 .. seq
    BY <1>1, <1>11 DEF Snapshot, TypeOK
  <2>3. spc' \in {"closing", "snapshot"}
    BY <1>11 DEF Snapshot
  <2>4. QED
    BY <1>1, <1>11, <2>1, <2>2, <2>3 DEF Snapshot, TypeOK, ovars
<1>12. ASSUME NEW h \in snap, ShutdownClose(h)
       PROVE  TypeOK'
  <2>1. h \in 1 .. seq /\ h \in 0 .. seq
    BY <1>1 DEF TypeOK
  <2>2. QED
    BY <1>1, <1>12, <2>1 DEF ShutdownClose, TypeOK, ovars
<1>13. CASE ShutdownDrop
  <2>1. active' \in Nat /\ entries' \subseteq 1 .. seq
    BY <1>8, <1>13 DEF ShutdownDrop
  <2>2. QED
    BY <1>1, <1>13, <2>1 DEF ShutdownDrop, TypeOK, ovars
<1>14. CASE ShutdownAbort \/ ShutdownHooks
  BY <1>1, <1>14 DEF ShutdownAbort, ShutdownHooks, TypeOK, ovars
<1>15. QED
  BY <1>2, <1>3, <1>4, <1>5, <1>6, <1>7, <1>9, <1>10, <1>11, <1>12, <1>13, <1>14
  DEF Next, OpenStep, ShutdownStep

\* Taking a slot and giving it to an entry, in cardinalities.
LEMMA ReservedGrows ==
  ASSUME TypeOK, NEW t \in Threads, t \notin Reserved, Reserved' = Reserved \cup {t}
  PROVE  Cardinality(Reserved') = Cardinality(Reserved) + 1
  BY Finite, FS_AddElement

LEMMA ReservedShrinks ==
  ASSUME TypeOK, NEW t \in Threads, t \in Reserved, Reserved' = Reserved \ {t}
  PROVE  Cardinality(Reserved') = Cardinality(Reserved) - 1
  BY Finite, FS_RemoveElement

\* The rest of the invariant, action by action.
LEMMA NextIInv == IInv /\ [Next]_vars => IInv'
<1> SUFFICES ASSUME IInv, [Next]_vars PROVE IInv'
  OBVIOUS
<1>1. TypeOK /\ FreshIds /\ SeenFree /\ Budget /\ BudgetExact /\ ShardLeft
  BY DEF IInv
<1>2. CASE UNCHANGED vars
  BY <1>1, <1>2 DEF vars, ovars, svars, IInv, TypeOK, FreshIds, SeenFree, Budget, BudgetExact,
              Reserved, ShardLeft
<1>3. CASE Next
  <2>1. TypeOK' /\ ShardLeft'
    <3>1. TypeOK'
      BY <1>3, TypeStep
    <3>2. ShardLeft'
      BY <1>1, <1>3, HandleAssumption
      DEF ShardLeft, TypeOK, Next, OpenStep, ShutdownStep, Open, Load, CAS, NewId, Put, Close, Drop,
          Shutdown, Snapshot, ShutdownClose, ShutdownDrop, ShutdownAbort, ShutdownHooks, svars
    <3>3. QED
      BY <3>1, <3>2
  <2>2. Cardinality(entries) \in Nat /\ Cardinality(Reserved) \in Nat /\ IsFiniteSet(entries)
        /\ Max \in Nat /\ active \in Nat
    BY <1>1, Finite, HandleAssumption DEF TypeOK
  <2>3. ASSUME NEW t \in Threads, Open(t) \/ Load(t)
        PROVE  IInv'
    <3>1. Reserved' = Reserved
      BY <1>1, <2>3 DEF Open, Load, Goto, Reserved, TypeOK
    <3>2. BudgetExact' /\ Budget'
      BY <1>1, <2>3, <3>1 DEF Open, Load, BudgetExact, Budget
    <3>3. FreshIds'
      BY <1>1, <2>3 DEF Open, Load, Goto, FreshIds, TypeOK
    <3>4. SeenFree'
      BY <1>1, <2>2, <2>3 DEF Open, Load, Goto, SeenFree, TypeOK
    <3>5. QED
      BY <2>1, <3>2, <3>3, <3>4 DEF IInv
  <2>4. ASSUME NEW t \in Threads, CAS(t)
        PROVE  IInv'
    <3>1. FreshIds' /\ SeenFree'
      BY <1>1, <2>4 DEF CAS, Goto, FreshIds, SeenFree, TypeOK
    <3>2. CASE active = seen[t]
      <4>1. active' = active + 1 /\ UNCHANGED entries /\ active < Max
        BY <1>1, <2>4, <3>2 DEF CAS, SeenFree
      <4>2. t \notin Reserved /\ Reserved' = Reserved \cup {t}
        BY <1>1, <2>4, <3>2 DEF CAS, Goto, Reserved, TypeOK
      <4>3. Cardinality(Reserved') = Cardinality(Reserved) + 1
        BY <1>1, <4>2, ReservedGrows
      <4>4. BudgetExact' /\ Budget'
        BY <1>1, <2>2, <4>1, <4>3 DEF BudgetExact, Budget
      <4>5. QED
        BY <2>1, <3>1, <4>4 DEF IInv
    <3>3. CASE active # seen[t]
      <4>1. Reserved' = Reserved
        BY <1>1, <2>4, <3>3 DEF CAS, Goto, Reserved, TypeOK
      <4>2. BudgetExact' /\ Budget'
        BY <1>1, <2>4, <3>3, <4>1 DEF CAS, BudgetExact, Budget
      <4>3. QED
        BY <2>1, <3>1, <4>2 DEF IInv
    <3>4. QED
      BY <3>2, <3>3
  <2>5. ASSUME NEW t \in Threads, NewId(t)
        PROVE  IInv'
    <3>1. Reserved' = Reserved
      BY <1>1, <2>5 DEF NewId, Goto, Reserved, TypeOK
    <3>2. BudgetExact' /\ Budget' /\ SeenFree'
      BY <1>1, <2>5, <3>1 DEF NewId, Goto, BudgetExact, Budget, SeenFree, TypeOK
    <3>3. seq + 1 \notin entries /\ seq + 1 # 0 /\ \A u \in Threads : id[u] # seq + 1
      BY <1>1 DEF TypeOK
    <3>4. /\ id' = [id EXCEPT ![t] = seq + 1] /\ pc' = [pc EXCEPT ![t] = "put"] /\ entries' = entries
      BY <2>5 DEF NewId, Goto
    <3>5. FreshIds'
      BY <1>1, <3>3, <3>4 DEF FreshIds, TypeOK
    <3>6. QED
      BY <2>1, <3>2, <3>5 DEF IInv
  <2>6. ASSUME NEW t \in Threads, Put(t)
        PROVE  IInv'
    <3>1. t \in Reserved /\ Reserved' = Reserved \ {t}
      BY <1>1, <2>6 DEF Put, Goto, Reserved, TypeOK
    <3>2. Cardinality(Reserved') = Cardinality(Reserved) - 1
      BY <1>1, <3>1, ReservedShrinks
    <3>3. id[t] \notin entries /\ entries' = entries \cup {id[t]} /\ active' = active
      BY <1>1, <2>6 DEF Put, FreshIds
    <3>4. Cardinality(entries') = Cardinality(entries) + 1
      BY <2>2, <3>3, FS_AddElement
    <3>5. BudgetExact' /\ Budget'
      BY <1>1, <2>2, <3>2, <3>3, <3>4 DEF BudgetExact, Budget
    <3>6. FreshIds' /\ SeenFree'
      BY <1>1, <2>6 DEF Put, Goto, FreshIds, SeenFree, TypeOK
    <3>7. QED
      BY <2>1, <3>5, <3>6 DEF IInv
  <2>7. ASSUME NEW t \in Threads, NEW h \in entries, Close(t, h)
        PROVE  IInv'
    <3>1. Reserved' = Reserved
      BY <1>1, <2>7 DEF Close, Goto, Reserved, TypeOK
    <3>2. BudgetExact' /\ Budget'
      BY <1>1, <2>7, <3>1 DEF Close, BudgetExact, Budget
    <3>3. FreshIds' /\ SeenFree'
      BY <1>1, <2>7 DEF Close, Goto, FreshIds, SeenFree, TypeOK
    <3>4. QED
      BY <2>1, <3>2, <3>3 DEF IInv
  <2>8. ASSUME NEW t \in Threads, Drop(t)
        PROVE  IInv'
    <3>1. Reserved' = Reserved
      BY <1>1, <2>8 DEF Drop, Goto, Reserved, TypeOK
    <3>2. /\ active' \in Nat /\ active' <= active /\ entries' \subseteq entries
          /\ active' = Cardinality(entries') + Cardinality(Reserved)
      BY <1>1, <2>8, DroppedFacts DEF Drop
    <3>3. BudgetExact' /\ Budget'
      BY <1>1, <2>2, <3>1, <3>2 DEF BudgetExact, Budget
    <3>4. FreshIds' /\ SeenFree'
      BY <1>1, <2>8, <3>2 DEF Drop, Goto, FreshIds, SeenFree, TypeOK
    <3>5. QED
      BY <2>1, <3>3, <3>4 DEF IInv
  <2>9. CASE ShutdownDrop
    <3>1. Reserved' = Reserved /\ UNCHANGED <<pc, id, seen>>
      BY <2>9 DEF ShutdownDrop, Reserved, ovars
    <3>2. /\ active' \in Nat /\ active' <= active /\ entries' \subseteq entries
          /\ active' = Cardinality(entries') + Cardinality(Reserved)
      BY <1>1, <2>9, <3>1, DroppedFacts DEF ShutdownDrop
    <3>3. BudgetExact' /\ Budget'
      BY <1>1, <2>2, <3>1, <3>2 DEF BudgetExact, Budget
    <3>4. FreshIds' /\ SeenFree'
      BY <1>1, <3>1, <3>2 DEF FreshIds, SeenFree
    <3>5. QED
      BY <2>1, <3>3, <3>4 DEF IInv
  <2>10. CASE UNCHANGED <<active, entries, ovars>>
    <3>1. UNCHANGED <<active, entries, pc, id, seen>> /\ Reserved' = Reserved
      BY <2>10 DEF ovars, Reserved
    <3>2. QED
      BY <1>1, <2>1, <3>1 DEF IInv, FreshIds, SeenFree, Budget, BudgetExact
  <2>11. QED
    BY <1>3, <2>3, <2>4, <2>5, <2>6, <2>7, <2>8, <2>9, <2>10
    DEF Next, OpenStep, ShutdownStep, Shutdown, Snapshot, ShutdownClose, ShutdownAbort, ShutdownHooks
<1>4. QED
  BY <1>2, <1>3

\* m.active always counts exactly the handles in the table and the Opens in
\* flight, whatever Closes, Shutdown and Opens overlap.
THEOREM BudgetIsExact == Spec => []BudgetExact
<1>1. Spec => []IInv
  BY InitIInv, NextIInv, PTL DEF Spec
<1>2. IInv => BudgetExact
  BY DEF IInv
<1>3. QED
  BY <1>1, <1>2, PTL

\* MaxOpenHandles is never exceeded, for any number of goroutines in the
\* load / compare-and-swap loop of acquire.
THEOREM BudgetHolds == Spec => []WithinBudget
<1>1. Spec => []IInv
  BY InitIInv, NextIInv, PTL DEF Spec
<1>2. IInv => WithinBudget
  BY DEF IInv, Budget, BudgetExact, WithinBudget
<1>3. QED
  BY <1>1, <1>2, PTL

\* The table, the counters and Shutdown's bookkeeping keep their types.
THEOREM HandleTypes == Spec => []TypeOK
<1>1. Spec => []IInv
  BY InitIInv, NextIInv, PTL DEF Spec
<1>2. IInv => TypeOK
  BY DEF IInv
<1>3. QED
  BY <1>1, <1>2, PTL

-----------------------------------------------------------------------------
\* What Close and Shutdown rely on: who is dropping a handle has closed it, an Open
\* about to Put has an id that nobody could close, a handle that was there when
\* Shutdown was called leaves the table only closed, ...
Droppers == /\ \A t \in Threads : pc[t] = "drop" => id[t] \in closed
            /\ spc = "drop" => sid \in closed
NewIsOpen == \A t \in Threads : pc[t] = "put" => id[t] \notin closed \cup snap
DueKept == due \subseteq entries \cup closed

\* ... and what the shards copied so far have of those handles is in the copy or closed.
Copied == /\ spc = "idle" => shard = 0
          /\ spc = "snapshot" => \A h \in due : ShardOf(h) < shard => h \in snap \cup closed
          /\ spc \in {"closing", "drop"} => due \subseteq snap \cup closed
          /\ ShutdownClosesAll

CloseInv == Droppers /\ NewIsOpen /\ DueKept /\ Copied /\ ClosedIsDropped

LEMMA InitCloseInv == Init => CloseInv
  BY DEF Init, CloseInv, Droppers, NewIsOpen, DueKept, Copied, ClosedIsDropped, ShutdownClosesAll

\* A goroutine that changes neither the table nor what is closed or due, and
\* neither begins nor ends a Put or a drop, keeps the invariant.
LEMMA OpenCloseInv ==
  ASSUME IInv, CloseInv, NEW t \in Threads, Open(t) \/ Load(t) \/ CAS(t) \/ NewId(t)
  PROVE  CloseInv'
<1>1. TypeOK /\ UNCHANGED <<entries, closed, svars>>
  BY DEF IInv, Open, Load, CAS, NewId
<1>2. ASSUME NEW u \in Threads
      PROVE  /\ pc[u] = "drop" <=> pc'[u] = "drop"
             /\ pc[u] = "drop" => id'[u] = id[u]
             /\ pc'[u] = "put" => \/ pc[u] = "put" /\ id'[u] = id[u]
                                  \/ id'[u] = seq + 1
  BY <1>1, <1>2 DEF Open, Load, CAS, NewId, Goto, TypeOK
<1>3. seq + 1 \notin closed \cup snap
  BY <1>1 DEF TypeOK
<1>4. Droppers' /\ NewIsOpen'
  BY <1>1, <1>2, <1>3 DEF CloseInv, Droppers, NewIsOpen, svars
<1>5. ClosedIsDropped'
  BY <1>1, <1>2 DEF CloseInv, ClosedIsDropped, svars
<1>6. DueKept' /\ Copied'
  BY <1>1 DEF CloseInv, DueKept, Copied, ShutdownClosesAll, svars
<1>7. QED
  BY <1>4, <1>5, <1>6 DEF CloseInv

\* Put adds a handle that is open.
LEMMA PutCloseInv ==
  ASSUME IInv, CloseInv, NEW t \in Threads, Put(t)
  PROVE  CloseInv'
<1>1. TypeOK /\ entries' = entries \cup {id[t]} /\ UNCHANGED <<closed, svars>> /\ id[t] \notin closed
  BY DEF IInv, CloseInv, NewIsOpen, Put
<1>2. ASSUME NEW u \in Threads
      PROVE  /\ pc[u] = "drop" <=> pc'[u] = "drop"
             /\ pc[u] = "drop" => id'[u] = id[u]
             /\ pc'[u] = "put" => pc[u] = "put" /\ id'[u] = id[u]
  BY <1>1, <1>2 DEF Put, Goto, TypeOK
<1>3. Droppers' /\ NewIsOpen'
  BY <1>1, <1>2 DEF CloseInv, Droppers, NewIsOpen, svars
<1>4. ClosedIsDropped'
  BY <1>1, <1>2 DEF CloseInv, ClosedIsDropped, svars
<1>5. DueKept' /\ Copied'
  BY <1>1 DEF CloseInv, DueKept, Copied, ShutdownClosesAll, svars
<1>6. QED
  BY <1>3, <1>4, <1>5 DEF CloseInv

\* Close closes the handle and goes on to drop it.
LEMMA CloseCloseInv ==
  ASSUME IInv, CloseInv, NEW t \in Threads, NEW h \in entries, Close(t, h)
  PROVE  CloseInv'
<1>1. TypeOK /\ FreshIds /\ closed' = closed \cup {h} /\ UNCHANGED <<entries, svars>>
  BY DEF IInv, Close
<1>2. pc'[t] = "drop" /\ id'[t] = h /\ pc[t] = "idle"
  BY <1>1 DEF Close, Goto, TypeOK
<1>3. ASSUME NEW u \in Threads, u # t
      PROVE  pc'[u] = pc[u] /\ id'[u] = id[u]
  BY <1>1, <1>3 DEF Close, Goto, TypeOK
<1>4. Droppers'
  BY <1>1, <1>2, <1>3 DEF CloseInv, Droppers, svars
<1>5. NewIsOpen'
  BY <1>1, <1>2, <1>3 DEF CloseInv, NewIsOpen, FreshIds, svars
<1>6. ClosedIsDropped'
  <2> SUFFICES ASSUME NEW k \in closed' \cap entries'
               PROVE  (spc' = "drop" /\ sid' = k) \/ \E u \in Threads : pc'[u] = "drop" /\ id'[u] = k
    BY DEF ClosedIsDropped
  <2>1. CASE k = h
    BY <1>2, <2>1
  <2>2. CASE k \in closed \cap entries
    BY <1>1, <1>2, <1>3, <2>2 DEF CloseInv, ClosedIsDropped, svars
  <2>3. QED
    BY <1>1, <2>1, <2>2
<1>7. DueKept' /\ Copied'
  BY <1>1 DEF CloseInv, DueKept, Copied, ShutdownClosesAll, svars
<1>8. QED
  BY <1>4, <1>5, <1>6, <1>7 DEF CloseInv

\* Drop takes a closed handle out of the table.
LEMMA DropCloseInv ==
  ASSUME IInv, CloseInv, NEW t \in Threads, Drop(t)
  PROVE  CloseInv'
<1>1. TypeOK /\ entries' = entries \ {id[t]} /\ UNCHANGED <<closed, svars>> /\ id[t] \in closed
  BY DEF IInv, CloseInv, Droppers, Drop, Dropped
<1>2. pc'[t] = "idle"
  BY <1>1 DEF Drop, Goto, TypeOK
<1>3. ASSUME NEW u \in Threads, u # t
      PROVE  pc'[u] = pc[u] /\ id'[u] = id[u]
  BY <1>1, <1>3 DEF Drop, Goto, TypeOK
<1>4. Droppers' /\ NewIsOpen'
  BY <1>1, <1>2, <1>3 DEF CloseInv, Droppers, NewIsOpen, svars
<1>5. ClosedIsDropped'
  BY <1>1, <1>3 DEF CloseInv, ClosedIsDropped, svars
<1>6. DueKept' /\ Copied'
  BY <1>1 DEF CloseInv, DueKept, Copied, ShutdownClosesAll, svars
<1>7. QED
  BY <1>4, <1>5, <1>6 DEF CloseInv

\* Each shard that Snapshot copies brings in those of its due handles that are in
\* the table; the others have been closed.
LEMMA SnapshotCloseInv ==
  ASSUME IInv, CloseInv, Snapshot
  PROVE  CloseInv'
<1>1. /\ TypeOK /\ FreshIds /\ UNCHANGED <<entries, closed, pc, id, sid, due>>
      /\ spc = "snapshot" /\ spc' \in {"closing", "snapshot"} /\ shard' = shard + 1
      /\ snap' = snap \cup { h \in entries : ShardOf(h) = shard }
      /\ spc' = "closing" => shard + 1 = Shards
  BY DEF IInv, Snapshot, ovars
<1>2. Droppers' /\ NewIsOpen' /\ DueKept'
  BY <1>1 DEF CloseInv, Droppers, NewIsOpen, DueKept, FreshIds
<1>3. ClosedIsDropped'
  BY <1>1 DEF CloseInv, ClosedIsDropped
<1>4. ASSUME NEW h \in due, ShardOf(h) < shard + 1
      PROVE  h \in snap' \cup closed
  <2>1. ShardOf(h) \in Nat /\ shard \in Nat
    BY <1>1, HandleAssumption DEF TypeOK, ShardOf
  <2>2. CASE ShardOf(h) < shard
    BY <1>1, <2>2 DEF CloseInv, Copied
  <2>3. CASE ShardOf(h) = shard
    BY <1>1, <2>3 DEF CloseInv, DueKept
  <2>4. QED
    BY <1>4, <2>1, <2>2, <2>3
<1>5. \A h \in due : ShardOf(h) < Shards
  BY <1>1, HandleAssumption DEF TypeOK, ShardOf
<1>6. Copied'
  BY <1>1, <1>4, <1>5 DEF Copied, ShutdownClosesAll, ShardOf
<1>7. QED
  BY <1>2, <1>3, <1>6 DEF CloseInv

\* The rest of Shutdown.
LEMMA ShutdownCloseInv ==
  ASSUME IInv, CloseInv,
         Shutdown \/ ShutdownDrop \/ ShutdownAbort \/ ShutdownHooks \/ \E h \in snap : ShutdownClose(h)
  PROVE  CloseInv'
<1>1. TypeOK /\ UNCHANGED <<pc, id>>
  BY DEF IInv, Shutdown, ShutdownDrop, ShutdownAbort, ShutdownHooks, ShutdownClose, ovars
<1>2. CASE Shutdown
  <2>1. \A h \in due' : ShardOf(h) \in Nat
    BY <1>1, <1>2, HandleAssumption DEF Shutdown, TypeOK, ShardOf
  <2>2. Copied'
    BY <1>2, <2>1 DEF CloseInv, Copied, Shutdown, ShutdownClosesAll
  <2>3. QED
    BY <1>1, <1>2, <2>2
    DEF CloseInv, Droppers, NewIsOpen, DueKept, ClosedIsDropped, Shutdown
<1>3. CASE ShutdownDrop
  <2>1. /\ entries' = entries \ {sid} /\ sid \in closed /\ spc = "drop" /\ spc' = "closing"
        /\ UNCHANGED <<closed, snap, due, shard>>
    BY <1>3 DEF CloseInv, Droppers, ShutdownDrop, Dropped
  <2>2. QED
    BY <1>1, <2>1
    DEF CloseInv, Droppers, NewIsOpen, DueKept, ClosedIsDropped, Copied, ShutdownClosesAll
<1>4. CASE ShutdownAbort \/ ShutdownHooks
  BY <1>1, <1>4
  DEF CloseInv, Droppers, NewIsOpen, DueKept, ClosedIsDropped, Copied, ShutdownClosesAll,
      ShutdownAbort, ShutdownHooks
<1>5. ASSUME NEW h \in snap, ShutdownClose(h)
      PROVE  CloseInv'
  <2>1. /\ spc = "closing" /\ snap' = snap \ {h} /\ closed' = closed \cup {h}
        /\ UNCHANGED <<entries, due, shard>>
        /\ (h \in closed /\ UNCHANGED <<spc, sid>>) \/ (spc' = "drop" /\ sid' = h)
    BY <1>5 DEF ShutdownClose
  <2>2. Droppers' /\ NewIsOpen' /\ DueKept'
    BY <1>1, <2>1 DEF CloseInv, Droppers, NewIsOpen, DueKept
  <2>3. Copied'
    BY <2>1 DEF CloseInv, Copied, ShutdownClosesAll
  <2>4. ClosedIsDropped'
    BY <1>1, <2>1 DEF CloseInv, ClosedIsDropped
  <2>5. QED
    BY <2>2, <2>3, <2>4 DEF CloseInv
<1>6. QED
  BY <1>2, <1>3, <1>4, <1>5

LEMMA NextCloseInv == IInv /\ CloseInv /\ [Next]_vars => CloseInv'
<1> SUFFICES ASSUME IInv, CloseInv, [Next]_vars PROVE CloseInv'
  OBVIOUS
<1>1. CASE UNCHANGED vars
  BY <1>1 DEF vars, ovars, svars, CloseInv, Droppers, NewIsOpen, DueKept, ClosedIsDropped, Copied,
              ShutdownClosesAll, ShardOf
<1>2. CASE Next
  BY <1>2, OpenCloseInv, PutCloseInv, CloseCloseInv, DropCloseInv, SnapshotCloseInv, ShutdownCloseInv
  DEF Next, OpenStep, ShutdownStep
<1>3. QED
  BY <1>1, <1>2

\* No closed handle keeps its slot of the budget once its Close or the Shutdown that
\* closed it has gone on, and Shutdown runs its hooks only when every handle that was
\* open when it was called is closed, however the shards are copied while others open
\* and close: for any number of shards, handles and goroutines.
THEOREM ClosesAreExact == Spec => []CloseExact
<1>1. Spec => [](IInv /\ CloseInv)
  BY InitIInv, NextIInv, InitCloseInv, NextCloseInv, PTL DEF Spec
<1>2. CloseInv => CloseExact
  BY DEF CloseInv, Copied, CloseExact
<1>3. QED
  BY <1>1, <1>2, PTL
=============================================================================
