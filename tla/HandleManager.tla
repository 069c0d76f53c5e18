---------------------------- MODULE HandleManager ----------------------------
(***************************************************************************)
(* The table of open handles and its MaxOpenHandles budget                 *)
(* (handleManager in core/handles.go), as Open, Close and Shutdown use it. *)
(* active and seq are atomics, each shard of the map has its own lock, and *)
(* nothing orders one of them against another.  What Close does to the     *)
(* write buffer and to the lock of the handle is in WriteBuffer and Flock. *)
(***************************************************************************)
EXTENDS Naturals, FiniteSets

CONSTANTS Threads,   \* goroutines that open and close handles
          Max,       \* m.max: MaxOpenHandles, at least 1 after withDefaults
          Shards,    \* handleShardCount
          MaxIds     \* bound: handles ever opened

ASSUME HandleAssumption == /\ Max \in Nat \ {0}
                           /\ Shards \in Nat \ {0}
                           /\ MaxIds \in Nat
                           /\ IsFiniteSet(Threads)

VARIABLES active,   \* m.active
          seq,      \* m.seq
          entries,  \* ids in the shards
          closed,   \* ids whose h.closed is set
          pc,       \* idle, load, cas, seq, put (Open); drop (Close)
          seen,     \* the value of active that the goroutine loaded
          id,       \* the handle the call is about
          spc,      \* Shutdown: idle, snapshot, closing, drop, hooks, aborted
          shard,    \* Shutdown: the next shard to copy
          snap,     \* Shutdown: handles copied and not closed yet
          sid,      \* Shutdown: the handle it is dropping
          due       \* ids that were in the table when Shutdown was called

ovars == <<pc, seen, id>>
svars == <<spc, shard, snap, sid, due>>
vars == <<active, seq, entries, closed, ovars, svars>>

Ids == 1 .. MaxIds
ShardOf(i) == i % Shards

Init == /\ active = 0 /\ seq = 0 /\ entries = {} /\ closed = {}
        /\ pc = [t \in Threads |-> "idle"]
        /\ seen = [t \in Threads |-> 0]
        /\ id = [t \in Threads |-> 0]
        /\ spc = "idle" /\ shard = 0 /\ snap = {} /\ sid = 0 /\ due = {}

-----------------------------------------------------------------------------
Goto(t, l) == pc' = [pc EXCEPT ![t] = l]

\* Goroutines whose Open has taken a slot of the budget and not entered the table.
Reserved == { t \in Threads : pc[t] \in {"seq", "put"} }

\* The goroutines inside Open, for the bound on ids.
Opening == { t \in Threads : pc[t] \in {"load", "cas", "seq"} }

\* FileSystem.Open after the match and the access checks: m.acquire starts.
Open(t) ==
  /\ pc[t] = "idle" /\ seq + Cardinality(Opening) < MaxIds
  /\ Goto(t, "load")
  /\ UNCHANGED <<active, seq, entries, closed, seen, id, svars>>

\* active := m.active.Load(); EBUSY if the budget is used up.
Load(t) ==
  /\ pc[t] = "load"
  /\ \/ active >= Max /\ Goto(t, "idle") /\ UNCHANGED seen
     \/ active < Max /\ Goto(t, "cas") /\ seen' = [seen EXCEPT ![t] = active]
  /\ UNCHANGED <<active, seq, entries, closed, id, svars>>

\* m.active.CompareAndSwap(active, active+1), or once more around the loop.
CAS(t) ==
  /\ pc[t] = "cas"
  /\ \/ active = seen[t] /\ active' = active + 1 /\ Goto(t, "seq")
     \/ active # seen[t] /\ active' = active /\ Goto(t, "load")
  /\ seen' = [seen EXCEPT ![t] = 0]
  /\ UNCHANGED <<seq, entries, closed, id, svars>>

\* m.seq.Add(1)
NewId(t) ==
  /\ pc[t] = "seq"
  /\ seq' = seq + 1
  /\ id' = [id EXCEPT ![t] = seq']
  /\ Goto(t, "put")
  /\ UNCHANGED <<active, entries, closed, seen, svars>>

\* m.put under the shard's lock; Open returns the handle.
Put(t) ==
  /\ pc[t] = "put"
  /\ entries' = entries \cup {id[t]}
  /\ id' = [id EXCEPT ![t] = 0]
  /\ Goto(t, "idle")
  /\ UNCHANGED <<active, seq, closed, seen, svars>>

\* Handle.Close by a goroutine that got the handle: it wins the CompareAndSwap on
\* h.closed (a second Close returns EBUSY), flushes, unlocks and goes on to drop.
Close(t, h) ==
  /\ pc[t] = "idle" /\ h \in entries \ closed
  /\ closed' = closed \cup {h}
  /\ id' = [id EXCEPT ![t] = h]
  /\ Goto(t, "drop")
  /\ UNCHANGED <<active, seq, entries, seen, svars>>

\* A drop that leaves the budget alone.
Dropped_NoCount(h) == /\ entries' = entries \ {h}
                      /\ active' = active

\* m.drop under the shard's lock.
Dropped(h) == /\ entries' = entries \ {h}
              /\ active' = IF h \in entries THEN active - 1 ELSE active

Drop(t) ==
  /\ pc[t] = "drop"
  /\ Dropped(id[t])
  /\ id' = [id EXCEPT ![t] = 0]
  /\ Goto(t, "idle")
  /\ UNCHANGED <<seq, closed, seen, svars>>

-----------------------------------------------------------------------------
\* FileSystem.Shutdown is called.
Shutdown ==
  /\ spc = "idle"
  /\ spc' = "snapshot"
  /\ due' = entries
  /\ UNCHANGED <<active, seq, entries, closed, ovars, shard, snap, sid>>

\* A snapshot that stops one shard early.
Snapshot_SkipLast ==
  /\ spc = "snapshot"
  /\ snap' = snap \cup { h \in entries : ShardOf(h) = shard }
  /\ shard' = shard + 1
  /\ spc' = IF shard' + 1 = Shards THEN "closing" ELSE "snapshot"
  /\ UNCHANGED <<active, seq, entries, closed, ovars, sid, due>>
\* m.snapshot copies one shard after the other.
Snapshot ==
  /\ spc = "snapshot"
  /\ snap' = snap \cup { h \in entries : ShardOf(h) = shard }
  /\ shard' = shard + 1
  /\ spc' = IF shard' = Shards THEN "closing" ELSE "snapshot"
  /\ UNCHANGED <<active, seq, entries, closed, ovars, sid, due>>

\* The loop: Close the next handle; one that somebody else closes is skipped.
ShutdownClose(h) ==
  /\ spc = "closing" /\ h \in snap
  /\ snap' = snap \ {h}
  /\ closed' = closed \cup {h}
  /\ IF h \in closed THEN UNCHANGED <<spc, sid>>
                     ELSE spc' = "drop" /\ sid' = h
  /\ UNCHANGED <<active, seq, entries, ovars, shard, due>>

ShutdownDrop ==
  /\ spc = "drop"
  /\ Dropped(sid)
  /\ spc' = "closing" /\ sid' = 0
  /\ UNCHANGED <<seq, closed, ovars, shard, snap, due>>

\* ctx ends between two handles: Shutdown gives up.
ShutdownAbort ==
  /\ spc = "closing" /\ snap # {}
  /\ spc' = "aborted"
  /\ UNCHANGED <<active, seq, entries, closed, ovars, shard, snap, sid, due>>

\* All done: streams are closed, notifiers cleared and the OnShutdown hooks run.
ShutdownHooks ==
  /\ spc = "closing" /\ snap = {}
  /\ spc' = "hooks"
  /\ UNCHANGED <<active, seq, entries, closed, ovars, shard, snap, sid, due>>

-----------------------------------------------------------------------------
OpenStep(t) == Load(t) \/ CAS(t) \/ NewId(t) \/ Put(t)

ShutdownStep == \/ Snapshot \/ (\E h \in snap : ShutdownClose(h)) \/ ShutdownDrop
                \/ ShutdownAbort \/ ShutdownHooks

Next == \/ \E t \in Threads : Open(t) \/ OpenStep(t) \/ Drop(t) \/ (\E h \in entries : Close(t, h))
        \/ Shutdown \/ ShutdownStep

Spec == Init /\ [][Next]_vars

-----------------------------------------------------------------------------
TypeOK == /\ active \in Nat /\ seq \in Nat
          /\ entries \subseteq 1 .. seq /\ closed \subseteq 1 .. seq
          /\ pc \in [Threads -> {"idle", "load", "cas", "seq", "put", "drop"}]
          /\ seen \in [Threads -> Nat] /\ id \in [Threads -> 0 .. seq]
          /\ spc \in {"idle", "snapshot", "closing", "drop", "hooks", "aborted"}
          /\ shard \in 0 .. Shards /\ snap \subseteq 1 .. seq /\ sid \in 0 .. seq
          /\ due \subseteq 1 .. seq

\* The budget is exact: what active counts is the handles in the table and the
\* Opens on their way into it, whatever Closes and Shutdown race each other.
BudgetExact == active = Cardinality(entries) + Cardinality(Reserved)

\* Never more than MaxOpenHandles handles, Opens in flight included.
WithinBudget == Cardinality(entries) + Cardinality(Reserved) <= Max

\* No slot leaks: a closed handle is still in the table only while the one call
\* that closed it is about to drop it.
ClosedIsDropped ==
  \A h \in closed \cap entries :
    (spc = "drop" /\ sid = h) \/ \E t \in Threads : pc[t] = "drop" /\ id[t] = h

\* "closes all handles": when Shutdown gets to its hooks, every handle that was
\* open when it was called has been closed by somebody.
ShutdownClosesAll == spc = "hooks" => due \subseteq closed

\* Close and Shutdown together: every handle is closed that has to be, and none of
\* the closed ones keeps its slot.
CloseExact == ClosedIsDropped /\ ShutdownClosesAll
=============================================================================
