----------------------------- MODULE FlockProofs -----------------------------
(***************************************************************************)
(* Advisory locks, for every set of handles and goroutines, in whatever    *)
(* way the goroutines share the handles.  Exclusion in the lock table      *)
(* holds always; exclusion between the handles, the agreement of handles   *)
(* and table, the release by Close and the release of every waiter hold    *)
(* until the path is unmounted, up to the locks in `raced`, which is empty *)
(* when no two goroutines share a handle.                                  *)
(***************************************************************************)
EXTENDS Flock, TLAPS

\* The lockState of the map is the newest one, and a new one can still be made
\* when there is none; a lockState that is being purged has left the map.
Newest == /\ cur # 0 => cur = made
          /\ cur = 0 => made <= MaxPurges
          /\ purging # 0 => purging <= made /\ purging # cur

TableInv == TypeOK /\ Newest /\ TableExclusion

\* At the start nobody holds anything.
LEMMA InitTableInv == Init => TableInv
<1> SUFFICES ASSUME Init PROVE TableInv
  OBVIOUS
<1>1. MaxPurges \in Nat
  BY FlockAssumption
<1>2. /\ closed \in [Handles -> BOOLEAN] /\ nb \in [Threads -> BOOLEAN]
      /\ expired \in [Threads -> BOOLEAN]
  BY Zenon DEF Init
<1>3. TypeOK
  BY <1>1, <1>2, FlockAssumption DEF Init, TypeOK, States, Kinds, Labels
<1>4. Newest /\ TableExclusion
  BY <1>1 DEF Init, Newest, TableExclusion
<1>5. QED
  BY <1>3, <1>4 DEF TableInv

\* Types of what Return and Woken leave behind.
LEMMA ReturnType ==
  ASSUME TypeOK, NEW t \in Threads,
         NEW p \in [Threads -> Labels],
         Return(t, p)
  PROVE  /\ pc' \in [Threads -> Labels]
         /\ st' \in [Threads -> 0 .. MaxPurges + 1]
         /\ kind' \in [Threads -> Kinds]
         /\ nb' \in [Threads -> BOOLEAN]
         /\ expired' \in [Threads -> BOOLEAN]
         /\ then' \in [Threads -> {"acquire", "return"}]
<1>1. nb' \in [Threads -> BOOLEAN] /\ expired' \in [Threads -> BOOLEAN]
  BY Zenon DEF Return, TypeOK
<1>2. QED
  BY <1>1, FlockAssumption DEF Return, TypeOK, Kinds, Labels

LEMMA WokenType ==
  ASSUME TypeOK, NEW s
  PROVE  Woken(s) \in [Threads -> Labels]
  BY DEF Woken, TypeOK, Labels

\* Steps that leave the lock table alone.
LEMMA QuietTableInv ==
  ASSUME TableInv, UNCHANGED <<cur, made, shared, excl, purging>>, TypeOK'
  PROVE  TableInv'
  BY DEF TableInv, Newest, TableExclusion

\* Every step keeps the types.
LEMMA TypeStep ==
  ASSUME TypeOK, Newest, Next
  PROVE  TypeOK'
<1> USE FlockAssumption DEF lvars, cvars
<1>1. ASSUME NEW t \in Threads, NEW k \in Kinds, NEW n \in BOOLEAN, Flock(t, k, n)
      PROVE  TypeOK'
  <2>1. nb' \in [Threads -> BOOLEAN]
    BY <1>1, Zenon DEF Flock, TypeOK
  <2>2. QED
    BY <1>1, <2>1 DEF Flock, Goto, TypeOK, Labels
<1>2. ASSUME NEW t \in Threads, Funlock(t) \/ Close(t)
      PROVE  TypeOK'
  <2>1. closed' \in [Handles -> BOOLEAN]
    BY <1>2, Zenon DEF Funlock, Close, TypeOK
  <2>2. QED
    BY <1>2, <2>1 DEF Funlock, Close, Goto, TypeOK, Labels
<1>3. ASSUME NEW t \in Threads, Refused(t)
      PROVE  TypeOK'
  BY <1>3 DEF Refused, vars, TypeOK
<1>4. ASSUME NEW t \in Threads, Unlock(t)
      PROVE  TypeOK'
  <2>1. CASE Return(t, pc)
    BY <1>4, <2>1, ReturnType DEF Unlock, TypeOK
  <2>2. CASE Goto(t, "release") /\ UNCHANGED <<st, cvars, expired>>
    BY <1>4, <2>2 DEF Unlock, Goto, TypeOK, Labels
  <2>3. QED
    BY <1>4, <2>1, <2>2 DEF Unlock
<1>5. ASSUME NEW t \in Threads, Acquire(t)
      PROVE  TypeOK'
  <2>1. CASE Return(t, pc)
    BY <1>5, <2>1, ReturnType DEF Acquire, TypeOK
  <2>2. CASE Goto(t, "switch") /\ UNCHANGED <<st, cvars, expired>>
    BY <1>5, <2>2 DEF Acquire, Goto, TypeOK, Labels
  <2>3. QED
    BY <1>5, <2>1, <2>2 DEF Acquire
<1>6. ASSUME NEW t \in Threads, Switch(t)
       PROVE  TypeOK'
  <2>1. /\ Goto(t, "release") \/ Goto(t, "stateFor")
        /\ then' \in {then, [then EXCEPT ![t] = "acquire"]}
        /\ UNCHANGED <<lvars, lockKind, closed, st, kind, nb, expired, purging, raced>>
    BY <1>6 DEF Switch
  <2>2. QED
    BY <2>1 DEF Goto, TypeOK, Labels
<1>7. ASSUME NEW t \in Threads, NEW p \in [Threads -> Labels], ReleaseReturn(t, p)
      PROVE  /\ pc' \in [Threads -> Labels]
             /\ st' \in [Threads -> 0 .. MaxPurges + 1]
             /\ kind' \in [Threads -> Kinds]
             /\ nb' \in [Threads -> BOOLEAN]
             /\ expired' \in [Threads -> BOOLEAN]
             /\ then' \in [Threads -> {"acquire", "return"}]
  <2>1. CASE Return(t, p)
    BY <2>1, ReturnType
  <2>2. CASE /\ pc' = [p EXCEPT ![t] = "stateFor"] /\ st' = [st EXCEPT ![t] = 0]
             /\ UNCHANGED <<cvars, expired>>
    BY <2>2 DEF TypeOK, Labels
  <2>3. QED
    BY <1>7, <2>1, <2>2 DEF ReleaseReturn
<1>8. ASSUME NEW t \in Threads, ReleaseLookup(t)
      PROVE  TypeOK'
  BY <1>8 DEF ReleaseLookup, Goto, TypeOK, Labels
<1>9. ASSUME NEW t \in Threads, Forget(t)
       PROVE  TypeOK'
  <2>1. lockKind' \in [Handles -> Kinds \cup {"none"}] /\ pc \in [Threads -> Labels]
    BY <1>9 DEF Forget, TypeOK
  <2>2. ReleaseReturn(t, pc) /\ UNCHANGED <<lvars, closed, purging, raced>>
    BY <1>9 DEF Forget
  <2>3. QED
    BY <1>7, <2>1, <2>2 DEF TypeOK
<1>10. ASSUME NEW t \in Threads, Release(t)
      PROVE  TypeOK'
  <2>1. Woken(st[t]) \in [Threads -> Labels]
    BY WokenType
  <2>2. shared' \in [States -> SUBSET Handles]
    BY <1>10 DEF Release, TypeOK
  <2>3. excl' \in [States -> Handles \cup {None}]
    BY <1>10 DEF Release, TypeOK
  <2>4. lockKind' \in [Handles -> Kinds \cup {"none"}]
    BY <1>10 DEF Release, TypeOK
  <2>5. ReleaseReturn(t, Woken(st[t])) /\ UNCHANGED <<cur, made, closed, purging>>
    BY <1>10 DEF Release
  <2>6. raced' \subseteq Handles
    BY <1>10 DEF Release, TypeOK
  <2>7. QED
    BY <1>7, <2>1, <2>2, <2>3, <2>4, <2>5, <2>6 DEF TypeOK
<1>11. ASSUME NEW t \in Threads, StateFor(t)
      PROVE  TypeOK'
  <2>1. made' \in 0 .. MaxPurges + 1 /\ cur' \in 0 .. MaxPurges + 1
    BY <1>11 DEF StateFor, TypeOK, Newest
  <2>2. QED
    BY <1>11, <2>1 DEF StateFor, Goto, TypeOK, Labels
<1>12. ASSUME NEW t \in Threads, Take(t)
       PROVE  TypeOK'
  <2>1. Return(t, pc) /\ UNCHANGED <<cur, made, closed, purging>>
    BY <1>12 DEF Take
  <2>2. shared' \in [States -> SUBSET Handles]
    <3>1. shared \in [States -> SUBSET Handles] /\ HandleOf[t] \in Handles
      BY FlockAssumption DEF TypeOK
    <3>2. shared' \in {shared, [shared EXCEPT ![st[t]] = @ \cup {HandleOf[t]}]}
      BY <1>12 DEF Take
    <3>3. [shared EXCEPT ![st[t]] = @ \cup {HandleOf[t]}] \in [States -> SUBSET Handles]
      BY <3>1
    <3>4. QED
      BY <3>1, <3>2, <3>3
  <2>3. excl' \in [States -> Handles \cup {None}]
    BY <1>12 DEF Take, TypeOK
  <2>4. lockKind' \in [Handles -> Kinds \cup {"none"}]
    BY <1>12 DEF Take, TypeOK
  <2>5. raced' \subseteq Handles
    BY <1>12 DEF Take, TypeOK
  <2>6. QED
    BY <2>1, <2>2, <2>3, <2>4, <2>5, ReturnType DEF TypeOK
<1>13. ASSUME NEW t \in Threads, Fail(t)
       PROVE  TypeOK'
  BY <1>13, ReturnType DEF Fail, TypeOK
<1>14. ASSUME NEW t \in Threads, Wait(t)
       PROVE  TypeOK'
  BY <1>14 DEF Wait, Goto, TypeOK, Labels
<1>15. ASSUME NEW t \in Threads, AfterWait(t)
       PROVE  TypeOK'
  <2>1. CASE Return(t, pc)
    BY <1>15, <2>1, ReturnType DEF AfterWait, TypeOK
  <2>2. CASE Goto(t, "try") /\ UNCHANGED <<st, cvars, expired>>
    BY <1>15, <2>2 DEF AfterWait, Goto, TypeOK, Labels
  <2>3. QED
    BY <1>15, <2>1, <2>2 DEF AfterWait
<1>16. ASSUME NEW t \in Threads, Expire(t)
       PROVE  TypeOK'
  <2>1. expired' \in [Threads -> BOOLEAN]
    BY <1>16, Zenon DEF Expire, TypeOK
  <2>2. QED
    BY <1>16, <2>1 DEF Expire, TypeOK
<1>17. ASSUME NEW t \in Threads, Watchdog(t)
       PROVE  TypeOK'
  BY <1>17, WokenType DEF Watchdog, TypeOK
<1>18. CASE PurgeDelete
  BY <1>18 DEF PurgeDelete, TypeOK
<1>19. CASE PurgeClear
  <2>1. shared' \in [States -> SUBSET Handles] /\ excl' \in [States -> Handles \cup {None}]
    BY <1>19 DEF PurgeClear, TypeOK
  <2>2. QED
    BY <1>19, <2>1, WokenType DEF PurgeClear, TypeOK
<1>20. QED
  BY <1>1, <1>2, <1>3, <1>4, <1>5, <1>6, <1>8, <1>9, <1>10, <1>11, <1>12, <1>13, <1>14, <1>15, <1>16,
     <1>17, <1>18, <1>19 DEF Next, ThreadStep

\* Every step keeps exclusion in the lock table.
LEMMA NextTableInv == TableInv /\ [Next]_vars => TableInv'
<1> SUFFICES ASSUME TableInv, [Next]_vars PROVE TableInv'
  OBVIOUS
<1>1. TypeOK /\ Newest /\ TableExclusion
  BY DEF TableInv
<1>2. CASE UNCHANGED vars
  BY <1>2 DEF vars, lvars, cvars, TableInv, TypeOK, Newest, TableExclusion
<1>3. CASE Next
  <2>1. TypeOK'
    BY <1>1, <1>3, TypeStep
  <2>2. CASE UNCHANGED <<cur, made, shared, excl, purging>>
    BY <2>1, <2>2, QuietTableInv
  <2>3. ASSUME NEW t \in Threads, Release(t)
        PROVE  TableInv'
    <3>1. ASSUME NEW s \in States PROVE shared'[s] \subseteq shared[s] /\ excl'[s] \in {excl[s], None}
      BY <1>1, <2>3 DEF Release, TypeOK
    <3>2. TableExclusion'
      BY <1>1, <3>1 DEF TableExclusion
    <3>3. Newest'
      BY <1>1, <2>3 DEF Release, Newest
    <3>4. QED
      BY <2>1, <3>2, <3>3 DEF TableInv
  <2>4. CASE PurgeClear
    <3>1. ASSUME NEW s \in States PROVE shared'[s] \subseteq shared[s] /\ excl'[s] \in {excl[s], None}
      BY <1>1, <2>4 DEF PurgeClear, TypeOK
    <3>2. TableExclusion'
      BY <1>1, <3>1 DEF TableExclusion
    <3>3. Newest'
      BY <1>1, <2>4 DEF PurgeClear, Newest
    <3>4. QED
      BY <2>1, <3>2, <3>3 DEF TableInv
  <2>5. ASSUME NEW t \in Threads, StateFor(t)
        PROVE  TableInv'
    <3>1. Newest'
      BY <1>1, <2>5, FlockAssumption DEF StateFor, Newest, TypeOK
    <3>2. TableExclusion'
      BY <1>1, <2>5 DEF StateFor, TableExclusion
    <3>3. QED
      BY <2>1, <3>1, <3>2 DEF TableInv
  <2>6. ASSUME NEW t \in Threads, Take(t)
        PROVE  TableInv'
    <3> DEFINE h == HandleOf[t]
               s == st[t]
    <3>1. /\ excl[s] \in {None, h}
          /\ kind[t] = "excl" => shared[s] \subseteq {h}
          /\ shared' = IF kind[t] = "shared" THEN [shared EXCEPT ![s] = @ \cup {h}] ELSE shared
          /\ excl' = IF kind[t] = "excl" THEN [excl EXCEPT ![s] = h] ELSE excl
      BY <2>6 DEF Take, canTake
    <3>2. ASSUME NEW u \in States, u # s PROVE shared'[u] = shared[u] /\ excl'[u] = excl[u]
      BY <1>1, <3>1, <3>2 DEF TypeOK
    <3>3. ASSUME s \in States PROVE excl'[s] # None => shared'[s] \subseteq {excl'[s]}
      <4>1. CASE kind[t] = "excl"
        BY <1>1, <3>1, <3>3, <4>1 DEF TypeOK
      <4>2. CASE kind[t] = "shared"
        BY <1>1, <3>1, <3>3, <4>2 DEF TypeOK, TableExclusion
      <4>3. QED
        BY <1>1, <4>1, <4>2 DEF TypeOK, Kinds
    <3>4. TableExclusion'
      BY <1>1, <3>2, <3>3 DEF TableExclusion
    <3>5. Newest'
      BY <1>1, <2>6 DEF Take, Newest
    <3>6. QED
      BY <2>1, <3>4, <3>5 DEF TableInv
  <2>7. CASE PurgeDelete
    <3>1. Newest'
      BY <1>1, <2>7 DEF PurgeDelete, Newest, TypeOK
    <3>2. TableExclusion'
      BY <1>1, <2>7 DEF PurgeDelete, TableExclusion
    <3>3. QED
      BY <2>1, <3>1, <3>2 DEF TableInv
  <2>8. QED
    BY <1>3, <2>2, <2>3, <2>4, <2>5, <2>6, <2>7
    DEF Next, ThreadStep, Flock, Funlock, Close, Refused, Unlock, Acquire, Switch,
        ReleaseLookup, Forget, Fail, Wait, AfterWait, Expire, Watchdog, vars, lvars
<1>4. QED
  BY <1>2, <1>3

\* Types, for every number of handles, goroutines and unmounts.
THEOREM FlockTypes == Spec => []TypeOK
<1>1. Spec => []TableInv
  BY InitTableInv, NextTableInv, PTL DEF Spec
<1>2. TableInv => TypeOK
  BY DEF TableInv
<1>3. QED
  BY <1>1, <1>2, PTL

\* The lock table never lists a second holder beside an exclusive one, also when
\* goroutines share handles and the path is unmounted under them.
THEOREM TableExcludes == Spec => []TableExclusion
<1>1. Spec => []TableInv
  BY InitTableInv, NextTableInv, PTL DEF Spec
<1>2. TableInv => TableExclusion
  BY DEF TableInv
<1>3. QED
  BY <1>1, <1>2, PTL

-----------------------------------------------------------------------------
(* The handles and the table, as long as the path stays mounted.            *)

\* Inside the calls: a call that works on a lockState works on the one of the map,
\* and only a call that was releasing goes on to acquire.
Working ==
  \A t \in Threads :
    /\ pc[t] # "forget"
    /\ pc[t] \in {"release", "releasing", "try", "wait", "woken"} => cur = 1
    /\ pc[t] \in {"releasing", "try", "wait", "woken"} => st[t] = 1
    /\ then[t] = "acquire" => pc[t] \in {"release", "releasing", "stateFor", "try", "wait", "woken"}

\* What a handle believes to hold it holds, and it holds nothing else unless it is raced.
View == /\ \A s \in States \ {1} : shared[s] = {} /\ excl[s] = None
        /\ \A h \in Handles : /\ lockKind[h] # "none" => cur = 1
                              /\ lockKind[h] = "excl" => excl[1] = h
                              /\ lockKind[h] = "shared" => h \in shared[1]
                              /\ h \notin raced /\ excl[1] = h => lockKind[h] = "excl"
                              /\ h \notin raced /\ h \in shared[1] => lockKind[h] = "shared"

\* A closed handle believes to hold a lock only while its Close is giving it up.
Gone == \A h \in Handles : closed[h] /\ lockKind[h] # "none" /\ h \notin raced => Releasing(h)

\* A goroutine that has its handle for itself acts on what it has read.
Alone == \A t \in Threads : ~Shared(HandleOf[t]) =>
           /\ pc[t] \in {"acquire", "switch", "stateFor", "try", "wait", "woken"} \/ then[t] = "acquire"
                => ~closed[HandleOf[t]]
           /\ pc[t] \in {"stateFor", "try", "wait", "woken"} => lockKind[HandleOf[t]] = "none"

\* Whoever waits is kept out by the lock table.
Blocked == \A t \in Threads : pc[t] = "wait" => ~canTake(st[t], HandleOf[t], kind[t])

ViewInv == TableInv /\ (Mounted => Working /\ View /\ Gone /\ Alone /\ Blocked)

\* At the start the handles' view is right.
LEMMA InitViewInv == Init => ViewInv
<1>1. Init => TableInv
  BY InitTableInv
<1>2. Init => Working /\ View /\ Gone /\ Alone /\ Blocked
  BY FlockAssumption DEF Init, Working, View, Gone, Alone, Blocked, States
<1>3. QED
  BY <1>1, <1>2 DEF ViewInv

\* A path that is mounted after a step was mounted before it.
LEMMA WasMounted ==
  ASSUME TypeOK, Newest, [Next]_vars, Mounted'
  PROVE  Mounted
<1>1. CASE UNCHANGED <<cur, made>>
  BY <1>1 DEF Mounted
<1>2. ASSUME NEW t \in Threads, StateFor(t)
      PROVE  Mounted
  BY <1>2 DEF StateFor, Mounted, TypeOK
<1>3. ~PurgeDelete
  BY DEF PurgeDelete, Mounted, Newest
<1>4. QED
  BY <1>1, <1>2, <1>3
  DEF Next, ThreadStep, Flock, Funlock, Close, Refused, Unlock, Acquire, Switch,
      ReleaseLookup, Forget, Release, Take, Fail, Wait, AfterWait, Expire, Watchdog,
      PurgeClear, vars, lvars

\* A handle of one goroutine has no other.
LEMMA OwnGoroutine ==
  ASSUME NEW t \in Threads, NEW u \in Threads, HandleOf[t] = HandleOf[u], ~Shared(HandleOf[t])
  PROVE  t = u
  BY DEF Shared

\* A step that lets no goroutine leave a release but the ones whose handle then
\* believes to hold nothing.
LEMMA StillReleasing ==
  ASSUME Gone,
         \A h \in Handles : closed'[h] /\ lockKind'[h] # "none" /\ h \notin raced'
                              => closed[h] /\ lockKind[h] # "none" /\ h \notin raced,
         \A t \in Threads : /\ pc[t] \in {"unlock", "release", "releasing"}
                            /\ lockKind'[HandleOf[t]] # "none"
                            => pc'[t] \in {"unlock", "release", "releasing"}
  PROVE  Gone'
<1> SUFFICES ASSUME NEW h \in Handles, closed'[h] /\ lockKind'[h] # "none" /\ h \notin raced'
             PROVE  Releasing(h)'
  BY DEF Gone
<1>1. Releasing(h)
  BY DEF Gone
<1>2. PICK t \in Threads : HandleOf[t] = h /\ pc[t] \in {"unlock", "release", "releasing"}
  BY <1>1 DEF Releasing
<1>3. pc'[t] \in {"unlock", "release", "releasing"}
  BY <1>2
<1>4. QED
  BY <1>2, <1>3 DEF Releasing

\* Every step keeps it right.
LEMMA NextViewInv == ViewInv /\ [Next]_vars => ViewInv'
<1> SUFFICES ASSUME ViewInv, [Next]_vars PROVE ViewInv'
  OBVIOUS
<1>1. TableInv' /\ TableInv
  BY NextTableInv DEF ViewInv
<1> SUFFICES ASSUME Mounted' PROVE ViewInv'
  BY <1>1 DEF ViewInv
<1>2. HandleOf \in [Threads -> Handles] /\ None \notin Handles
  BY FlockAssumption
<1>3. TypeOK /\ Newest /\ TypeOK' /\ Newest'
  BY <1>1 DEF TableInv
<1>4. Mounted /\ Working /\ View /\ Gone /\ Alone /\ Blocked
  BY <1>3, WasMounted DEF ViewInv
<1>5. cur \in {0, 1} /\ cur = made /\ purging = 0 /\ 1 \in States
  BY <1>3, <1>4, FlockAssumption DEF TypeOK, Mounted, Newest, States
<1>6. CASE UNCHANGED vars
  BY <1>1, <1>4, <1>6
  DEF ViewInv, Working, View, Gone, Releasing, Alone, Blocked, canTake, vars, lvars, cvars
<1>7. ASSUME NEW t \in Threads, NEW k \in Kinds, NEW m \in BOOLEAN, Flock(t, k, m)
      PROVE  ViewInv'
  <2>1. Working'
    BY <1>2, <1>3, <1>4, <1>5, <1>7 DEF Working, TypeOK, Flock, Goto, lvars, cvars
  <2>2. View'
    BY <1>2, <1>3, <1>4, <1>5, <1>7 DEF View, Working, TypeOK, States, Kinds, Flock, Goto, lvars, cvars
  <2>3. Gone'
    BY <1>2, <1>3, <1>4, <1>5, <1>7, StillReleasing DEF Working, View, TypeOK, Flock, Goto, lvars, cvars
  <2>4. Alone'
    BY <1>2, <1>3, <1>4, <1>5, <1>7, OwnGoroutine DEF Alone, Working, TypeOK, Flock, Goto, lvars, cvars
  <2>5. Blocked'
    BY <1>2, <1>3, <1>4, <1>5, <1>7 DEF Blocked, canTake, Working, View, TypeOK, Flock, Goto, lvars, cvars
  <2>6. QED
    BY <1>1, <2>1, <2>2, <2>3, <2>4, <2>5 DEF ViewInv
<1>8. ASSUME NEW t \in Threads, Funlock(t)
      PROVE  ViewInv'
  <2>1. Working'
    BY <1>2, <1>3, <1>4, <1>5, <1>8 DEF Working, TypeOK, Funlock, Goto, lvars, cvars
  <2>2. View'
    BY <1>2, <1>3, <1>4, <1>5, <1>8 DEF View, Working, TypeOK, States, Kinds, Funlock, Goto, lvars, cvars
  <2>3. Gone'
    BY <1>2, <1>3, <1>4, <1>5, <1>8, StillReleasing DEF Working, View, TypeOK, Funlock, Goto, lvars, cvars
  <2>4. Alone'
    BY <1>2, <1>3, <1>4, <1>5, <1>8, OwnGoroutine DEF Alone, Working, TypeOK, Funlock, Goto, lvars, cvars
  <2>5. Blocked'
    BY <1>2, <1>3, <1>4, <1>5, <1>8 DEF Blocked, canTake, Working, View, TypeOK, Funlock, Goto, lvars, cvars
  <2>6. QED
    BY <1>1, <2>1, <2>2, <2>3, <2>4, <2>5 DEF ViewInv
<1>9. ASSUME NEW t \in Threads, Close(t)
      PROVE  ViewInv'
  <2>1. Working'
    BY <1>2, <1>3, <1>4, <1>5, <1>9 DEF Working, TypeOK, Close, Goto, lvars, cvars
  <2>2. View'
    BY <1>2, <1>3, <1>4, <1>5, <1>9 DEF View, Working, TypeOK, States, Kinds, Close, Goto, lvars, cvars
  <2>3. Gone'
    <3>1. Releasing(HandleOf[t])'
      BY <1>2, <1>3, <1>9 DEF Releasing, Close, Goto, TypeOK
    <3>2. ASSUME NEW h \in Handles, h # HandleOf[t],
                 closed'[h] /\ lockKind'[h] # "none" /\ h \notin raced'
          PROVE  Releasing(h)'
      <4>1. PICK u \in Threads : HandleOf[u] = h /\ pc[u] \in {"unlock", "release", "releasing"}
        BY <1>3, <1>4, <3>2, <1>9 DEF Gone, Releasing, Close, TypeOK
      <4>2. pc'[u] = pc[u]
        BY <1>3, <3>2, <4>1, <1>9 DEF Close, Goto, TypeOK
      <4>3. QED
        BY <4>1, <4>2 DEF Releasing
    <3>3. QED
      BY <3>1, <3>2 DEF Gone
  <2>4. Alone'
    BY <1>2, <1>3, <1>4, <1>5, <1>9, OwnGoroutine DEF Alone, Working, TypeOK, Close, Goto, lvars, cvars
  <2>5. Blocked'
    BY <1>2, <1>3, <1>4, <1>5, <1>9 DEF Blocked, canTake, Working, View, TypeOK, Close, Goto, lvars, cvars
  <2>6. QED
    BY <1>1, <2>1, <2>2, <2>3, <2>4, <2>5 DEF ViewInv
<1>10. ASSUME NEW t \in Threads, Refused(t)
      PROVE  ViewInv'
  <2>1. Working'
    BY <1>2, <1>3, <1>4, <1>5, <1>10 DEF Working, TypeOK, Refused, vars, lvars, cvars
  <2>2. View'
    BY <1>2, <1>3, <1>4, <1>5, <1>10 DEF View, Working, TypeOK, States, Kinds, Refused, vars, lvars, cvars
  <2>3. Gone'
    BY <1>2, <1>3, <1>4, <1>5, <1>10, StillReleasing DEF Working, View, TypeOK, Refused, vars, lvars, cvars
  <2>4. Alone'
    BY <1>2, <1>3, <1>4, <1>5, <1>10, OwnGoroutine DEF Alone, Working, TypeOK, Refused, vars, lvars, cvars
  <2>5. Blocked'
    BY <1>2, <1>3, <1>4, <1>5, <1>10 DEF Blocked, canTake, Working, View, TypeOK, Refused, vars, lvars, cvars
  <2>6. QED
    BY <1>1, <2>1, <2>2, <2>3, <2>4, <2>5 DEF ViewInv
<1>11. ASSUME NEW t \in Threads, Unlock(t)
      PROVE  ViewInv'
  <2>1. Working'
    <3>1. lockKind[HandleOf[t]] # "none" => cur = 1
      BY <1>2, <1>4 DEF View
    <3>2. CASE lockKind[HandleOf[t]] = "none"
      BY <1>3, <1>4, <1>11, <3>2 DEF Working, TypeOK, Unlock, Return, lvars
    <3>3. CASE lockKind[HandleOf[t]] # "none"
      BY <1>3, <1>4, <1>11, <3>1, <3>3 DEF Working, TypeOK, Unlock, Goto, lvars, cvars
    <3>4. QED
      BY <3>2, <3>3
  <2>2. View'
    BY <1>2, <1>3, <1>4, <1>5, <1>11 DEF View, Working, TypeOK, States, Kinds, Unlock, Goto, Return, lvars, cvars
  <2>3. Gone'
    BY <1>2, <1>3, <1>4, <1>5, <1>11, StillReleasing DEF Working, View, TypeOK, Unlock, Goto, Return, lvars, cvars
  <2>4. Alone'
    BY <1>2, <1>3, <1>4, <1>5, <1>11, OwnGoroutine DEF Alone, Working, TypeOK, Unlock, Goto, Return, lvars, cvars
  <2>5. Blocked'
    BY <1>2, <1>3, <1>4, <1>5, <1>11 DEF Blocked, canTake, Working, View, TypeOK, Unlock, Goto, Return, lvars, cvars
  <2>6. QED
    BY <1>1, <2>1, <2>2, <2>3, <2>4, <2>5 DEF ViewInv
<1>12. ASSUME NEW t \in Threads, Acquire(t)
      PROVE  ViewInv'
  <2>1. Working'
    BY <1>2, <1>3, <1>4, <1>5, <1>12 DEF Working, TypeOK, Acquire, Goto, Return, lvars, cvars
  <2>2. View'
    BY <1>2, <1>3, <1>4, <1>5, <1>12 DEF View, Working, TypeOK, States, Kinds, Acquire, Goto, Return, lvars, cvars
  <2>3. Gone'
    BY <1>2, <1>3, <1>4, <1>5, <1>12, StillReleasing DEF Working, View, TypeOK, Acquire, Goto, Return, lvars, cvars
  <2>4. Alone'
    BY <1>2, <1>3, <1>4, <1>5, <1>12, OwnGoroutine DEF Alone, Working, TypeOK, Acquire, Goto, Return, lvars, cvars
  <2>5. Blocked'
    BY <1>2, <1>3, <1>4, <1>5, <1>12 DEF Blocked, canTake, Working, View, TypeOK, Acquire, Goto, Return, lvars, cvars
  <2>6. QED
    BY <1>1, <2>1, <2>2, <2>3, <2>4, <2>5 DEF ViewInv
<1>13. ASSUME NEW t \in Threads, Switch(t)
      PROVE  ViewInv'
  <2>1. Working'
    <3>1. lockKind[HandleOf[t]] # "none" => cur = 1
      BY <1>2, <1>4 DEF View
    <3>2. CASE lockKind[HandleOf[t]] = "none"
      BY <1>3, <1>4, <1>13, <3>2 DEF Working, TypeOK, Switch, Goto, lvars
    <3>3. CASE lockKind[HandleOf[t]] # "none"
      BY <1>3, <1>4, <1>13, <3>1, <3>3 DEF Working, TypeOK, Switch, Goto, lvars
    <3>4. QED
      BY <3>2, <3>3
  <2>2. View'
    BY <1>2, <1>3, <1>4, <1>5, <1>13 DEF View, Working, TypeOK, States, Kinds, Switch, Goto, lvars, cvars
  <2>3. Gone'
    BY <1>2, <1>3, <1>4, <1>5, <1>13, StillReleasing DEF Working, View, TypeOK, Switch, Goto, lvars, cvars
  <2>4. Alone'
    BY <1>2, <1>3, <1>4, <1>5, <1>13, OwnGoroutine DEF Alone, Working, TypeOK, Switch, Goto, lvars, cvars
  <2>5. Blocked'
    BY <1>2, <1>3, <1>4, <1>5, <1>13 DEF Blocked, canTake, Working, View, TypeOK, Switch, Goto, lvars, cvars
  <2>6. QED
    BY <1>1, <2>1, <2>2, <2>3, <2>4, <2>5 DEF ViewInv
<1>14. ASSUME NEW t \in Threads, ReleaseLookup(t)
      PROVE  ViewInv'
  <2>1. Working'
    BY <1>2, <1>3, <1>4, <1>5, <1>14 DEF Working, TypeOK, ReleaseLookup, Goto, lvars, cvars
  <2>2. View'
    BY <1>2, <1>3, <1>4, <1>5, <1>14 DEF View, Working, TypeOK, States, Kinds, ReleaseLookup, Goto, lvars, cvars
  <2>3. Gone'
    BY <1>2, <1>3, <1>4, <1>5, <1>14, StillReleasing DEF Working, View, TypeOK, ReleaseLookup, Goto, lvars, cvars
  <2>4. Alone'
    BY <1>2, <1>3, <1>4, <1>5, <1>14, OwnGoroutine DEF Alone, Working, TypeOK, ReleaseLookup, Goto, lvars, cvars
  <2>5. Blocked'
    BY <1>2, <1>3, <1>4, <1>5, <1>14 DEF Blocked, canTake, Working, View, TypeOK, ReleaseLookup, Goto, lvars, cvars
  <2>6. QED
    BY <1>1, <2>1, <2>2, <2>3, <2>4, <2>5 DEF ViewInv
<1>15. ASSUME NEW t \in Threads, Release(t)
      PROVE  ViewInv'
  <2>1. st[t] = 1 /\ cur = 1
    BY <1>4, <1>15 DEF Release, Working
  <2>2. Woken(1) = [u \in Threads |-> IF pc[u] = "wait" /\ st[u] = 1 THEN "woken" ELSE pc[u]]
    BY DEF Woken
  <2>3. ASSUME NEW u \in Threads, u # t
        PROVE  /\ pc'[u] = IF pc[u] = "wait" /\ st[u] = 1 THEN "woken" ELSE pc[u]
               /\ st'[u] = st[u] /\ then'[u] = then[u]
    BY <1>3, <1>15, <2>1, <2>2, <2>3 DEF Release, ReleaseReturn, Return, cvars, TypeOK
  <2>4. \/ pc'[t] = "stateFor" /\ then[t] = "acquire" /\ then'[t] = then[t]
        \/ pc'[t] = "idle" /\ then'[t] = "return"
    BY <1>3, <1>15, <2>1, <2>2 DEF Release, ReleaseReturn, Return, cvars, TypeOK
  <2>5. /\ lockKind' = [lockKind EXCEPT ![HandleOf[t]] = "none"]
        /\ UNCHANGED <<cur, closed, purging>>
    BY <1>15 DEF Release
  <2>6. Working'
    <3>1. ASSUME NEW u \in Threads, u # t
          PROVE  /\ pc'[u] # "forget"
                 /\ pc'[u] \in {"release", "releasing", "try", "wait", "woken"} => cur' = 1
                 /\ pc'[u] \in {"releasing", "try", "wait", "woken"} => st'[u] = 1
                 /\ then'[u] = "acquire"
                      => pc'[u] \in {"release", "releasing", "stateFor", "try", "wait", "woken"}
      BY <1>4, <2>3, <2>5, <3>1 DEF Working
    <3>2. QED
      BY <2>4, <3>1 DEF Working
  <2>7. View'
    <3> DEFINE g == HandleOf[t]
    <3>1. /\ shared' = IF lockKind[g] = "shared" THEN [shared EXCEPT ![1] = @ \ {g}] ELSE shared
          /\ excl' = IF lockKind[g] = "excl" /\ excl[1] = g THEN [excl EXCEPT ![1] = None] ELSE excl
          /\ raced' = IF excl'[1] = g \/ g \in shared'[1] THEN raced ELSE raced \ {g}
      BY <1>15, <2>1 DEF Release
    <3>2. \A s \in States \ {1} : shared'[s] = {} /\ excl'[s] = None
      BY <1>3, <1>4, <3>1 DEF View, TypeOK
    <3>3. ASSUME NEW h \in Handles
          PROVE  /\ lockKind'[h] # "none" => cur' = 1
                 /\ lockKind'[h] = "excl" => excl'[1] = h
                 /\ lockKind'[h] = "shared" => h \in shared'[1]
                 /\ h \notin raced' /\ excl'[1] = h => lockKind'[h] = "excl"
                 /\ h \notin raced' /\ h \in shared'[1] => lockKind'[h] = "shared"
      <4>1. CASE h = g
        BY <1>2, <1>3, <1>4, <1>5, <2>1, <2>5, <3>1, <4>1 DEF View, TypeOK, Kinds
      <4>2. CASE h # g
        BY <1>2, <1>3, <1>4, <1>5, <2>1, <2>5, <3>1, <4>2 DEF View, TypeOK, Kinds
      <4>3. QED
        BY <4>1, <4>2
    <3>4. QED
      BY <3>2, <3>3 DEF View
  <2>8. Gone'
    <3>1. lockKind'[HandleOf[t]] = "none" /\ (raced' = raced \/ raced' = raced \ {HandleOf[t]})
      BY <1>2, <1>3, <1>15, <2>5 DEF TypeOK, Release
    <3>2. \A h \in Handles : h # HandleOf[t] => lockKind'[h] = lockKind[h]
      BY <1>3, <2>5 DEF TypeOK
    <3>3. QED
      BY <2>3, <2>5, <3>1, <3>2, <1>2, <1>4, StillReleasing
  <2>9. Alone'
    <3>1. ASSUME NEW u \in Threads, u # t, ~Shared(HandleOf[u])
          PROVE  /\ pc'[u] \in {"acquire", "switch", "stateFor", "try", "wait", "woken"} \/ then'[u] = "acquire"
                      => ~closed'[HandleOf[u]]
                 /\ pc'[u] \in {"stateFor", "try", "wait", "woken"} => lockKind'[HandleOf[u]] = "none"
      BY <1>2, <1>3, <1>4, <2>3, <2>5, <3>1 DEF Alone, TypeOK
    <3>2. lockKind'[HandleOf[t]] = "none"
      BY <1>2, <1>3, <2>5 DEF TypeOK
    <3>3. QED
      BY <1>4, <2>4, <2>5, <3>1, <3>2 DEF Alone
  <2>10. Blocked'
    <3>1. \A u \in Threads : pc'[u] # "wait"
      BY <1>4, <2>3, <2>4 DEF Working
    <3>2. QED
      BY <3>1 DEF Blocked
  <2>11. QED
    BY <1>1, <2>6, <2>7, <2>8, <2>9, <2>10 DEF ViewInv
<1>16. ASSUME NEW t \in Threads, StateFor(t)
      PROVE  ViewInv'
  <2>1. Working'
    BY <1>2, <1>3, <1>4, <1>5, <1>16 DEF Working, TypeOK, StateFor, Goto, Newest, cvars
  <2>2. View'
    BY <1>2, <1>3, <1>4, <1>5, <1>16 DEF View, Working, TypeOK, States, Kinds, StateFor, Goto, Newest, cvars
  <2>3. Gone'
    BY <1>2, <1>3, <1>4, <1>5, <1>16, StillReleasing DEF Working, View, TypeOK, StateFor, Goto, Newest, cvars
  <2>4. Alone'
    BY <1>2, <1>3, <1>4, <1>5, <1>16, OwnGoroutine DEF Alone, Working, TypeOK, StateFor, Goto, Newest, cvars
  <2>5. Blocked'
    BY <1>2, <1>3, <1>4, <1>5, <1>16 DEF Blocked, canTake, Working, View, TypeOK, StateFor, Goto, Newest, cvars
  <2>6. QED
    BY <1>1, <2>1, <2>2, <2>3, <2>4, <2>5 DEF ViewInv
<1>17. ASSUME NEW t \in Threads, Take(t)
      PROVE  ViewInv'
  <2>1. Working'
    BY <1>2, <1>3, <1>4, <1>5, <1>17 DEF Working, TypeOK, Take, Return, canTake
  <2>2. View'
    <3> DEFINE g == HandleOf[t]
    <3>1. /\ st[t] = 1 /\ cur = 1 /\ g \in Handles /\ kind[t] \in Kinds
          /\ UNCHANGED cur
      BY <1>2, <1>3, <1>4, <1>17 DEF Working, Take, TypeOK
    <3>2. /\ excl[1] \in {None, g}
          /\ shared' = IF kind[t] = "shared" THEN [shared EXCEPT ![1] = @ \cup {g}] ELSE shared
          /\ excl' = IF kind[t] = "excl" THEN [excl EXCEPT ![1] = g] ELSE excl
          /\ lockKind' = [lockKind EXCEPT ![g] = kind[t]]
          /\ raced' = IF Shared(g) /\ (closed[g] \/ lockKind[g] \notin {"none", kind[t]})
                      THEN raced \cup {g} ELSE raced
      BY <1>17, <3>1 DEF Take, canTake
    <3>3. \A s \in States \ {1} : shared'[s] = {} /\ excl'[s] = None
      BY <1>3, <1>4, <3>2 DEF View, TypeOK
    <3>4. g \in raced' \/ lockKind[g] \in {"none", kind[t]}
      BY <1>17, <1>4, <3>2 DEF Alone, Take
    <3>5. ASSUME NEW h \in Handles
          PROVE  /\ lockKind'[h] # "none" => cur' = 1
                 /\ lockKind'[h] = "excl" => excl'[1] = h
                 /\ lockKind'[h] = "shared" => h \in shared'[1]
                 /\ h \notin raced' /\ excl'[1] = h => lockKind'[h] = "excl"
                 /\ h \notin raced' /\ h \in shared'[1] => lockKind'[h] = "shared"
      <4>1. CASE h = g
        BY <1>2, <1>3, <1>4, <1>5, <3>1, <3>2, <3>4, <4>1 DEF View, TypeOK, Kinds
      <4>2. CASE h # g
        BY <1>2, <1>3, <1>4, <1>5, <3>1, <3>2, <4>2 DEF View, TypeOK, Kinds
      <4>3. QED
        BY <4>1, <4>2
    <3>6. QED
      BY <3>3, <3>5 DEF View
  <2>3. Gone'
    <3> DEFINE g == HandleOf[t]
    <3>1. /\ lockKind' = [lockKind EXCEPT ![g] = kind[t]] /\ UNCHANGED closed
          /\ raced' = IF Shared(g) /\ (closed[g] \/ lockKind[g] \notin {"none", kind[t]})
                      THEN raced \cup {g} ELSE raced
          /\ pc' = [pc EXCEPT ![t] = "idle"]
      BY <1>17 DEF Take, Return
    <3>2. ~closed[g] \/ g \in raced'
      BY <1>17, <1>4, <3>1 DEF Alone, Take
    <3>3. \A h \in Handles : h # g => lockKind'[h] = lockKind[h] /\ (h \in raced' <=> h \in raced)
      BY <1>3, <3>1 DEF TypeOK
    <3>4. \A u \in Threads : pc[u] \in {"unlock", "release", "releasing"} => pc'[u] = pc[u]
      BY <1>3, <3>1, <1>17 DEF Take, TypeOK
    <3>5. QED
      BY <1>4, <3>1, <3>2, <3>3, <3>4, StillReleasing
  <2>4. Alone'
    BY <1>2, <1>3, <1>4, <1>5, <1>17, OwnGoroutine DEF Alone, Working, TypeOK, Take, Return, canTake
  <2>5. Blocked'
    BY <1>2, <1>3, <1>4, <1>5, <1>17 DEF Blocked, canTake, Working, View, TypeOK, Take, Return, canTake
  <2>6. QED
    BY <1>1, <2>1, <2>2, <2>3, <2>4, <2>5 DEF ViewInv
<1>18. ASSUME NEW t \in Threads, Fail(t)
      PROVE  ViewInv'
  <2>1. Working'
    BY <1>2, <1>3, <1>4, <1>5, <1>18 DEF Working, TypeOK, Fail, Return, lvars
  <2>2. View'
    BY <1>2, <1>3, <1>4, <1>5, <1>18 DEF View, Working, TypeOK, States, Kinds, Fail, Return, lvars
  <2>3. Gone'
    BY <1>2, <1>3, <1>4, <1>5, <1>18, StillReleasing DEF Working, View, TypeOK, Fail, Return, lvars
  <2>4. Alone'
    BY <1>2, <1>3, <1>4, <1>5, <1>18, OwnGoroutine DEF Alone, Working, TypeOK, Fail, Return, lvars
  <2>5. Blocked'
    BY <1>2, <1>3, <1>4, <1>5, <1>18 DEF Blocked, canTake, Working, View, TypeOK, Fail, Return, lvars
  <2>6. QED
    BY <1>1, <2>1, <2>2, <2>3, <2>4, <2>5 DEF ViewInv
<1>19. ASSUME NEW t \in Threads, Wait(t)
      PROVE  ViewInv'
  <2>1. Working'
    BY <1>2, <1>3, <1>4, <1>5, <1>19 DEF Working, TypeOK, Wait, Goto, lvars, cvars
  <2>2. View'
    BY <1>2, <1>3, <1>4, <1>5, <1>19 DEF View, Working, TypeOK, States, Kinds, Wait, Goto, lvars, cvars
  <2>3. Gone'
    BY <1>2, <1>3, <1>4, <1>5, <1>19, StillReleasing DEF Working, View, TypeOK, Wait, Goto, lvars, cvars
  <2>4. Alone'
    BY <1>2, <1>3, <1>4, <1>5, <1>19, OwnGoroutine DEF Alone, Working, TypeOK, Wait, Goto, lvars, cvars
  <2>5. Blocked'
    BY <1>2, <1>3, <1>4, <1>5, <1>19 DEF Blocked, canTake, Working, View, TypeOK, Wait, Goto, lvars, cvars
  <2>6. QED
    BY <1>1, <2>1, <2>2, <2>3, <2>4, <2>5 DEF ViewInv
<1>20. ASSUME NEW t \in Threads, AfterWait(t)
      PROVE  ViewInv'
  <2>1. Working'
    BY <1>2, <1>3, <1>4, <1>5, <1>20 DEF Working, TypeOK, AfterWait, Goto, Return, lvars, cvars
  <2>2. View'
    BY <1>2, <1>3, <1>4, <1>5, <1>20 DEF View, Working, TypeOK, States, Kinds, AfterWait, Goto, Return, lvars, cvars
  <2>3. Gone'
    BY <1>2, <1>3, <1>4, <1>5, <1>20, StillReleasing DEF Working, View, TypeOK, AfterWait, Goto, Return, lvars, cvars
  <2>4. Alone'
    BY <1>2, <1>3, <1>4, <1>5, <1>20, OwnGoroutine DEF Alone, Working, TypeOK, AfterWait, Goto, Return, lvars, cvars
  <2>5. Blocked'
    BY <1>2, <1>3, <1>4, <1>5, <1>20 DEF Blocked, canTake, Working, View, TypeOK, AfterWait, Goto, Return, lvars, cvars
  <2>6. QED
    BY <1>1, <2>1, <2>2, <2>3, <2>4, <2>5 DEF ViewInv
<1>21. ASSUME NEW t \in Threads, Expire(t)
      PROVE  ViewInv'
  <2>1. Working'
    BY <1>2, <1>3, <1>4, <1>5, <1>21 DEF Working, TypeOK, Expire, lvars, cvars
  <2>2. View'
    BY <1>2, <1>3, <1>4, <1>5, <1>21 DEF View, Working, TypeOK, States, Kinds, Expire, lvars, cvars
  <2>3. Gone'
    BY <1>2, <1>3, <1>4, <1>5, <1>21, StillReleasing DEF Working, View, TypeOK, Expire, lvars, cvars
  <2>4. Alone'
    BY <1>2, <1>3, <1>4, <1>5, <1>21, OwnGoroutine DEF Alone, Working, TypeOK, Expire, lvars, cvars
  <2>5. Blocked'
    BY <1>2, <1>3, <1>4, <1>5, <1>21 DEF Blocked, canTake, Working, View, TypeOK, Expire, lvars, cvars
  <2>6. QED
    BY <1>1, <2>1, <2>2, <2>3, <2>4, <2>5 DEF ViewInv
<1>22. ASSUME NEW t \in Threads, Watchdog(t)
      PROVE  ViewInv'
  <2>1. Working'
    BY <1>2, <1>3, <1>4, <1>5, <1>22 DEF Working, TypeOK, Watchdog, Woken, lvars, cvars
  <2>2. View'
    BY <1>2, <1>3, <1>4, <1>5, <1>22 DEF View, Working, TypeOK, States, Kinds, Watchdog, Woken, lvars, cvars
  <2>3. Gone'
    BY <1>2, <1>3, <1>4, <1>5, <1>22, StillReleasing DEF Working, View, TypeOK, Watchdog, Woken, lvars, cvars
  <2>4. Alone'
    BY <1>2, <1>3, <1>4, <1>5, <1>22, OwnGoroutine DEF Alone, Working, TypeOK, Watchdog, Woken, lvars, cvars
  <2>5. Blocked'
    BY <1>2, <1>3, <1>4, <1>5, <1>22 DEF Blocked, canTake, Working, View, TypeOK, Watchdog, Woken, lvars, cvars
  <2>6. QED
    BY <1>1, <2>1, <2>2, <2>3, <2>4, <2>5 DEF ViewInv
<1>23. ~PurgeDelete /\ ~PurgeClear
  BY <1>5 DEF PurgeDelete, PurgeClear, Mounted
<1>24. ~\E t \in Threads : Forget(t)
  BY <1>4 DEF Forget, Working
<1>25. QED
  BY <1>6, <1>7, <1>8, <1>9, <1>10, <1>11, <1>12, <1>13, <1>14,
     <1>15, <1>16, <1>17, <1>18, <1>19, <1>20, <1>21, <1>22, <1>23, <1>24 DEF Next, ThreadStep

\* Types and the handles' view, of every behaviour.
LEMMA SpecViewInv == Spec => []ViewInv
  BY InitViewInv, NextViewInv, PTL DEF Spec

\* While a handle holds the path exclusively no other handle holds it, for any
\* number of handles and any goroutines that share them, as far as the handles
\* themselves can tell.
THEOREM HandlesExclude == Spec => []LockExclusion
<1>1. ViewInv => LockExclusion
  <2> SUFFICES ASSUME ViewInv, Mounted PROVE LockExclusion
    BY DEF LockExclusion
  <2>1. 1 \in States
    BY FlockAssumption DEF States
  <2>2. TypeOK /\ TableExclusion /\ View
    BY DEF ViewInv, TableInv
  <2>3. ASSUME NEW g \in Handles, NEW h \in Handles, g # h, lockKind[g] = "excl"
        PROVE  lockKind[h] = "none"
    <3>1. excl[1] = g
      BY <2>2, <2>3 DEF View
    <3>2. shared[1] \subseteq {g}
      BY <2>1, <2>2, <2>3, <3>1, FlockAssumption DEF TableExclusion
    <3>3. lockKind[h] # "excl" /\ lockKind[h] # "shared"
      BY <2>2, <2>3, <3>1, <3>2 DEF View
    <3>4. lockKind[h] \in {"shared", "excl", "none"}
      BY <2>2 DEF TypeOK, Kinds
    <3>5. QED
      BY <3>3, <3>4
  <2>4. QED
    BY <2>3 DEF LockExclusion
<1>2. QED
  BY <1>1, SpecViewInv, PTL

\* What Handle.LockKind says the lock table has, so that a release gives it up; the
\* table has more only for a handle of several goroutines that raced.
THEOREM ViewIsRight == Spec => []ViewMatchesTable
<1>1. ViewInv => ViewMatchesTable
  <2> SUFFICES ASSUME ViewInv, Mounted, NEW h \in Handles
               PROVE  /\ lockKind[h] = "excl" => \E s \in States : excl[s] = h
                      /\ lockKind[h] = "shared" => \E s \in States : h \in shared[s]
                      /\ Agrees(h) \/ h \in raced
    BY DEF ViewMatchesTable
  <2>1. 1 \in States /\ None \notin Handles
    BY FlockAssumption DEF States
  <2>2. /\ \A s \in States \ {1} : shared[s] = {} /\ excl[s] = None
        /\ lockKind[h] = "excl" => excl[1] = h
        /\ lockKind[h] = "shared" => h \in shared[1]
        /\ h \notin raced /\ excl[1] = h => lockKind[h] = "excl"
        /\ h \notin raced /\ h \in shared[1] => lockKind[h] = "shared"
    BY DEF ViewInv, View
  <2>3. h \notin raced => Agrees(h)
    BY <2>1, <2>2 DEF Agrees
  <2>4. QED
    BY <2>1, <2>2, <2>3
<1>2. QED
  BY <1>1, SpecViewInv, PTL

\* A closed handle is out of the lock table once its calls have returned, unless a
\* Flock on another goroutine raced with the Close or with another Flock.
THEOREM CloseReleasesLock == Spec => []ClosedHoldsNothing
<1>1. ViewInv => ClosedHoldsNothing
  <2> SUFFICES ASSUME ViewInv, Mounted,
                      NEW h \in Handles, Over(h), h \notin raced,
                      NEW s \in States
               PROVE  ~Holds(h, s)
    BY DEF ClosedHoldsNothing
  <2>1. ~Releasing(h) /\ closed[h]
    BY DEF Over, Releasing
  <2>2. lockKind[h] = "none"
    BY <2>1 DEF ViewInv, Gone
  <2>3. QED
    BY <2>2, FlockAssumption DEF ViewInv, View, Holds
<1>2. QED
  BY <1>1, SpecViewInv, PTL

\* Nobody waits for a lock that no handle could give up any more, but for one that
\* goroutines sharing a handle left behind.
THEOREM WaitersHaveHolders == Spec => []NoStrandedWaiter
<1>1. ViewInv => NoStrandedWaiter
  <2> SUFFICES ASSUME ViewInv, Mounted, NEW t \in Threads PROVE ~Stranded(t)
    BY DEF NoStrandedWaiter
  <2>1. TypeOK /\ View /\ Working /\ Gone /\ Blocked /\ 1 \in States
    BY FlockAssumption DEF ViewInv, TableInv, States
  <2>2. SUFFICES ASSUME pc[t] = "wait" PROVE ~Stranded(t)
    BY DEF Stranded
  <2>3. st[t] = 1 /\ ~canTake(1, HandleOf[t], kind[t])
    BY <2>1, <2>2 DEF Working, Blocked
  <2>4. PICK h \in Handles \ {HandleOf[t]} : Holds(h, 1)
    BY <2>1, <2>3 DEF canTake, Holds, TypeOK
  <2>5. h \notin raced => CanRelease(h, 1)
    BY <2>1, <2>4 DEF View, Gone, Holds, CanRelease
  <2>6. QED
    BY <2>3, <2>4, <2>5 DEF Stranded
<1>2. QED
  BY <1>1, SpecViewInv, PTL

\* No handle is raced.
Unraced == raced = {}

LEMMA OwnHandlesNeverRace ==
  ASSUME \A h \in Handles : ~Shared(h)
  PROVE  Spec => []Unraced
<1>1. Init => Unraced
  BY DEF Init, Unraced
<1>2. Unraced /\ [Next]_vars => Unraced'
  BY FlockAssumption
  DEF Next, ThreadStep, Flock, Funlock, Close, Refused, Unlock, Acquire, Switch,
      ReleaseLookup, Forget, Release, StateFor, Take, Fail, Wait, AfterWait, Expire,
      Watchdog, PurgeDelete, PurgeClear, vars, Unraced
<1>3. QED
  BY <1>1, <1>2, PTL DEF Spec

\* What the comments of handles.go promise (46-48, 215-216) holds where every handle is
\* used by one goroutine: handle and table agree without exception, and a closed handle
\* holds nothing, while the path stays mounted.
THEOREM OwnHandlesAgree ==
  ASSUME \A h \in Handles : ~Shared(h)
  PROVE  Spec => [](LockTransitionsSerialised /\ CloseReleasesAll)
<1>1. Unraced /\ ViewMatchesTable /\ ClosedHoldsNothing => LockTransitionsSerialised /\ CloseReleasesAll
  BY DEF Unraced, ViewMatchesTable, ClosedHoldsNothing, LockTransitionsSerialised, CloseReleasesAll
<1>2. QED
  BY <1>1, OwnHandlesNeverRace, ViewIsRight, CloseReleasesLock, PTL
=============================================================================
