-------------------------------- MODULE Flock --------------------------------
(***************************************************************************)
(* Advisory locks of one mounted path (core/flock.go) and the handle calls *)
(* that take and give them up (Flock, Funlock, Close in core/handles.go).  *)
(*                                                                         *)
(* m.mu guards the map path -> *lockState and is held only for a lookup;   *)
(* s.mu guards one lockState.  Handle.lockKind is read and, without a      *)
(* lockState, written outside both, so these accesses are steps of their   *)
(* own: goroutines that share a handle may act on a value that has changed *)
(* since.  A purge (Unmount) drops the map entry, and the next stateFor    *)
(* makes a new lockState, while goroutines may still hold a pointer to the *)
(* old one: lockStates are numbered in the order of creation.              *)
(***************************************************************************)
EXTENDS Naturals, FiniteSets

CONSTANTS Handles,    \* open handles of the path
          Threads,    \* goroutines that call Flock, Funlock and Close
          HandleOf,   \* the handle each goroutine uses
          MaxPurges,  \* bound: how often the path is unmounted
          None        \* no handle

ASSUME FlockAssumption == /\ HandleOf \in [Threads -> Handles]
                          /\ MaxPurges \in Nat
                          /\ None \notin Handles

States == 1 .. MaxPurges + 1  \* the lockStates ever made
Kinds == {"shared", "excl"}
Labels == {"idle", "acquire", "switch", "unlock", "release", "forget", "releasing",
           "stateFor", "try", "wait", "woken"}

VARIABLES cur,      \* m.states[path]: its lockState, 0 if absent
          made,     \* how many lockStates were made
          shared,   \* s.shared of each lockState
          excl,     \* s.excl of each lockState
          lockKind, \* h.lockKind
          closed,   \* h.closed
          pc,       \* where the goroutine is
          st,       \* the lockState the call works on
          kind, nb, \* the arguments of Flock
          expired,  \* the deadline of the call passed, or its context ended
          then,     \* what follows a release: the acquisition, or the return
          purging,  \* the lockState Unmount took out of the map and still has to clear
          raced     \* auxiliary: shared handles that hold what a call took although another
                    \* call has closed the handle or given it a lock of the other kind

lvars == <<cur, made, shared, excl>>
cvars == <<kind, nb, then>>
vars == <<lvars, lockKind, closed, pc, st, cvars, expired, purging, raced>>

Init == /\ cur = 0 /\ made = 0
        /\ shared = [s \in States |-> {}]
        /\ excl = [s \in States |-> None]
        /\ lockKind = [h \in Handles |-> "none"]
        /\ closed = [h \in Handles |-> FALSE]
        /\ pc = [t \in Threads |-> "idle"]
        /\ st = [t \in Threads |-> 0]
        /\ kind = [t \in Threads |-> "shared"]
        /\ nb = [t \in Threads |-> FALSE]
        /\ expired = [t \in Threads |-> FALSE]
        /\ then = [t \in Threads |-> "return"]
        /\ purging = 0
        /\ raced = {}

-----------------------------------------------------------------------------
\* A broadcast that was left out.
Woken_None(s) == pc

\* s.cond.Broadcast()
Woken(s) == [t \in Threads |-> IF pc[t] = "wait" /\ st[t] = s THEN "woken" ELSE pc[t]]

Goto(t, l) == pc' = [pc EXCEPT ![t] = l]

\* The call returns.
Return(t, p) == /\ pc' = [p EXCEPT ![t] = "idle"]
                /\ st' = [st EXCEPT ![t] = 0]
                /\ kind' = [kind EXCEPT ![t] = "shared"]
                /\ nb' = [nb EXCEPT ![t] = FALSE]
                /\ then' = [then EXCEPT ![t] = "return"]
                /\ expired' = [expired EXCEPT ![t] = FALSE]

\* An exclusive request that overlooks the readers.
canTake_IgnoreShared(s, h, k) == excl[s] \in {None, h}

\* canTake(s, h, kind)
canTake(s, h, k) == /\ excl[s] \in {None, h}
                    /\ k = "excl" => shared[s] \subseteq {h}

-----------------------------------------------------------------------------
\* Handle.Flock(kind, nonblock) with kind # LockNone, past its closed check.
Flock(t, k, n) ==
  /\ pc[t] = "idle" /\ ~closed[HandleOf[t]]
  /\ Goto(t, "acquire")
  /\ kind' = [kind EXCEPT ![t] = k]
  /\ nb' = [nb EXCEPT ![t] = n]
  /\ UNCHANGED <<lvars, lockKind, closed, st, expired, then, purging, raced>>

\* Handle.Funlock (also Flock with LockNone), past its closed check.
Funlock(t) ==
  /\ pc[t] = "idle" /\ ~closed[HandleOf[t]]
  /\ Goto(t, "unlock")
  /\ UNCHANGED <<lvars, lockKind, closed, st, cvars, expired, purging, raced>>

\* A Close that leaves the lock to nobody.
Close_KeepsLock(t) ==
  /\ pc[t] = "idle" /\ ~closed[HandleOf[t]]
  /\ closed' = [closed EXCEPT ![HandleOf[t]] = TRUE]
  /\ UNCHANGED <<lvars, lockKind, pc, st, cvars, expired, purging, raced>>

\* Handle.Close wins the CompareAndSwap on h.closed.
Close(t) ==
  /\ pc[t] = "idle" /\ ~closed[HandleOf[t]]
  /\ closed' = [closed EXCEPT ![HandleOf[t]] = TRUE]
  /\ Goto(t, "unlock")
  /\ UNCHANGED <<lvars, lockKind, st, cvars, expired, purging, raced>>

\* Flock, Funlock and Close on a closed handle: EBUSY.
Refused(t) == pc[t] = "idle" /\ closed[HandleOf[t]] /\ UNCHANGED vars

\* Funlock and Close read h.lockKind: nothing to release, or m.release.
Unlock(t) ==
  /\ pc[t] = "unlock"
  /\ IF lockKind[HandleOf[t]] = "none"
     THEN Return(t, pc)
     ELSE Goto(t, "release") /\ UNCHANGED <<st, cvars, expired>>
  /\ UNCHANGED <<lvars, lockKind, closed, purging, raced>>

\* m.acquire reads h.lockKind: the kind is held already.
Acquire(t) ==
  /\ pc[t] = "acquire"
  /\ IF lockKind[HandleOf[t]] = kind[t]
     THEN Return(t, pc)
     ELSE Goto(t, "switch") /\ UNCHANGED <<st, cvars, expired>>
  /\ UNCHANGED <<lvars, lockKind, closed, purging, raced>>

\* An upgrade or downgrade that does not release first.
Switch_NoRelease(t) ==
  /\ pc[t] = "switch"
  /\ Goto(t, "stateFor")
  /\ UNCHANGED <<lvars, lockKind, closed, st, cvars, expired, purging, raced>>

\* m.acquire reads h.lockKind again: another kind is held and is released first.
Switch(t) ==
  /\ pc[t] = "switch"
  /\ \/ /\ lockKind[HandleOf[t]] # "none"
        /\ Goto(t, "release")
        /\ then' = [then EXCEPT ![t] = "acquire"]
     \/ /\ lockKind[HandleOf[t]] = "none"
        /\ Goto(t, "stateFor")
        /\ UNCHANGED then
  /\ UNCHANGED <<lvars, lockKind, closed, st, kind, nb, expired, purging, raced>>

\* m.release returns: to the acquisition that called it, or to the caller.
ReleaseReturn(t, p) ==
  IF then[t] = "acquire"
  THEN /\ pc' = [p EXCEPT ![t] = "stateFor"]
       /\ st' = [st EXCEPT ![t] = 0]
       /\ UNCHANGED <<cvars, expired>>
  ELSE Return(t, p)

\* m.release, under m.mu: find the lockState ...
ReleaseLookup(t) ==
  /\ pc[t] = "release"
  /\ st' = [st EXCEPT ![t] = cur]
  /\ Goto(t, IF cur = 0 THEN "forget" ELSE "releasing")
  /\ UNCHANGED <<lvars, lockKind, closed, cvars, expired, purging, raced>>

\* ... and without one only reset h.lockKind, under no lock ...
Forget(t) ==
  /\ pc[t] = "forget"
  /\ lockKind' = [lockKind EXCEPT ![HandleOf[t]] = "none"]
  /\ ReleaseReturn(t, pc)
  /\ UNCHANGED <<lvars, closed, purging, raced>>

\* ... or, under s.mu, give up what h.lockKind says and wake the waiters.
Release(t) ==
  LET h == HandleOf[t]  s == st[t] IN
  /\ pc[t] = "releasing"
  /\ shared' = IF lockKind[h] = "shared" THEN [shared EXCEPT ![s] = @ \ {h}] ELSE shared
  /\ excl' = IF lockKind[h] = "excl" /\ excl[s] = h THEN [excl EXCEPT ![s] = None] ELSE excl
  /\ lockKind' = [lockKind EXCEPT ![h] = "none"]
  /\ ReleaseReturn(t, Woken(s))
  /\ raced' = IF excl'[s] = h \/ h \in shared'[s] THEN raced ELSE raced \ {h}
  /\ UNCHANGED <<cur, made, closed, purging>>

\* m.stateFor, under m.mu: the lockState of the path, made if there is none.
StateFor(t) ==
  /\ pc[t] = "stateFor"
  /\ made' = IF cur = 0 THEN made + 1 ELSE made
  /\ cur' = IF cur = 0 THEN made' ELSE cur
  /\ st' = [st EXCEPT ![t] = cur']
  /\ Goto(t, "try")
  /\ UNCHANGED <<shared, excl, lockKind, closed, cvars, expired, purging, raced>>

\* Several goroutines use h.
Shared(h) == \E t, u \in Threads : t # u /\ HandleOf[t] = h /\ HandleOf[u] = h

\* The loop of m.acquire, under s.mu: take the lock, whatever happened to h.closed
\* and h.lockKind since the call read them ...
Take(t) ==
  LET h == HandleOf[t]  s == st[t] IN
  /\ pc[t] = "try" /\ canTake(s, h, kind[t])
  /\ shared' = IF kind[t] = "shared" THEN [shared EXCEPT ![s] = @ \cup {h}] ELSE shared
  /\ excl' = IF kind[t] = "excl" THEN [excl EXCEPT ![s] = h] ELSE excl
  /\ lockKind' = [lockKind EXCEPT ![h] = kind[t]]
  /\ Return(t, pc)
  /\ raced' = IF Shared(h) /\ (closed[h] \/ lockKind[h] \notin {"none", kind[t]})
              THEN raced \cup {h} ELSE raced
  /\ UNCHANGED <<cur, made, closed, purging>>

\* ... or fail: EBUSY for a nonblocking call, ETIMEDOUT once the deadline passed ...
Fail(t) ==
  /\ pc[t] = "try" /\ ~canTake(st[t], HandleOf[t], kind[t])
  /\ nb[t] \/ expired[t]
  /\ Return(t, pc)
  /\ UNCHANGED <<lvars, lockKind, closed, purging, raced>>

\* ... or start a watchdog and s.cond.Wait().  A context that was cancelled is
\* noticed only after the wait, so an expired call may get here as well.
Wait(t) ==
  /\ pc[t] = "try" /\ ~canTake(st[t], HandleOf[t], kind[t]) /\ ~nb[t]
  /\ Goto(t, "wait")
  /\ UNCHANGED <<lvars, lockKind, closed, st, cvars, expired, purging, raced>>

\* After the wait: ETIMEDOUT if the time is up, even if the lock is free by now.
AfterWait(t) ==
  /\ pc[t] = "woken"
  /\ IF expired[t] THEN Return(t, pc)
                   ELSE Goto(t, "try") /\ UNCHANGED <<st, cvars, expired>>
  /\ UNCHANGED <<lvars, lockKind, closed, purging, raced>>

\* The deadline of a blocking call passes, or its context ends.
Expire(t) ==
  /\ pc[t] \in {"try", "wait", "woken"} /\ ~nb[t] /\ ~expired[t]
  /\ expired' = [expired EXCEPT ![t] = TRUE]
  /\ UNCHANGED <<lvars, lockKind, closed, pc, st, cvars, purging, raced>>

\* The watchdog goroutine of a wait whose time is up broadcasts under s.mu.
Watchdog(t) ==
  /\ pc[t] = "wait" /\ expired[t]
  /\ pc' = Woken(st[t])
  /\ UNCHANGED <<lvars, lockKind, closed, st, cvars, expired, purging, raced>>

\* Unmount: m.purge takes the lockState out of the map under m.mu ...
PurgeDelete ==
  /\ purging = 0 /\ cur # 0 /\ cur <= MaxPurges
  /\ purging' = cur
  /\ cur' = 0
  /\ UNCHANGED <<made, shared, excl, lockKind, closed, pc, st, cvars, expired, raced>>

\* ... and then, under s.mu, clears its holders and wakes its waiters.
PurgeClear ==
  /\ purging # 0
  /\ shared' = [shared EXCEPT ![purging] = {}]
  /\ excl' = [excl EXCEPT ![purging] = None]
  /\ pc' = Woken(purging)
  /\ purging' = 0
  /\ UNCHANGED <<cur, made, lockKind, closed, st, cvars, expired, raced>>

-----------------------------------------------------------------------------
ThreadStep(t) == \/ Unlock(t) \/ Acquire(t) \/ Switch(t)
                 \/ ReleaseLookup(t) \/ Forget(t) \/ Release(t) \/ StateFor(t)
                 \/ Take(t) \/ Fail(t) \/ Wait(t) \/ AfterWait(t)

Next == \/ \E t \in Threads : \/ \E k \in Kinds, n \in BOOLEAN : Flock(t, k, n)
                              \/ Funlock(t) \/ Close(t) \/ Refused(t) \/ ThreadStep(t)
                              \/ Expire(t) \/ Watchdog(t)
        \/ PurgeDelete \/ PurgeClear

Spec == Init /\ [][Next]_vars

\* Goroutines are scheduled, time passes and the watchdogs run.
Fairness == /\ \A t \in Threads : /\ WF_vars(ThreadStep(t))
                                  /\ WF_vars(Expire(t))
                                  /\ WF_vars(Watchdog(t))
            /\ WF_vars(PurgeClear)

FairSpec == Spec /\ Fairness

-----------------------------------------------------------------------------
TypeOK == /\ cur \in 0 .. MaxPurges + 1 /\ made \in 0 .. MaxPurges + 1
          /\ shared \in [States -> SUBSET Handles]
          /\ excl \in [States -> Handles \cup {None}]
          /\ lockKind \in [Handles -> Kinds \cup {"none"}]
          /\ closed \in [Handles -> BOOLEAN]
          /\ pc \in [Threads -> Labels]
          /\ st \in [Threads -> 0 .. MaxPurges + 1]
          /\ kind \in [Threads -> Kinds]
          /\ nb \in [Threads -> BOOLEAN]
          /\ expired \in [Threads -> BOOLEAN]
          /\ then \in [Threads -> {"acquire", "return"}]
          /\ purging \in 0 .. MaxPurges
          /\ raced \subseteq Handles

\* An exclusive holder excludes every other holder of the same lockState,
\* whatever goroutines share a handle and whenever the path is unmounted.
TableExclusion == \A s \in States : excl[s] # None => shared[s] \subseteq {excl[s]}

\* The path has not been unmounted since the first lockState was made.
Mounted == cur = made /\ made <= 1

\* "an exclusive lock blocks all other holders": what the handles believe, while the
\* path stays mounted.  If one holds it exclusively, no other one holds it at all,
\* whatever goroutines share the handles.
LockExclusion ==
  Mounted => \A g, h \in Handles : g # h /\ lockKind[g] = "excl" => lockKind[h] = "none"

\* h holds lockState s.
Holds(h, s) == excl[s] = h \/ h \in shared[s]

\* The lock table has h as its h.lockKind says, and in no other way.
Agrees(h) == /\ lockKind[h] = "excl" <=> \E s \in States : excl[s] = h
             /\ lockKind[h] = "shared" <=> \E s \in States : h \in shared[s]

\* While the path stays mounted, what a handle believes to hold the lock table has,
\* also when goroutines share it; and the table has more than that, which no release
\* would give up, only for a handle of several goroutines, two of which took locks of
\* different kinds or one of which closed it (flock.go:66-80).
ViewMatchesTable ==
  Mounted => \A h \in Handles :
    /\ lockKind[h] = "excl" => \E s \in States : excl[s] = h
    /\ lockKind[h] = "shared" => \E s \in States : h \in shared[s]
    /\ Agrees(h) \/ h \in raced

\* "Handles are goroutine-safe across method calls - internal mutexes serialise the
\* buffer state and lock transitions" (handles.go:46-48): however goroutines share
\* them, handle and table agree.
LockTransitionsSerialised == Mounted => \A h \in Handles : Agrees(h)

\* A closed handle on which no call is left.
Over(h) == closed[h] /\ \A t \in Threads : HandleOf[t] = h => pc[t] = "idle"

\* Once a handle is closed and no call on it is left, the lockState of the mount does
\* not know it, unless a Flock that was past its closed check took the lock after the
\* Close, or two calls of the handle took different kinds.
ClosedHoldsNothing ==
  Mounted => \A h \in Handles : Over(h) /\ h \notin raced => \A s \in States : ~Holds(h, s)

\* "Close releases the handle, [...] releasing any advisory lock the handle still
\* owns" (handles.go:215-216), for a handle used from several goroutines.
CloseReleasesAll == Mounted => \A h \in Handles : Over(h) => \A s \in States : ~Holds(h, s)

\* A call that will release the lock of h is on its way.
Releasing(h) == \E t \in Threads : HandleOf[t] = h /\ pc[t] \in {"unlock", "release", "releasing"}

\* h holds lockState s and a call of h can or will give it up: h.lockKind says what to
\* release, and h is open or its Close is under way.
CanRelease(h, s) == /\ \/ lockKind[h] = "excl" /\ excl[s] = h
                       \/ lockKind[h] = "shared" /\ h \in shared[s]
                    /\ closed[h] => Releasing(h)

\* A goroutine waits, no purge is about to wake it, and every other handle that holds
\* the lockState it waits on is one that nobody can make release it.
Stranded(t) ==
  /\ pc[t] = "wait" /\ purging # st[t]
  /\ \A h \in Handles \ {HandleOf[t]} : ~CanRelease(h, st[t]) /\ ~(Holds(h, st[t]) /\ h \in raced)

\* While the path stays mounted, a goroutine waits only for a lock that somebody can
\* still release, or that a racing call left behind.
NoStrandedWaiter == Mounted => \A t \in Threads : ~Stranded(t)

\* No blocking Flock hangs: the deadlock timeout ends every wait.
FlockReturns == \A t \in Threads : pc[t] # "idle" ~> pc[t] = "idle"
=============================================================================
