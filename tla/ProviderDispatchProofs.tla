----------------------- MODULE ProviderDispatchProofs -----------------------
(***************************************************************************)
(* The circuit breaker opens after FailureThreshold failures in a row, and *)
(* only then.  Both follow from one invariant that ties b.failures to the  *)
(* failures recorded since the last success, whatever calls are in flight. *)
(* And a serial writeback mount shows the result of the last write,        *)
(* because the serial queue is left only after the result is stored.       *)
(***************************************************************************)
EXTENDS ProviderDispatch, TLAPS

\* Types of the breaker, and what b.failures counts: exactly the failures in a
\* row while closed, and never more than that while half-open.
BreakerInv ==
  /\ state \in {"closed", "open", "half"}
  /\ failures \in Nat /\ successes \in Nat /\ consec \in 0 .. FailureThreshold
  /\ state # "open" => failures < FailureThreshold
  /\ state = "closed" => failures = consec
  /\ (state = "half" /\ HalfOpenMaxCalls = 1) => failures <= consec

\* A step that opens the breaker when it is closed, or half-open with one success
\* to close it.
Opens == /\ state = "closed" \/ (state = "half" /\ HalfOpenMaxCalls = 1)
         /\ state' = "open"

-----------------------------------------------------------------------------
\* A recorded success (recordBreakerResult with true) keeps the invariant.
LEMMA SuccessKeeps == BreakerInv /\ recordSuccess => BreakerInv'
  <1> SUFFICES ASSUME BreakerInv, recordSuccess PROVE BreakerInv'
    OBVIOUS
  <1>1. CASE state = "half" /\ successes + 1 < HalfOpenMaxCalls
    BY <1>1, DispatchAssumption DEF BreakerInv, recordSuccess
  <1>2. CASE state = "half" /\ successes + 1 >= HalfOpenMaxCalls
    BY <1>2, DispatchAssumption DEF BreakerInv, recordSuccess
  <1>3. CASE state # "half"
    BY <1>3, DispatchAssumption DEF BreakerInv, recordSuccess
  <1> QED
    BY <1>1, <1>2, <1>3, DispatchAssumption DEF BreakerInv

\* A recorded failure keeps the invariant, and one that opens the breaker is the
\* last of FailureThreshold failures in a row.
LEMMA FailureKeeps ==
  BreakerInv /\ recordFailure =>
    /\ BreakerInv'
    /\ Opens => consec' = FailureThreshold
  <1> SUFFICES ASSUME BreakerInv, recordFailure
               PROVE /\ BreakerInv'
                     /\ Opens => consec' = FailureThreshold
    OBVIOUS
  <1>1. CASE failures + 1 >= FailureThreshold
    BY <1>1, DispatchAssumption DEF BreakerInv, recordFailure, Opens
  <1>2. CASE failures + 1 < FailureThreshold
    BY <1>2, DispatchAssumption DEF BreakerInv, recordFailure, Opens
  <1> QED
    BY <1>1, <1>2, DispatchAssumption DEF BreakerInv

\* Letting a call pass (breakerOpen answering false) keeps the invariant.
LEMMA PassKeeps == BreakerInv /\ breakerPasses => BreakerInv' /\ ~(state # "open" /\ state' = "open")
  BY DispatchAssumption DEF BreakerInv, breakerPasses, breaker

\* Steps that leave the breaker alone keep the invariant.
LEMMA IdleKeeps == BreakerInv /\ UNCHANGED <<state, failures, successes, consec>> =>
                     BreakerInv' /\ ~(state # "open" /\ state' = "open")
  BY DEF BreakerInv

\* Every step of the dispatch keeps the invariant, and opens the breaker only on the
\* last of FailureThreshold failures in a row.
LEMMA StepKeeps ==
  BreakerInv /\ [Next]_vars =>
    /\ BreakerInv'
    /\ Opens => consec' = FailureThreshold
  <1> SUFFICES ASSUME BreakerInv, [Next]_vars
               PROVE /\ BreakerInv'
                     /\ Opens => consec' = FailureThreshold
    OBVIOUS
  <1>1. CASE UNCHANGED vars
    BY <1>1, IdleKeeps DEF vars, breaker, Opens
  <1>2. CASE Cool \/ CacheExpires
    BY <1>2, IdleKeeps DEF Cool, CacheExpires, breaker, Opens
  <1>3. ASSUME NEW t \in Threads, Reject(t)
        PROVE UNCHANGED <<state, failures, successes, consec>>
    BY <1>3 DEF Reject, breakerOpen, breaker
  <1>4. ASSUME NEW t \in Threads, Enter(t) \/ Prepare(t) \/ AnswerFails(t) \/ Store(t)
                                  \/ \E r \in Results : Answer(t, r)
        PROVE UNCHANGED <<state, failures, successes, consec>>
    BY <1>4 DEF Enter, Prepare, AnswerFails, Store, Answer, breaker
  <1>5. ASSUME NEW t \in Threads, NEW o \in Ops, Admit(t, o)
        PROVE BreakerInv' /\ ~(state # "open" /\ state' = "open")
    BY <1>5, PassKeeps DEF Admit
  <1>6. ASSUME NEW t \in Threads, Record(t)
        PROVE /\ BreakerInv'
              /\ Opens => consec' = FailureThreshold
    <2>1. CASE UNCHANGED breaker
      BY <2>1, IdleKeeps DEF breaker, Opens
    <2>2. CASE recordSuccess
      <3>1. ~(state # "open" /\ state' = "open")
        BY <2>2 DEF recordSuccess
      <3> QED
        BY <2>2, <3>1, SuccessKeeps DEF Opens
    <2>3. CASE recordFailure
      BY <2>3, FailureKeeps
    <2> QED
      BY <1>6, <2>1, <2>2, <2>3 DEF Record
  <1> QED
    BY <1>1, <1>2, <1>3, <1>4, <1>5, <1>6, IdleKeeps DEF Next, CallStep, Opens

\* The invariant holds in every reachable state.
THEOREM BreakerCounts == Spec => []BreakerInv
  <1>1. Init => BreakerInv
    BY DispatchAssumption DEF Init, BreakerInv
  <1>2. BreakerInv /\ [Next]_vars => BreakerInv'
    BY StepKeeps DEF Opens
  <1> QED
    BY <1>1, <1>2, PTL DEF Spec

\* After FailureThreshold recorded failures in a row the breaker is not closed,
\* for every threshold, number of successes needed, and set of goroutines.
THEOREM FailuresAlwaysOpen == Spec => []FailuresOpen
  <1>1. BreakerInv => FailuresOpen
    BY DispatchAssumption DEF BreakerInv, FailuresOpen
  <1> QED
    BY <1>1, BreakerCounts, PTL

\* The breaker opens only after FailureThreshold recorded failures in a row, from
\* half-open too if one success is enough to close it.
THEOREM OpensOnlyOnConsecutive == Spec => OpensOnConsecutive
  <1>1. BreakerInv /\ [Next]_vars
          => [state = "closed" \/ (state = "half" /\ HalfOpenMaxCalls = 1)
                => (state' = "open" => consec' = FailureThreshold)]_vars
    BY StepKeeps DEF Opens
  <1> QED
    BY <1>1, BreakerCounts, PTL DEF Spec, OpensOnConsecutive

-----------------------------------------------------------------------------
\* Results of writes, in the writeback store and in the history.
Outcome == {None} \cup [by : Threads, res : {"data", "nil", "error"}]

\* The types that the argument about the writeback store uses.
CallTypes == /\ pc \in [Threads -> {"idle", "queue", "invoke", "provider", "record", "store"}]
             /\ op \in [Threads -> {"none", "read", "write", "list"}]
             /\ res \in [Threads -> {"data", "nil", "error"}]
             /\ serial \in Threads \cup {None} /\ cached \in BOOLEAN /\ fails \in Nat
             /\ stored \in Outcome /\ last \in Outcome

\* The write of goroutine t is past the lock of the serial queue.
Inside(t) == op[t] = "write" /\ pc[t] \in {"invoke", "provider", "record", "store"}

\* A write of a serial mount that is inside holds the queue, and only writes store.
InQueue == /\ Serial => \A t \in Threads : Inside(t) => serial = t
           /\ \A t \in Threads : pc[t] = "store" => op[t] = "write"

\* The write of t has its result and has not stored it.
Unstored(t) == op[t] = "write" /\ pc[t] \in {"record", "store"}

\* What the write that is about to store will leave is what the last write had; with
\* none on its way the store has it already.
StoreInv ==
  Serial /\ Writeback =>
    /\ \A t \in Threads : Unstored(t) =>
         IF res[t] = "nil" THEN stored = last ELSE last = [by |-> t, res |-> res[t]]
    /\ Quiet => stored = last

WriteInv == CallTypes /\ InQueue /\ StoreInv

LEMMA InitWriteInv == Init => WriteInv
<1> SUFFICES ASSUME Init PROVE WriteInv
  OBVIOUS
<1>1. CallTypes
  BY DEF Init, CallTypes, Outcome
<1>2. InQueue
  BY DEF Init, InQueue, Inside
<1>3. StoreInv
  BY DEF Init, StoreInv, Unstored
<1>4. QED
  BY <1>1, <1>2, <1>3 DEF WriteInv

\* At most one write of a serial mount is inside.
LEMMA OneInside ==
  ASSUME CallTypes, InQueue, Serial, NEW t \in Threads, NEW u \in Threads, Inside(t), Inside(u)
  PROVE  t = u
  BY DEF InQueue

\* A call that gets its answer: a read or a listing touches nothing that is stored, and
\* a write is the only one inside.
LEMMA InvokedKeeps ==
  ASSUME WriteInv, NEW t \in Threads, NEW r \in {"data", "nil", "error"},
         pc[t] \in {"invoke", "provider"}, Invoked(t, r),
         UNCHANGED <<serial, stored, op>>, cached' \in BOOLEAN, fails' \in Nat
  PROVE  WriteInv'
<1>1. CallTypes /\ InQueue /\ StoreInv
  BY DEF WriteInv
<1>2. /\ pc' = [pc EXCEPT ![t] = "record"] /\ res' = [res EXCEPT ![t] = r]
      /\ last' = IF op[t] = "write" /\ r # "nil" THEN [by |-> t, res |-> r] ELSE last
  BY DEF Invoked, Goto
<1>3. CallTypes'
  BY <1>1, <1>2 DEF CallTypes, Outcome
<1>4. InQueue'
  BY <1>1, <1>2 DEF CallTypes, InQueue, Inside
<1>5. StoreInv'
  <2> SUFFICES ASSUME Serial, Writeback
               PROVE  StoreInv'
    BY DEF StoreInv
  <2>1. CASE op[t] = "write"
    <3>1. \A u \in Threads : ~Unstored(u)
      BY <1>1, <2>1, OneInside DEF Inside, Unstored
    <3>2. stored = last
      BY <1>1, <3>1 DEF StoreInv, Quiet, Unstored
    <3>3. \A u \in Threads : Unstored(u)' => u = t
      BY <1>1, <1>2, <3>1 DEF Unstored, CallTypes
    <3>4. Unstored(t)' /\ res'[t] = r
      BY <1>1, <1>2, <2>1 DEF Unstored, CallTypes
    <3>5. ~Quiet'
      BY <3>4 DEF Quiet, Unstored
    <3>6. QED
      BY <1>2, <2>1, <3>2, <3>3, <3>4, <3>5 DEF StoreInv
  <2>2. CASE op[t] # "write"
    <3>1. \A u \in Threads : (Unstored(u)' <=> Unstored(u)) /\ (Unstored(u) => res'[u] = res[u])
      BY <1>1, <1>2, <2>2 DEF Unstored, CallTypes
    <3>2. Quiet' <=> Quiet
      BY <3>1 DEF Quiet, Unstored
    <3>3. QED
      BY <1>1, <1>2, <2>2, <3>1, <3>2 DEF StoreInv
  <2>3. QED
    BY <2>1, <2>2
<1>6. QED
  BY <1>3, <1>4, <1>5 DEF WriteInv

\* A write leaves the serial queue with its result stored.
LEMMA StoreKeeps ==
  ASSUME WriteInv, NEW t \in Threads, Store(t)
  PROVE  WriteInv'
<1>1. CallTypes /\ InQueue /\ StoreInv /\ Unstored(t)
  BY DEF WriteInv, Store, InQueue, Unstored
<1>2. /\ pc' = [pc EXCEPT ![t] = "idle"] /\ op' = [op EXCEPT ![t] = "none"]
      /\ res' = [res EXCEPT ![t] = "nil"] /\ UNCHANGED <<cached, fails, last>>
      /\ stored' = IF Writeback /\ res[t] # "nil" THEN [by |-> t, res |-> res[t]] ELSE stored
      /\ serial' = IF Serial THEN None ELSE serial
  BY DEF Store, Goto
<1>3. CallTypes'
  BY <1>1, <1>2 DEF CallTypes, Outcome
<1>4. Serial => \A u \in Threads : ~Inside(u)'
  <2> SUFFICES ASSUME Serial, NEW u \in Threads, Inside(u)'
               PROVE  FALSE
    OBVIOUS
  <2>1. Inside(t) /\ (u # t => Inside(u))
    BY <1>1, <1>2 DEF Inside, Unstored, CallTypes
  <2>2. u # t
    BY <1>1, <1>2 DEF Inside, CallTypes
  <2>3. QED
    BY <1>1, <2>1, <2>2, OneInside
<1>5. InQueue'
  <2>1. \A u \in Threads : pc'[u] = "store" => op'[u] = "write"
    BY <1>1, <1>2 DEF InQueue, CallTypes
  <2>2. QED
    BY <1>4, <2>1 DEF InQueue
<1>6. StoreInv'
  <2> SUFFICES ASSUME Serial, Writeback
               PROVE  StoreInv'
    BY DEF StoreInv
  <2>1. \A u \in Threads : ~Unstored(u)'
    BY <1>4 DEF Inside, Unstored
  <2>2. stored' = last'
    BY <1>1, <1>2 DEF StoreInv
  <2>3. QED
    BY <2>1, <2>2 DEF StoreInv
<1>7. QED
  BY <1>3, <1>5, <1>6 DEF WriteInv

\* A step that neither brings a write its result nor stores one.
LEMMA OtherKeeps ==
  ASSUME WriteInv, CallTypes', InQueue', UNCHANGED <<stored, last>>,
         \A u \in Threads : (Unstored(u)' <=> Unstored(u)) /\ (Unstored(u) => res'[u] = res[u])
  PROVE  WriteInv'
<1>1. Quiet' <=> Quiet
  BY DEF Quiet, Unstored
<1>2. StoreInv'
  BY <1>1 DEF WriteInv, StoreInv
<1>3. QED
  BY <1>2 DEF WriteInv

LEMMA NextWriteInv == WriteInv /\ [Next]_vars => WriteInv'
<1> SUFFICES ASSUME WriteInv, [Next]_vars PROVE WriteInv'
  OBVIOUS
<1>0. CallTypes /\ InQueue
  BY DEF WriteInv
<1>1. CASE UNCHANGED vars \/ Cool \/ CacheExpires \/ \E t \in Threads : Reject(t)
  <2>1. UNCHANGED <<serial, stored, pc, op, res, fails, last>> /\ cached' \in BOOLEAN
    BY <1>0, <1>1 DEF vars, Cool, CacheExpires, Reject, CallTypes
  <2>2. CallTypes' /\ InQueue' /\ \A u \in Threads : Unstored(u)' <=> Unstored(u)
    BY <1>0, <2>1 DEF CallTypes, InQueue, Inside, Unstored
  <2>3. QED
    BY <2>1, <2>2, OtherKeeps
<1>2. ASSUME NEW t \in Threads, NEW o \in Ops, Admit(t, o)
      PROVE  WriteInv'
  <2>1. /\ pc[t] = "idle" /\ UNCHANGED <<serial, cached, stored, res, fails, last>>
        /\ op' = [op EXCEPT ![t] = o] /\ o \in {"read", "write", "list"}
        /\ pc' = [pc EXCEPT ![t] = IF o = "write" /\ Serial THEN "queue" ELSE "invoke"]
    BY <1>2, DispatchAssumption DEF Admit, Goto
  <2>2. CallTypes'
    BY <1>0, <2>1 DEF CallTypes
  <2>3. InQueue'
    BY <1>0, <2>1 DEF CallTypes, InQueue, Inside
  <2>4. \A u \in Threads : Unstored(u)' <=> Unstored(u)
    BY <1>0, <2>1 DEF CallTypes, Unstored
  <2>5. QED
    BY <2>1, <2>2, <2>3, <2>4, OtherKeeps
<1>3. ASSUME NEW t \in Threads, Enter(t)
      PROVE  WriteInv'
  <2>1. /\ pc[t] = "queue" /\ serial = None /\ serial' = t /\ pc' = [pc EXCEPT ![t] = "invoke"]
        /\ UNCHANGED <<cached, stored, op, res, fails, last>>
    BY <1>3 DEF Enter, Goto
  <2>2. CallTypes'
    BY <1>0, <2>1 DEF CallTypes
  <2>3. InQueue'
    BY <1>0, <2>1, DispatchAssumption DEF CallTypes, InQueue, Inside
  <2>4. \A u \in Threads : Unstored(u)' <=> Unstored(u)
    BY <1>0, <2>1 DEF CallTypes, Unstored
  <2>5. QED
    BY <2>1, <2>2, <2>3, <2>4, OtherKeeps
<1>4. ASSUME NEW t \in Threads, Prepare(t)
      PROVE  WriteInv'
  <2>1. CASE \E r \in {"data", "error"} : Invoked(t, r)
    <3>1. pc[t] = "invoke" /\ UNCHANGED <<serial, cached, stored, op>>
      BY <1>4 DEF Prepare
    <3>2. cached' \in BOOLEAN /\ fails' \in Nat
      BY <1>0, <1>4 DEF Prepare, CallTypes
    <3>3. QED
      BY <2>1, <3>1, <3>2, InvokedKeeps
  <2>2. CASE Goto(t, "provider") /\ UNCHANGED <<res, last, fails>>
    <3>1. /\ pc[t] = "invoke" /\ pc' = [pc EXCEPT ![t] = "provider"]
          /\ UNCHANGED <<serial, cached, stored, op, res, last, fails>>
      BY <1>4, <2>2 DEF Prepare, Goto
    <3>2. CallTypes' /\ InQueue'
      BY <1>0, <3>1 DEF CallTypes, InQueue, Inside
    <3>3. \A u \in Threads : Unstored(u)' <=> Unstored(u)
      BY <1>0, <3>1 DEF CallTypes, Unstored
    <3>4. QED
      BY <3>1, <3>2, <3>3, OtherKeeps
  <2>3. QED
    BY <1>4, <2>1, <2>2 DEF Prepare
<1>5. ASSUME NEW t \in Threads, AnswerFails(t) \/ \E r \in Results : Answer(t, r)
      PROVE  WriteInv'
  <2>1. PICK r \in {"data", "nil", "error"} : Invoked(t, r)
    BY <1>5, DispatchAssumption DEF AnswerFails, Answer
  <2>2. pc[t] = "provider" /\ UNCHANGED <<serial, stored, op>>
    BY <1>5 DEF AnswerFails, Answer
  <2>3. cached' \in BOOLEAN
    BY <1>0, <1>5, Zenon DEF AnswerFails, Answer, CallTypes
  <2>4. fails' \in Nat
    BY <1>0, <1>5 DEF AnswerFails, Answer, CallTypes
  <2>5. QED
    BY <2>1, <2>2, <2>3, <2>4, InvokedKeeps
<1>6. ASSUME NEW t \in Threads, Record(t)
      PROVE  WriteInv'
  <2>1. /\ pc[t] = "record" /\ UNCHANGED <<serial, cached, stored, fails, last>>
        /\ pc' = [pc EXCEPT ![t] = IF op[t] = "write" THEN "store" ELSE "idle"]
        /\ op' = [op EXCEPT ![t] = IF op[t] = "write" THEN op[t] ELSE "none"]
        /\ res' = [res EXCEPT ![t] = IF op[t] = "write" THEN res[t] ELSE "nil"]
    BY <1>0, <1>6 DEF Record, Goto, CallTypes
  <2>2. CallTypes'
    BY <1>0, <2>1 DEF CallTypes
  <2>3. InQueue'
    BY <1>0, <2>1 DEF CallTypes, InQueue, Inside
  <2>4. \A u \in Threads : (Unstored(u)' <=> Unstored(u)) /\ (Unstored(u) => res'[u] = res[u])
    BY <1>0, <2>1 DEF CallTypes, Unstored
  <2>5. QED
    BY <2>1, <2>2, <2>3, <2>4, OtherKeeps
<1>7. QED
  BY <1>1, <1>2, <1>3, <1>4, <1>5, <1>6, StoreKeeps DEF Next, CallStep

\* While no write is between its provider and the store, the writeback store of a
\* serial mount has the result of the last write that had one: for any number of
\* goroutines that write, read and list, and whatever the breaker does.
THEOREM SerialStoresLast == Spec => []StoredIsLast
<1>1. Spec => []WriteInv
  BY InitWriteInv, NextWriteInv, PTL DEF Spec
<1>2. WriteInv => StoredIsLast
  BY DEF WriteInv, StoreInv, StoredIsLast
<1>3. QED
  BY <1>1, <1>2, PTL
=============================================================================
