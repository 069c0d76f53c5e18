-------------------------- MODULE ProviderDispatch --------------------------
(***************************************************************************)
(* Calls of one provider through API mounts (core/filesystem.go): the      *)
(* circuit breaker, the serial queue of the mount, the provider cache and  *)
(* the writeback store.  Each goroutine runs Read, Write or the listing of *)
(* a dynamic directory; an Async read is the same steps in a goroutine of  *)
(* its own.  b.mu is held inside breakerOpen and recordBreakerResult only, *)
(* so a call that was admitted runs on whatever the breaker does next.     *)
(***************************************************************************)
EXTENDS Naturals

CONSTANTS Threads,          \* goroutines that use the mounts
          Ops,              \* subset of {"read", "write", "list"}
          Results,          \* what provider.Invoke returns: subset of {"data", "nil"}
          FailureThreshold, HalfOpenMaxCalls, \* CircuitBreakerConfig, enabled
          Serial,           \* MountEntry.Serial
          Writeback,        \* MountEntry.Writeback
          CacheTTL,         \* the read capability has a CacheTTL > 0
          MaxFails,         \* bound: calls that fail (provider or ParamsFn)
          None

ASSUME DispatchAssumption ==
  /\ FailureThreshold \in Nat \ {0} /\ HalfOpenMaxCalls \in Nat \ {0}
  /\ Ops \subseteq {"read", "write", "list"} /\ Results \subseteq {"data", "nil"}
  /\ Serial \in BOOLEAN /\ Writeback \in BOOLEAN /\ CacheTTL \in BOOLEAN
  /\ MaxFails \in Nat /\ None \notin Threads

VARIABLES state, failures, successes, \* the circuitBreaker: closed, open or half
          cooled,  \* ResetTimeout has passed since b.lastFailure (looked at when open)
          serial,  \* who is inside the serial queue
          cached,  \* the provider cache holds a fresh result for the read
          stored,  \* fs.writeback of the path: whose write, and its result
          pc,      \* idle, queue, invoke, provider, record, store
          op,      \* the operation of the call
          res,     \* the result of the invocation: data, nil, error
          fails,   \* calls that failed
          consec,  \* failures recorded since the last success, at most FailureThreshold
          last     \* the last write that came back with data or an error, and which

breaker == <<state, failures, successes, cooled, consec>>
vars == <<breaker, serial, cached, stored, pc, op, res, fails, last>>

\* breakerFor makes a closed breaker.
Init == /\ state = "closed" /\ failures = 0 /\ successes = 0 /\ cooled = FALSE
        /\ serial = None /\ cached = FALSE /\ stored = None
        /\ pc = [t \in Threads |-> "idle"]
        /\ op = [t \in Threads |-> "none"]
        /\ res = [t \in Threads |-> "nil"]
        /\ fails = 0 /\ consec = 0 /\ last = None

-----------------------------------------------------------------------------
Goto(t, l) == pc' = [pc EXCEPT ![t] = l]

\* A breaker whose rejections prolong its own timeout.
breakerOpen_Prolongs ==
  /\ state = "open" /\ cooled' = FALSE
  /\ UNCHANGED <<state, failures, successes, consec>>

\* providerFor refuses the call with ECOMM: the breaker is open.
breakerOpen ==
  /\ state = "open" /\ ~cooled
  /\ UNCHANGED breaker

\* breakerOpen answers FALSE; after ResetTimeout an open breaker becomes half-open.
breakerPasses ==
  \/ state # "open" /\ UNCHANGED breaker
  \/ /\ state = "open" /\ cooled
     /\ state' = "half" /\ failures' = 0 /\ successes' = 0 /\ cooled' = FALSE
     /\ UNCHANGED consec

\* Read, Write and listDynamicDir up to providerFor.  A writeback mount with a
\* stored result answers a Read from it.  Writes of a serial mount queue up.
Admit(t, o) ==
  /\ pc[t] = "idle"
  /\ o = "read" /\ Writeback => stored = None
  /\ breakerPasses
  /\ op' = [op EXCEPT ![t] = o]
  /\ Goto(t, IF o = "write" /\ Serial THEN "queue" ELSE "invoke")
  /\ UNCHANGED <<serial, cached, stored, res, fails, last>>

Reject(t) ==
  /\ pc[t] = "idle"
  /\ breakerOpen
  /\ UNCHANGED <<serial, cached, stored, pc, op, res, fails, last>>

\* A serial queue that lets everybody in.
Enter_Unlocked(t) ==
  /\ pc[t] = "queue"
  /\ serial' = t
  /\ Goto(t, "invoke")
  /\ UNCHANGED <<breaker, cached, stored, op, res, fails, last>>

\* serialQueue.run locks q.mu.
Enter(t) ==
  /\ pc[t] = "queue" /\ serial = None
  /\ serial' = t
  /\ Goto(t, "invoke")
  /\ UNCHANGED <<breaker, cached, stored, op, res, fails, last>>

\* invokeProvider returns r to its caller.
Invoked(t, r) ==
  /\ res' = [res EXCEPT ![t] = r]
  /\ last' = IF op[t] = "write" /\ r # "nil" THEN [by |-> t, res |-> r] ELSE last
  /\ Goto(t, "record")

\* invokeProvider before the call: ParamsFn fails, or the cache has the answer, or
\* the provider is called.
Prepare(t) ==
  /\ pc[t] = "invoke"
  /\ \/ fails < MaxFails /\ fails' = fails + 1 /\ Invoked(t, "error")
     \/ CacheTTL /\ op[t] = "read" /\ cached /\ Invoked(t, "data") /\ UNCHANGED fails
     \/ ~(CacheTTL /\ op[t] = "read" /\ cached) /\ Goto(t, "provider") /\ UNCHANGED <<res, last, fails>>
  /\ UNCHANGED <<breaker, serial, cached, stored, op>>

\* The provider answers; a read's result with data enters the cache.
Answer(t, r) ==
  /\ pc[t] = "provider"
  /\ cached' = (cached \/ (CacheTTL /\ op[t] = "read" /\ r = "data"))
  /\ Invoked(t, r)
  /\ UNCHANGED <<breaker, serial, stored, op, fails>>

\* The provider fails, or cap.Timeout ends the call.
AnswerFails(t) ==
  /\ pc[t] = "provider"
  /\ fails < MaxFails /\ fails' = fails + 1
  /\ Invoked(t, "error")
  /\ UNCHANGED <<breaker, serial, cached, stored, op>>

-----------------------------------------------------------------------------
\* A success that leaves the count of a closed breaker alone.
recordSuccess_KeepsCount ==
  /\ consec' = 0
  /\ IF state = "half" /\ successes + 1 >= HalfOpenMaxCalls
     THEN state' = "closed" /\ failures' = 0 /\ successes' = 0
     ELSE /\ successes' = IF state = "half" THEN successes + 1 ELSE successes
          /\ UNCHANGED <<state, failures>>
  /\ UNCHANGED cooled

\* recordBreakerResult(id, true)
recordSuccess ==
  /\ consec' = 0
  /\ \/ /\ state = "half" /\ successes + 1 < HalfOpenMaxCalls
        /\ successes' = successes + 1
        /\ UNCHANGED <<state, failures>>
     \/ /\ state = "half" /\ successes + 1 >= HalfOpenMaxCalls
        /\ state' = "closed" /\ failures' = 0 /\ successes' = 0
     \/ /\ state # "half"
        /\ failures' = 0
        /\ UNCHANGED <<state, successes>>
  /\ UNCHANGED cooled

\* One failure too many before the breaker opens.
recordFailure_Late ==
  /\ failures' = failures + 1
  /\ state' = IF failures' > FailureThreshold THEN "open" ELSE state
  /\ consec' = IF consec < FailureThreshold THEN consec + 1 ELSE consec
  /\ cooled' = FALSE
  /\ UNCHANGED successes

\* recordBreakerResult(id, false)
recordFailure ==
  /\ failures' = failures + 1
  /\ state' = IF failures' >= FailureThreshold THEN "open" ELSE state
  /\ consec' = IF consec < FailureThreshold THEN consec + 1 ELSE consec
  /\ cooled' = FALSE
  /\ UNCHANGED successes

\* The caller records the result of a read or a write; a listing records none.
\* Writes go on to the writeback store.
Record(t) ==
  /\ pc[t] = "record"
  /\ \/ op[t] = "list" /\ UNCHANGED breaker
     \/ op[t] # "list" /\ res[t] # "error" /\ recordSuccess
     \/ op[t] # "list" /\ res[t] = "error" /\ recordFailure
  /\ Goto(t, IF op[t] = "write" THEN "store" ELSE "idle")
  /\ op' = [op EXCEPT ![t] = IF @ = "write" THEN @ ELSE "none"]
  /\ res' = [res EXCEPT ![t] = IF op[t] = "write" THEN @ ELSE "nil"]
  /\ UNCHANGED <<serial, cached, stored, fails, last>>

\* Write keeps the error or the data for later reads, if the mount wants it, and
\* leaves the serial queue.
Store(t) ==
  /\ pc[t] = "store"
  /\ stored' = IF Writeback /\ res[t] # "nil" THEN [by |-> t, res |-> res[t]] ELSE stored
  /\ serial' = IF Serial THEN None ELSE serial
  /\ Goto(t, "idle")
  /\ op' = [op EXCEPT ![t] = "none"]
  /\ res' = [res EXCEPT ![t] = "nil"]
  /\ UNCHANGED <<breaker, cached, fails, last>>

-----------------------------------------------------------------------------
\* ResetTimeout passes.
Cool == /\ state = "open" /\ ~cooled /\ cooled' = TRUE
        /\ UNCHANGED <<state, failures, successes, consec, serial, cached, stored, pc, op, res,
                       fails, last>>

\* CacheTTL passes.
CacheExpires == /\ cached /\ cached' = FALSE
                /\ UNCHANGED <<breaker, serial, stored, pc, op, res, fails, last>>

CallStep(t) == \/ Enter(t) \/ Prepare(t) \/ AnswerFails(t) \/ Record(t) \/ Store(t)
               \/ \E r \in Results : Answer(t, r)

Next == \/ \E t \in Threads : Reject(t) \/ CallStep(t) \/ \E o \in Ops : Admit(t, o)
        \/ Cool \/ CacheExpires

Spec == Init /\ [][Next]_vars

\* Calls in progress go on, time passes, and clients keep calling: they try again
\* whenever they can, and while the breaker lets calls pass each of them reads or
\* writes again and again, whatever it lists in between.
FairSpec ==
  /\ Spec /\ WF_vars(Cool)
  /\ \A t \in Threads :
       /\ WF_vars(CallStep(t))
       /\ WF_vars(\E o \in Ops : Admit(t, o))
       /\ SF_vars(state # "open" /\ \E o \in Ops \ {"list"} : Admit(t, o))

-----------------------------------------------------------------------------
TypeOK == /\ state \in {"closed", "open", "half"}
          /\ failures \in Nat /\ successes \in 0 .. HalfOpenMaxCalls - 1
          /\ cooled \in BOOLEAN /\ consec \in 0 .. FailureThreshold
          /\ serial \in Threads \cup {None} /\ cached \in BOOLEAN
          /\ pc \in [Threads -> {"idle", "queue", "invoke", "provider", "record", "store"}]
          /\ op \in [Threads -> {"none", "read", "write", "list"}]
          /\ res \in [Threads -> {"data", "nil", "error"}]
          /\ fails \in Nat
          /\ { stored, last } \subseteq {None} \cup [by : Threads, res : {"data", "nil", "error"}]

\* "consecutive failures before opening": a closed breaker opens only when the last
\* FailureThreshold recorded results are all failures, in whatever order the calls
\* in flight came back and however often it was half-open before.  With the default
\* HalfOpenMaxCalls = 1 the same is true of a half-open one.
OpensOnConsecutive ==
  [][state = "closed" \/ (state = "half" /\ HalfOpenMaxCalls = 1)
       => (state' = "open" => consec' = FailureThreshold)]_vars

\* The other way round: after FailureThreshold failures in a row it is not closed.
FailuresOpen == consec = FailureThreshold => state # "closed"

\* A provider that stops failing gets its calls back: an open breaker closes.
Recovers == state = "open" ~> state = "closed"

\* No write is between its provider and the store.
Quiet == \A t \in Threads : op[t] = "write" => pc[t] \notin {"record", "store"}

\* The serial queue covers the store as well as the call: while no write is
\* between the two, what a serial writeback mount shows is the result of the last
\* write that had one.
StoredIsLast == Serial /\ Writeback /\ Quiet => stored = last
=============================================================================
