------------------------------ MODULE DynamicDir ------------------------------
(***************************************************************************)
(* Calls of a remote provider and fs.mu.  Readdir of a dynamic directory   *)
(* (core/filesystem.go) calls its provider while it holds fs.mu.RLock; a   *)
(* Read of an API node has let go of it by then.  The provider is the      *)
(* caching one (provider/cache/cache.go) over the one that posts to an     *)
(* HTTP service and retries (provider/http/http.go); both calls ask for    *)
(* the same thing.  The service may itself look at the FileSystem before   *)
(* it answers.  Mount and Unmount want fs.mu.Lock.                         *)
(*                                                                         *)
(* fs.mu is the RWMutex of Go: a writer that waits keeps new readers out,  *)
(* and lets in all that wait when it is done.                              *)
(***************************************************************************)
EXTENDS MountTree

CONSTANTS Threads,      \* goroutines, 1 .. n, numbered as they are free
          dir,          \* the path of the dynamic directory (of kind "dir" in the tree)
          Start,        \* what is mounted at the start
          New,          \* the entry that Mount mounts
          Ops,          \* requests: operation and, for mount and unmount, the path
          CallsBack,    \* the requests for which the service looks at the FileSystem before it answers
          HasDeadline,  \* CapConfig.Timeout, or the caller's context, may end
          RetryCount, RetryBase, \* WithRetry; the base delay in nanoseconds
          MaxRequests, MaxVersion

ASSUME DynamicAssumption ==
  /\ Threads \subseteq Nat /\ dir \in Paths /\ Start \in Trees /\ New \in Entry
  /\ CallsBack \subseteq {"list", "read"} /\ HasDeadline \in BOOLEAN
  /\ {RetryCount, RetryBase, MaxRequests, MaxVersion} \subseteq Nat
  /\ Ops \subseteq [op : {"list", "read", "mount", "unmount"}, path : Paths]

VARIABLES tree,
          writer,   \* who waits for, or has, fs.mu.Lock
          job,      \* the request of each goroutine
          back,     \* what the service does in the FileSystem for it: none, rlock, wait, in
          version,  \* what the service would answer now
          cache,    \* the entry of the caching provider, if it has one that has not expired
          floor,    \* version when the cache was invalidated last, or a later one stored since
          started

vars == <<tree, writer, job, back, version, cache, floor, started>>
provider == <<version, cache, floor>>

\* held     it has fs.mu.RLock
\* listed   the names and kinds router.list found
\* answer   the version the service answered with
\* attempt, delay  of Provider.Invoke, and how long it waited before this attempt
\* overlap  the cache was invalidated or filled by another since it looked there
NoOp == [op |-> "list", path |-> <<>>]
Idle == [pc |-> "idle", op |-> NoOp, held |-> FALSE, listed |-> None, answer |-> None,
         attempt |-> 0, delay |-> 0, overlap |-> FALSE]

Init == /\ tree = Start /\ writer = None
        /\ job = [t \in Threads |-> Idle] /\ back = [t \in Threads |-> "none"]
        /\ version = 0 /\ cache = None /\ floor = 0 /\ started = 0

-----------------------------------------------------------------------------
To(j, pc) == [j EXCEPT !.pc = pc]
Step(t, j) == job' = [job EXCEPT ![t] = j]

Begin(t, o) ==
  /\ started < MaxRequests /\ job[t].pc = "idle" /\ \A u \in Threads : u < t => job[u].pc # "idle"
  /\ started' = started + 1
  /\ Step(t, [Idle EXCEPT !.pc = IF o.op \in {"list", "read"} THEN "rlock" ELSE "lock", !.op = o])
  /\ UNCHANGED <<tree, writer, back, provider>>

\* RLock, now or when the writer is done.
RLock(t) ==
  /\ job[t].pc = "rlock"
  /\ Step(t, IF writer = None THEN [job[t] EXCEPT !.pc = "look", !.held = TRUE] ELSE To(job[t], "wait"))
  /\ UNCHANGED <<tree, writer, back, provider, started>>

\* Lock keeps new readers out, and waits for the ones that are in.
Lock(t) ==
  /\ job[t].pc = "lock" /\ writer = None
  /\ writer' = t /\ Step(t, To(job[t], "drain"))
  /\ UNCHANGED <<tree, back, provider, started>>

Readers == { t \in Threads : job[t].held } \cup { t \in Threads : back[t] = "in" }

\* Mount or Unmount under the lock, and Unlock: the readers that wait are all in.
Change(t) ==
  /\ job[t].pc = "drain" /\ Readers = {}
  /\ LET p == job[t].op.path IN
     tree' = IF job[t].op.op = "mount"
             THEN IF MountError(tree, p, New) = None THEN Mount(tree, p, New) ELSE tree
             ELSE IF Mounted(tree, p) THEN Unmount(tree, p) ELSE tree
  /\ writer' = None
  /\ job' = [u \in Threads |-> IF u = t THEN Idle
                              ELSE IF job[u].pc = "wait" THEN [job[u] EXCEPT !.pc = "look", !.held = TRUE]
                              ELSE job[u]]
  /\ back' = [u \in Threads |-> IF back[u] = "wait" THEN "in" ELSE back[u]]
  /\ UNCHANGED <<provider, started>>

-----------------------------------------------------------------------------
\* Readdir that lets go of fs.mu for the call, as Read does.
HoldsLock_Never(op) == FALSE

\* The calls that keep fs.mu while they ask the provider.
HoldsLock(op) == op = "list"

\* router.list: the nodes under the directory, with the kinds of their mounts.
Listing(t) == [q \in Children(t, dir) |-> IF Mounted(t, q) THEN t.mount[q].kind ELSE "dir"]

\* Readdir and Read up to the provider; a directory that is not mounted any more has
\* only what the router knows.
LookAt(t) ==
  LET j == job[t] IN
  /\ j.pc = "look"
  /\ Step(t, IF j.op.op = "list" /\ ~Mounted(tree, dir)
             THEN Idle
             ELSE [j EXCEPT !.pc = "cache", !.held = HoldsLock(j.op.op),
                            !.listed = IF j.op.op = "list" THEN Listing(tree) ELSE None])
  /\ UNCHANGED <<tree, writer, back, provider, started>>

\* cache.Provider.Invoke: an entry that has not expired is the answer.
Check(t) ==
  LET j == job[t] IN
  /\ j.pc = "cache"
  /\ Step(t, IF cache # None THEN To(j, "got")
             ELSE [j EXCEPT !.pc = "try", !.overlap = FALSE])
  /\ UNCHANGED <<tree, writer, back, provider, started>>

\* A delay that does not double.
Delays_Flat(attempt) == { RetryBase + jitter : jitter \in {0, RetryBase \div 2 - 1} }

\* The delay doubles with each attempt; the jitter is below half of it.
Delays(attempt) == LET delay == RetryBase * 2 ^ (attempt - 1) IN
                   { delay + jitter : jitter \in {0, delay \div 2 - 1} }

\* The attempt has failed, the service being down, late or in trouble: after the last one
\* the call has failed.  rand.Int63n panics when half the delay is nothing.
Failed(t) ==
  LET j == job[t]  n == j.attempt + 1 IN
  IF j.attempt = RetryCount THEN Step(t, To(j, "failed"))
  ELSE IF RetryBase < 2 THEN Step(t, To(j, "panic"))
  ELSE \E d \in Delays(n) : Step(t, [j EXCEPT !.pc = "backoff", !.answer = None, !.attempt = n, !.delay = d])

\* client.Do
Post(t) ==
  /\ job[t].pc = "try"
  /\ Step(t, To(job[t], "sent"))
  /\ back' = IF job[t].op.op \in CallsBack /\ back[t] = "none" THEN [back EXCEPT ![t] = "rlock"] ELSE back
  /\ UNCHANGED <<tree, writer, provider, started>>

\* The service answers 200 with what it has, ...
Serve(t) ==
  /\ job[t].pc = "sent" /\ back[t] = "none"
  /\ Step(t, [job[t] EXCEPT !.pc = "served", !.answer = version])
  /\ UNCHANGED <<tree, writer, back, provider, started>>

\* ... or below 500, which is final, as it is when the body of the answer breaks off, ...
Refuse(t) == /\ job[t].pc = "served" \/ (job[t].pc = "sent" /\ back[t] = "none")
             /\ Step(t, To(job[t], "failed"))
             /\ UNCHANGED <<tree, writer, back, provider, started>>

\* A client without a timeout: it waits until the service answers with an error.
Lost_Untimed(t) == /\ job[t].pc = "sent" /\ back[t] = "none" /\ Failed(t)
                   /\ UNCHANGED <<tree, writer, back, provider, started>>

\* ... or with 500 and above, or the client's timeout, or the context, ends the request,
\* served or not.
Lost(t) == /\ job[t].pc \in {"sent", "served"} /\ Failed(t)
           /\ UNCHANGED <<tree, writer, back, provider, started>>

\* The delay is over, or the context is done first.
Wake(t) == /\ job[t].pc = "backoff"
           /\ \/ Step(t, To(job[t], "try"))
              \/ HasDeadline /\ Step(t, To(job[t], "failed"))
           /\ UNCHANGED <<tree, writer, back, provider, started>>

\* The calls that are asking the provider overlap with what happens to the cache.
Asking(t) == job[t].pc \in {"try", "sent", "served", "backoff"}
Overlapped == [t \in Threads |-> [job[t] EXCEPT !.overlap = Asking(t)]]

\* The answer is received whole and enters the cache, whatever happened since the call
\* began.
Store(t) ==
  LET j == job[t] IN
  /\ j.pc = "served"
  /\ cache' = [v |-> j.answer, overlap |-> j.overlap]
  /\ floor' = IF j.answer > floor THEN j.answer ELSE floor
  /\ job' = [Overlapped EXCEPT ![t] = [Idle EXCEPT !.pc = "got", !.op = j.op, !.held = j.held, !.listed = j.listed]]
  /\ UNCHANGED <<tree, writer, back, version, started>>

\* Read has its answer or an error; a listing merges the names, their kinds looked up in
\* the tree, and if there was an error it has only what the router knows.
Finish(t) ==
  /\ job[t].pc \in {"got", "failed"}
  /\ Step(t, Idle)
  /\ UNCHANGED <<tree, writer, back, provider, started>>

-----------------------------------------------------------------------------
\* The service looks at the FileSystem: RLock, and RUnlock.
BackLock(t) == /\ back[t] = "rlock"
               /\ back' = [back EXCEPT ![t] = IF writer = None THEN "in" ELSE "wait"]
               /\ UNCHANGED <<tree, writer, job, provider, started>>
BackDone(t) == /\ back[t] = "in" /\ back' = [back EXCEPT ![t] = "none"]
               /\ UNCHANGED <<tree, writer, job, provider, started>>

\* The service has something new.
Update == /\ version < MaxVersion /\ version' = version + 1
          /\ UNCHANGED <<tree, writer, job, back, cache, floor, started>>

\* An Invalidate that replaces a copy of the map.
Invalidated_Copy == cache

\* cache.Provider.Invalidate
Invalidated == None
Invalidate ==
  /\ cache # None \/ \E t \in Threads : Asking(t) /\ ~job[t].overlap
  /\ cache' = Invalidated /\ floor' = version /\ job' = Overlapped
  /\ UNCHANGED <<tree, writer, back, version, started>>

\* The TTL passes.
Expire == /\ cache # None /\ cache' = None
          /\ UNCHANGED <<tree, writer, job, back, version, floor, started>>

Invoke(t) == \/ Check(t) \/ Post(t) \/ Serve(t) \/ Refuse(t) \/ Lost(t) \/ Wake(t) \/ Store(t)
Go(t) == RLock(t) \/ Lock(t) \/ Change(t) \/ LookAt(t) \/ Invoke(t) \/ Finish(t)
GoBack(t) == BackLock(t) \/ BackDone(t)

Next == \/ \E t \in Threads : Go(t) \/ GoBack(t) \/ \E o \in Ops : Begin(t, o)
        \/ Update \/ Invalidate \/ Expire
Spec == Init /\ [][Next]_vars

\* Every goroutine goes on, the client's timeout (15 seconds by default) among what it
\* may do while it waits for the service; nobody has to begin a request or a change.
FairSpec == Spec /\ \A t \in Threads : WF_vars(Go(t)) /\ WF_vars(GoBack(t))

-----------------------------------------------------------------------------
TypeOK == /\ tree \in Trees /\ writer \in Threads \cup {None} /\ version \in 0 .. MaxVersion
          /\ cache \in [v : 0 .. version, overlap : BOOLEAN] \cup {None}
          /\ floor \in 0 .. version /\ started \in 0 .. MaxRequests
          /\ back \in [Threads -> {"none", "rlock", "wait", "in"}]
          /\ \A t \in Threads : job[t].attempt \in 0 .. RetryCount

\* "Invalidate removes all cached entries": an entry that is older than the last
\* Invalidate, or than one that was stored since, is there only by a call that had
\* looked at the cache before that.
StaleByOverlap == /\ TypeOK
                  /\ cache # None /\ cache.v < floor => cache.overlap

\* A listing is of one tree: the names the router knew when Readdir began are those it
\* knows when the provider's are merged with them, however long the provider took.
ListingOfOneTree ==
  \A t \in Threads : job[t].pc \in {"got", "failed"} /\ job[t].op.op = "list"
                       => job[t].listed = Listing(tree)

\* A retry waits longer than the retry before it, in spite of the jitter.
BackoffGrows ==
  [][\A t \in Threads : job[t].pc # "backoff" /\ job'[t].pc = "backoff" => job'[t].delay > job[t].delay]_vars

\* "skills-fs always answers": every request returns, a Mount that waits for a listing
\* and a listing whose service waits for that Mount too.
CallsReturn == \A t \in Threads : job[t].pc # "idle" ~> job[t].pc = "idle"
===============================================================================
