--------------------------- MODULE DynamicDirProofs ---------------------------
(***************************************************************************)
(* What a slow provider may not spoil: a listing is of one tree, and an    *)
(* entry of the cache that is older than the last Invalidate was brought   *)
(* in by a call that overlapped it.  Neither is inductive.  The first      *)
(* rests on Readdir keeping fs.mu.RLock from its look at the router until  *)
(* it has merged (Listed), the second on a call that nothing has           *)
(* overlapped having an answer as new as the last Invalidate (Answered).   *)
(***************************************************************************)
EXTENDS DynamicDir, FiniteSetTheorems, TLAPS

\* The steps of a Readdir that has looked at the router and not returned.
Merging == {"cache", "try", "sent", "served", "backoff", "got", "failed"}

Labels == Merging \cup {"idle", "rlock", "wait", "look", "lock", "drain", "panic"}
Request == [op : {"list", "read", "mount", "unmount"}, path : Paths]
Job == [pc : Labels, op : Request, held : BOOLEAN,
        listed : { Listing(t) : t \in Trees } \cup {None}, answer : Nat \cup {None},
        attempt : 0 .. RetryCount, delay : {0} \cup UNION { Delays(n) : n \in 1 .. RetryCount },
        overlap : BOOLEAN]

\* A goroutine that merges a listing holds the lock, and has listed the tree as it is.
Listed(j) == j.op.op = "list" /\ j.pc \in Merging => j.held /\ j.listed = Listing(tree)

\* An answer is one the service has given, after the last Invalidate unless that came
\* while the call was under way.
Answered(j) == j.pc = "served" => j.answer \in 0 .. version /\ (~j.overlap => j.answer >= floor)

DirInv == /\ StaleByOverlap /\ job \in [Threads -> Job]
          /\ \A t \in Threads : Listed(job[t]) /\ Answered(job[t])

-----------------------------------------------------------------------------
LEMMA IdleJob == Idle \in Job /\ Idle.pc = "idle"
  BY DynamicAssumption, PathsAssumption DEF Idle, NoOp, Job, Labels, Request

LEMMA InitDirInv == Init => DirInv
<1> SUFFICES ASSUME Init PROVE DirInv
  OBVIOUS
<1>1. job \in [Threads -> Job] /\ \A t \in Threads : job[t] = Idle
  BY IdleJob DEF Init
<1>2. TypeOK
  <2>1. \A t \in Threads : job[t].attempt \in 0 .. RetryCount
    BY <1>1 DEF Job
  <2>2. tree \in Trees /\ writer \in Threads \cup {None} /\ back \in [Threads -> {"none", "rlock", "wait", "in"}]
    BY DynamicAssumption DEF Init
  <2>3. version \in 0 .. MaxVersion /\ floor \in 0 .. version /\ started \in 0 .. MaxRequests
    BY DynamicAssumption DEF Init
  <2>4. cache \in [v : 0 .. version, overlap : BOOLEAN] \cup {None}
    BY DEF Init
  <2>5. QED
    BY <2>1, <2>2, <2>3, <2>4 DEF TypeOK
<1>3. \A t \in Threads : Listed(job[t]) /\ Answered(job[t])
  BY <1>1, IdleJob DEF Listed, Answered, Merging
<1>4. QED
  BY <1>1, <1>2, <1>3 DEF Init, DirInv, StaleByOverlap

\* A goroutine goes on to j and leaves the tree and the provider alone.
LEMMA StepKeeps ==
  ASSUME DirInv, NEW t \in Threads, NEW j \in Job, job' = [job EXCEPT ![t] = j],
         UNCHANGED <<tree, version, cache, floor>>, Listed(j), Answered(j),
         writer' \in Threads \cup {None}, back' \in [Threads -> {"none", "rlock", "wait", "in"}],
         started' \in 0 .. MaxRequests
  PROVE  DirInv'
<1>1. job' \in [Threads -> Job] /\ \A u \in Threads : job'[u] = IF u = t THEN j ELSE job[u]
  BY DEF DirInv
<1>2. TypeOK'
  <2>1. \A u \in Threads : job'[u].attempt \in 0 .. RetryCount
    BY <1>1 DEF Job
  <2>2. QED
    BY <2>1 DEF DirInv, StaleByOverlap, TypeOK
<1>3. \A u \in Threads : Listed(job'[u]) /\ Answered(job'[u])
  BY <1>1 DEF DirInv
<1>4. \A u \in Threads : Listed(job[u])' /\ Answered(job[u])'
  BY <1>3 DEF Listed, Answered
<1>5. QED
  BY <1>1, <1>2, <1>4 DEF DirInv, StaleByOverlap

\* What StepKeeps needs to know of the variables a step leaves alone.
LEMMA Parts ==
  ASSUME DirInv
  PROVE  /\ TypeOK /\ job \in [Threads -> Job]
         /\ writer \in Threads \cup {None} /\ back \in [Threads -> {"none", "rlock", "wait", "in"}]
         /\ started \in 0 .. MaxRequests /\ MaxRequests \in Nat
         /\ version \in Nat /\ floor \in 0 .. version
         /\ \A t \in Threads : job[t] \in Job /\ Listed(job[t]) /\ Answered(job[t])
<1>1. TypeOK /\ job \in [Threads -> Job] /\ \A t \in Threads : Listed(job[t]) /\ Answered(job[t])
  BY DEF DirInv, StaleByOverlap
<1>2. /\ writer \in Threads \cup {None} /\ back \in [Threads -> {"none", "rlock", "wait", "in"}]
      /\ started \in 0 .. MaxRequests /\ MaxRequests \in Nat
      /\ version \in Nat /\ floor \in 0 .. version
  BY <1>1, DynamicAssumption DEF TypeOK
<1>3. QED
  BY <1>1, <1>2

\* A goroutine goes to another label, with the rest of its state.
LEMMA ToJob ==
  ASSUME NEW j \in Job, Listed(j), Answered(j), NEW l \in Labels,
         l # "served", l \in Merging => j.pc \in Merging
  PROVE  To(j, l) \in Job /\ Listed(To(j, l)) /\ Answered(To(j, l))
<1>1. /\ To(j, l) \in Job /\ To(j, l).pc = l /\ To(j, l).op = j.op /\ To(j, l).held = j.held
      /\ To(j, l).listed = j.listed
  BY DEF To, Job
<1>2. QED
  BY <1>1 DEF Listed, Answered

-----------------------------------------------------------------------------
LEMMA BeginKeeps ==
  ASSUME DirInv, NEW t \in Threads, NEW o \in Ops, Begin(t, o)
  PROVE  DirInv'
<1> DEFINE l == IF o.op \in {"list", "read"} THEN "rlock" ELSE "lock"
           j == [Idle EXCEPT !.pc = l, !.op = o]
<1>1. o \in Request /\ l \in Labels /\ l \notin Merging
  BY DynamicAssumption DEF Request, Labels, Merging
<1>2. j \in Job /\ j.pc = l
  BY <1>1, IdleJob DEF Job
<1>3. job' = [job EXCEPT ![t] = j] /\ started' = started + 1 /\ started < MaxRequests
      /\ UNCHANGED <<tree, writer, back, version, cache, floor>>
  BY DEF Begin, Step, provider
<1> HIDE DEF j, l
<1>4. Listed(j) /\ Answered(j)
  BY <1>1, <1>2 DEF Listed, Answered, Merging
<1>5. started' \in 0 .. MaxRequests
  BY <1>3, Parts
<1>6. QED
  BY <1>2, <1>3, <1>4, <1>5, Parts, StepKeeps

LEMMA LockKeeps ==
  ASSUME DirInv, NEW t \in Threads, RLock(t) \/ Lock(t)
  PROVE  DirInv'
<1> DEFINE y == [job[t] EXCEPT !.pc = "look", !.held = TRUE]
<1>1. job[t] \in Job /\ Listed(job[t]) /\ Answered(job[t])
  BY Parts
<1>2. /\ UNCHANGED <<tree, back, version, cache, floor, started>>
      /\ writer' \in Threads \cup {None}
  BY Parts DEF RLock, Lock, provider
<1>3. job' \in { [job EXCEPT ![t] = j] : j \in {y, To(job[t], "wait"), To(job[t], "drain")} }
  BY DEF RLock, Lock, Step
<1>4. y \in Job /\ y.pc = "look"
  BY <1>1 DEF Job, Labels
<1> HIDE DEF y
<1>5. Listed(y) /\ Answered(y)
  BY <1>4 DEF Listed, Answered, Merging
<1>6. \A l \in {"wait", "drain"} : LET j == To(job[t], l) IN j \in Job /\ Listed(j) /\ Answered(j)
  BY <1>1, ToJob DEF Labels, Merging
<1>7. PICK j \in {y, To(job[t], "wait"), To(job[t], "drain")} : job' = [job EXCEPT ![t] = j]
  BY <1>3
<1>8. j \in Job /\ Listed(j) /\ Answered(j)
  BY <1>4, <1>5, <1>6, <1>7
<1>9. QED
  BY <1>2, <1>7, <1>8, Parts, StepKeeps

\* The tree changes when no goroutine holds the lock, so none is merging a listing.
LEMMA ChangeKeeps ==
  ASSUME DirInv, NEW t \in Threads, Change(t)
  PROVE  DirInv'
<1>1. /\ writer' = None /\ UNCHANGED <<version, cache, floor, started>>
      /\ \A u \in Threads : ~job[u].held
      /\ job' = [u \in Threads |-> IF u = t THEN Idle
                                   ELSE IF job[u].pc = "wait" THEN [job[u] EXCEPT !.pc = "look", !.held = TRUE]
                                   ELSE job[u]]
      /\ back' = [u \in Threads |-> IF back[u] = "wait" THEN "in" ELSE back[u]]
  BY DEF Change, Readers, provider
<1>2. tree' \in Trees
  <2> DEFINE p == job[t].op.path
  <2>1. p \in Paths /\ tree \in Trees
    BY Parts DEF TypeOK, Job, Request
  <2>2. Mount(tree, p, New) \in Trees /\ Unmount(tree, p) \in Trees
    BY <2>1, DynamicAssumption DEF Mount, Unmount, Trees
  <2>3. QED
    BY <2>1, <2>2 DEF Change
<1>3. \A u \in Threads :
        job'[u] \in Job /\ (job'[u].pc \in {"idle", "look"} \/ (job'[u] = job[u] /\ ~job[u].held))
  <2>1. \A j \in Job : /\ [j EXCEPT !.pc = "look", !.held = TRUE] \in Job
                       /\ [j EXCEPT !.pc = "look", !.held = TRUE].pc = "look"
    BY DEF Job, Labels
  <2>2. QED
    BY <1>1, <2>1, Parts, IdleJob
<1>4. job' \in [Threads -> Job] /\ \A u \in Threads : job'[u].attempt \in 0 .. RetryCount
  <2>1. job' \in [Threads -> Job]
    BY <1>1, <1>3
  <2>2. QED
    BY <2>1 DEF Job
<1>5. TypeOK'
  <2>1. back' \in [Threads -> {"none", "rlock", "wait", "in"}]
    BY <1>1, Parts
  <2>2. QED
    BY <1>1, <1>2, <1>4, <2>1, Parts DEF TypeOK
<1>6. \A u \in Threads : Listed(job[u])'
  BY <1>3, Parts DEF Listed, Merging
<1>7. \A u \in Threads : Answered(job[u])'
  BY <1>1, <1>3, Parts DEF Answered
<1>8. QED
  BY <1>1, <1>4, <1>5, <1>6, <1>7 DEF DirInv, StaleByOverlap

LEMMA LookKeeps ==
  ASSUME DirInv, NEW t \in Threads, LookAt(t)
  PROVE  DirInv'
<1> DEFINE k == job[t].op.op
           y == [job[t] EXCEPT !.pc = "cache", !.held = HoldsLock(k),
                               !.listed = IF k = "list" THEN Listing(tree) ELSE None]
<1>1. UNCHANGED <<tree, writer, back, version, cache, floor, started>>
  BY DEF LookAt, provider
<1>2. job[t] \in Job /\ tree \in Trees
  BY Parts DEF TypeOK
<1>3. /\ y \in Job /\ y.pc = "cache" /\ y.op = job[t].op /\ y.held = (k = "list")
      /\ k = "list" => y.listed = Listing(tree)
  <2>1. (k = "list") \in BOOLEAN /\ HoldsLock(k) = (k = "list")
    BY DEF HoldsLock
  <2>2. (IF k = "list" THEN Listing(tree) ELSE None) \in { Listing(s) : s \in Trees } \cup {None}
    BY <1>2
  <2>3. QED
    BY <1>2, <2>1, <2>2 DEF Job, Labels, Merging
<1>4. CASE job' = [job EXCEPT ![t] = y]
  <2> HIDE DEF y
  <2>1. Listed(y) /\ Answered(y)
    BY <1>3 DEF Listed, Answered
  <2>2. QED
    BY <1>1, <1>3, <1>4, <2>1, Parts, StepKeeps
<1>5. CASE job' = [job EXCEPT ![t] = Idle]
  <2>1. Listed(Idle) /\ Answered(Idle)
    BY IdleJob DEF Listed, Answered, Merging
  <2>2. QED
    BY <1>1, <1>5, <2>1, IdleJob, Parts, StepKeeps
<1>6. QED
  BY <1>4, <1>5 DEF LookAt, Step

-----------------------------------------------------------------------------
\* The steps of a call of the provider that leave the cache alone.
LEMMA CheckKeeps ==
  ASSUME DirInv, NEW t \in Threads, Check(t)
  PROVE  DirInv'
<1> DEFINE y == [job[t] EXCEPT !.pc = "try", !.overlap = FALSE]
<1>1. /\ UNCHANGED <<tree, writer, back, version, cache, floor, started>> /\ job[t].pc = "cache"
      /\ job[t] \in Job /\ Listed(job[t]) /\ Answered(job[t])
  BY Parts DEF Check, provider
<1>2. CASE job' = [job EXCEPT ![t] = To(job[t], "got")]
  <2>1. LET j == To(job[t], "got") IN j \in Job /\ Listed(j) /\ Answered(j)
    BY <1>1, ToJob DEF Labels, Merging
  <2>2. QED
    BY <1>1, <1>2, <2>1, Parts, StepKeeps
<1>3. CASE job' = [job EXCEPT ![t] = y]
  <2>1. y \in Job /\ y.pc = "try" /\ y.op = job[t].op /\ y.held = job[t].held /\ y.listed = job[t].listed
    BY <1>1 DEF Job, Labels, Merging
  <2> HIDE DEF y
  <2>2. Listed(y) /\ Answered(y)
    BY <1>1, <2>1 DEF Listed, Answered, Merging
  <2>3. QED
    BY <1>1, <1>3, <2>1, <2>2, Parts, StepKeeps
<1>4. QED
  BY <1>2, <1>3 DEF Check, Step

LEMMA PostKeeps ==
  ASSUME DirInv, NEW t \in Threads, Post(t)
  PROVE  DirInv'
<1>1. /\ UNCHANGED <<tree, writer, version, cache, floor, started>> /\ job[t].pc = "try"
      /\ job[t] \in Job /\ Listed(job[t]) /\ Answered(job[t])
      /\ job' = [job EXCEPT ![t] = To(job[t], "sent")]
      /\ back' \in [Threads -> {"none", "rlock", "wait", "in"}]
  BY Parts DEF Post, Step, provider
<1>2. LET j == To(job[t], "sent") IN j \in Job /\ Listed(j) /\ Answered(j)
  BY <1>1, ToJob DEF Labels, Merging
<1>3. QED
  BY <1>1, <1>2, Parts, StepKeeps

\* The service answers with what it has, which is not older than the last Invalidate.
LEMMA ServeKeeps ==
  ASSUME DirInv, NEW t \in Threads, Serve(t)
  PROVE  DirInv'
<1> DEFINE y == [job[t] EXCEPT !.pc = "served", !.answer = version]
<1>1. /\ UNCHANGED <<tree, writer, back, version, cache, floor, started>> /\ job[t].pc = "sent"
      /\ job[t] \in Job /\ Listed(job[t]) /\ version \in Nat /\ floor \in 0 .. version
      /\ job' = [job EXCEPT ![t] = y]
  BY Parts DEF Serve, Step, provider
<1>2. /\ y \in Job /\ y.pc = "served" /\ y.op = job[t].op /\ y.held = job[t].held
      /\ y.listed = job[t].listed /\ y.answer = version
  BY <1>1 DEF Job, Labels, Merging
<1> HIDE DEF y
<1>3. Listed(y)
  BY <1>1, <1>2 DEF Listed, Merging
<1>4. Answered(y)
  BY <1>1, <1>2 DEF Answered
<1>5. QED
  BY <1>1, <1>2, <1>3, <1>4, Parts, StepKeeps

LEMMA RefuseKeeps ==
  ASSUME DirInv, NEW t \in Threads, Refuse(t) \/ Wake(t)
  PROVE  DirInv'
<1>1. /\ UNCHANGED <<tree, writer, back, version, cache, floor, started>>
      /\ job[t].pc \in {"sent", "served", "backoff"}
      /\ job[t] \in Job /\ Listed(job[t]) /\ Answered(job[t])
  BY Parts DEF Refuse, Wake, provider
<1>2. PICK l \in {"failed", "try"} : job' = [job EXCEPT ![t] = To(job[t], l)]
  BY DEF Refuse, Wake, Step
<1>3. LET j == To(job[t], l) IN j \in Job /\ Listed(j) /\ Answered(j)
  <2>1. l \in Labels /\ l # "served" /\ job[t].pc \in Merging
    BY <1>1, <1>2 DEF Labels, Merging
  <2>2. QED
    BY <1>1, <2>1, ToJob
<1>4. QED
  BY <1>1, <1>2, <1>3, Parts, StepKeeps

LEMMA LostKeeps ==
  ASSUME DirInv, NEW t \in Threads, Lost(t)
  PROVE  DirInv'
<1> DEFINE n == job[t].attempt + 1
<1>1. /\ UNCHANGED <<tree, writer, back, version, cache, floor, started>>
      /\ job[t].pc \in {"sent", "served"} /\ Failed(t)
      /\ job[t] \in Job /\ Listed(job[t]) /\ Answered(job[t])
  BY Parts DEF Lost, provider
<1>2. ASSUME NEW l \in {"failed", "panic"}, job' = [job EXCEPT ![t] = To(job[t], l)]
      PROVE  DirInv'
  <2>1. l \in Labels /\ l # "served" /\ job[t].pc \in Merging
    BY <1>1, <1>2 DEF Labels, Merging
  <2>2. LET j == To(job[t], l) IN j \in Job /\ Listed(j) /\ Answered(j)
    BY <1>1, <2>1, ToJob
  <2>3. QED
    BY <1>1, <1>2, <2>2, Parts, StepKeeps
<1>3. ASSUME job[t].attempt # RetryCount, NEW d \in Delays(n),
             job' = [job EXCEPT ![t] = [job[t] EXCEPT !.pc = "backoff", !.answer = None, !.attempt = n, !.delay = d]]
      PROVE  DirInv'
  <2> DEFINE y == [job[t] EXCEPT !.pc = "backoff", !.answer = None, !.attempt = n, !.delay = d]
  <2>1. n \in 1 .. RetryCount /\ n \in 0 .. RetryCount
    BY <1>1, <1>3, DynamicAssumption DEF Job
  <2> HIDE DEF n
  <2>2. d \in UNION { Delays(m) : m \in 1 .. RetryCount }
    BY <1>3, <2>1
  <2>3. /\ y \in Job /\ y.pc = "backoff" /\ y.op = job[t].op /\ y.held = job[t].held
        /\ y.listed = job[t].listed
    BY <1>1, <2>1, <2>2 DEF Job, Labels, Merging
  <2>4. job' = [job EXCEPT ![t] = y]
    BY <1>3
  <2> HIDE DEF y
  <2>5. Listed(y) /\ Answered(y)
    BY <1>1, <2>3 DEF Listed, Answered, Merging
  <2>6. QED
    BY <1>1, <2>3, <2>4, <2>5, Parts, StepKeeps
<1>4. QED
  BY <1>1, <1>2, <1>3 DEF Failed, Step

LEMMA FinishKeeps ==
  ASSUME DirInv, NEW t \in Threads, Finish(t)
  PROVE  DirInv'
<1>1. /\ UNCHANGED <<tree, writer, back, version, cache, floor, started>>
      /\ job' = [job EXCEPT ![t] = Idle]
  BY DEF Finish, Step, provider
<1>2. Listed(Idle) /\ Answered(Idle)
  BY IdleJob DEF Listed, Answered, Merging
<1>3. QED
  BY <1>1, <1>2, IdleJob, Parts, StepKeeps

-----------------------------------------------------------------------------
\* What happens to the cache overlaps with the calls that are under way.
LEMMA OverlappedJobs ==
  ASSUME DirInv
  PROVE  /\ Overlapped \in [Threads -> Job]
         /\ \A t \in Threads : /\ Overlapped[t].pc = job[t].pc /\ Overlapped[t].op = job[t].op
                               /\ Overlapped[t].held = job[t].held /\ Overlapped[t].listed = job[t].listed
                               /\ Overlapped[t].answer = job[t].answer
                               /\ job[t].pc = "served" => Overlapped[t].overlap
<1>1. \A t \in Threads : job[t] \in Job /\ Asking(t) \in BOOLEAN
  BY Parts DEF Asking
<1>2. \A j \in Job : \A b \in BOOLEAN : LET k == [j EXCEPT !.overlap = b] IN
        /\ k \in Job /\ k.pc = j.pc /\ k.op = j.op /\ k.held = j.held /\ k.listed = j.listed
        /\ k.answer = j.answer /\ k.overlap = b
  BY DEF Job
<1>3. ASSUME NEW t \in Threads
      PROVE  LET k == [job[t] EXCEPT !.overlap = Asking(t)] IN
             /\ k \in Job /\ k.pc = job[t].pc /\ k.op = job[t].op /\ k.held = job[t].held
             /\ k.listed = job[t].listed /\ k.answer = job[t].answer
             /\ job[t].pc = "served" => k.overlap
  <2>1. job[t].pc = "served" => Asking(t)
    BY DEF Asking
  <2>2. QED
    BY <1>1, <1>2, <2>1
<1>4. Overlapped = [t \in Threads |-> [job[t] EXCEPT !.overlap = Asking(t)]]
  BY DEF Overlapped
<1> HIDE DEF Overlapped
<1>5. QED
  BY <1>3, <1>4

\* An answer that is older than the last Invalidate is stored by a call that it overlapped.
LEMMA StoreKeeps ==
  ASSUME DirInv, NEW t \in Threads, Store(t)
  PROVE  DirInv'
<1> DEFINE j == job[t]
           y == [Idle EXCEPT !.pc = "got", !.op = j.op, !.held = j.held, !.listed = j.listed]
<1>1. /\ UNCHANGED <<tree, writer, back, version, started>> /\ j.pc = "served"
      /\ cache' = [v |-> j.answer, overlap |-> j.overlap]
      /\ floor' = IF j.answer > floor THEN j.answer ELSE floor
      /\ job' = [Overlapped EXCEPT ![t] = y]
  BY DEF Store
<1>2. j \in Job /\ j.answer \in 0 .. version /\ (~j.overlap => j.answer >= floor) /\ Listed(j)
      /\ version \in Nat /\ floor \in 0 .. version
  BY <1>1, Parts DEF Answered
<1>3. y \in Job /\ y.pc = "got" /\ y.op = j.op /\ y.held = j.held /\ y.listed = j.listed
  <2>1. "got" \in Labels
    BY DEF Labels, Merging
  <2>2. QED
    BY <1>2, <2>1, IdleJob DEF Job
<1> HIDE DEF y
<1>4. job' \in [Threads -> Job] /\ \A u \in Threads : job'[u] = IF u = t THEN y ELSE Overlapped[u]
  BY <1>1, <1>3, OverlappedJobs
<1>5. StaleByOverlap'
  <2>1. /\ floor' \in 0 .. version /\ cache' \in [v : 0 .. version, overlap : BOOLEAN]
        /\ cache'.v < floor' => cache'.overlap
    BY <1>1, <1>2 DEF Job
  <2>2. \A u \in Threads : job'[u].attempt \in 0 .. RetryCount
    BY <1>4 DEF Job
  <2>3. QED
    BY <1>1, <2>1, <2>2, Parts DEF StaleByOverlap, TypeOK
<1>6. \A u \in Threads : Listed(job[u])'
  <2>1. y.pc \in Merging /\ j.pc \in Merging
    BY <1>1, <1>3 DEF Merging
  <2>2. QED
    BY <1>1, <1>2, <1>3, <1>4, <2>1, OverlappedJobs, Parts DEF Listed
<1>7. \A u \in Threads : Answered(job[u])'
  BY <1>1, <1>3, <1>4, OverlappedJobs, Parts DEF Answered
<1>8. QED
  BY <1>4, <1>5, <1>6, <1>7 DEF DirInv

LEMMA InvalidateKeeps ==
  ASSUME DirInv, Invalidate
  PROVE  DirInv'
<1>1. /\ UNCHANGED <<tree, writer, back, version, started>>
      /\ cache' = None /\ floor' = version /\ job' = Overlapped
  BY DEF Invalidate, Invalidated
<1>2. job' \in [Threads -> Job] /\ \A u \in Threads : job'[u].attempt \in 0 .. RetryCount
  <2>1. job' \in [Threads -> Job]
    BY <1>1, OverlappedJobs
  <2>2. QED
    BY <2>1 DEF Job
<1>3. StaleByOverlap'
  BY <1>1, <1>2, Parts DEF StaleByOverlap, TypeOK
<1>4. \A u \in Threads : Listed(job[u])'
  BY <1>1, OverlappedJobs, Parts DEF Listed
<1>5. \A u \in Threads : Answered(job[u])'
  BY <1>1, OverlappedJobs, Parts DEF Answered
<1>6. QED
  BY <1>2, <1>3, <1>4, <1>5 DEF DirInv

\* The service, the passing of time, and steps that change nothing.
LEMMA OutsideKeeps ==
  ASSUME DirInv, UNCHANGED <<tree, writer, job, floor, started>>,
         back' \in [Threads -> {"none", "rlock", "wait", "in"}],
         version' \in 0 .. MaxVersion, version' >= version, cache' \in {cache, None}
  PROVE  DirInv'
<1>1. /\ version \in Nat /\ version' \in Nat /\ floor \in 0 .. version
      /\ cache \in [v : 0 .. version, overlap : BOOLEAN] \cup {None}
  BY Parts, DynamicAssumption DEF TypeOK
<1>2. floor \in 0 .. version' /\ 0 .. version \subseteq 0 .. version'
  BY <1>1
<1>3. cache' \in [v : 0 .. version', overlap : BOOLEAN] \cup {None}
  BY <1>1, <1>2
<1>4. StaleByOverlap'
  BY <1>2, <1>3, Parts DEF DirInv, StaleByOverlap, TypeOK
<1>5. \A u \in Threads : Listed(job[u])' /\ Answered(job[u])'
  BY <1>2, Parts DEF Listed, Answered
<1>6. QED
  BY <1>4, <1>5 DEF DirInv

LEMMA NextDirInv == DirInv /\ [Next]_vars => DirInv'
<1> SUFFICES ASSUME DirInv, [Next]_vars PROVE DirInv'
  OBVIOUS
<1>1. /\ version \in 0 .. MaxVersion /\ version >= version
      /\ back \in [Threads -> {"none", "rlock", "wait", "in"}] /\ MaxVersion \in Nat
  BY Parts, DynamicAssumption DEF TypeOK
<1>2. CASE UNCHANGED vars
  BY <1>1, <1>2, OutsideKeeps DEF vars
<1>3. ASSUME NEW t \in Threads, Go(t) PROVE DirInv'
  BY <1>3, LockKeeps, ChangeKeeps, LookKeeps, FinishKeeps, CheckKeeps, PostKeeps, ServeKeeps,
     RefuseKeeps, LostKeeps, StoreKeeps DEF Go, Invoke
<1>4. ASSUME NEW t \in Threads, GoBack(t) PROVE DirInv'
  <2>1. back' \in [Threads -> {"none", "rlock", "wait", "in"}]
    BY <1>1, <1>4 DEF GoBack, BackLock, BackDone
  <2>2. UNCHANGED <<tree, writer, job, version, cache, floor, started>>
    BY <1>4 DEF GoBack, BackLock, BackDone, provider
  <2>3. QED
    BY <1>1, <2>1, <2>2, OutsideKeeps
<1>5. ASSUME NEW t \in Threads, NEW o \in Ops, Begin(t, o) PROVE DirInv'
  BY <1>5, BeginKeeps
<1>6. CASE Update
  <2>1. version' \in 0 .. MaxVersion /\ version' >= version
    BY <1>1, <1>6 DEF Update
  <2>2. QED
    BY <1>1, <1>6, <2>1, OutsideKeeps DEF Update
<1>7. CASE Expire
  BY <1>1, <1>7, OutsideKeeps DEF Expire
<1>8. QED
  BY <1>2, <1>3, <1>4, <1>5, <1>6, <1>7, InvalidateKeeps DEF Next

LEMMA DirInvHolds == Spec => []DirInv
  BY InitDirInv, NextDirInv, PTL DEF Spec

\* However long the provider takes and whoever waits to mount or unmount, Readdir merges
\* the provider's names with those of the tree it has looked at.
THEOREM ListsOneTree == Spec => []ListingOfOneTree
<1>1. DirInv => ListingOfOneTree
  BY Parts DEF ListingOfOneTree, Listed, Merging
<1>2. QED
  BY <1>1, DirInvHolds, PTL

\* An entry that an Invalidate should have removed comes back only with a call that
\* looked at the cache before the Invalidate and stored its answer after it.
THEOREM StaleOnlyByOverlap == Spec => []StaleByOverlap
<1>1. DirInv => StaleByOverlap
  BY DEF DirInv
<1>2. QED
  BY <1>1, DirInvHolds, PTL

-----------------------------------------------------------------------------
\* How a goroutine's delay may change in a step: not at all, ...
Waits(j, k) == k.attempt = j.attempt /\ k.delay = j.delay /\ (k.pc = "backoff" => j.pc = "backoff")

\* ... with a new request, ...
Resets(k) == k.attempt = 0 /\ k.delay = 0 /\ k.pc # "backoff"

\* ... or with the next attempt.
Retries(j, k) == RetryBase >= 2 /\ k.attempt = j.attempt + 1 /\ k.delay \in Delays(k.attempt)

\* The delay is the one of the attempt.
Waited(j) == IF j.attempt = 0 THEN j.delay = 0 ELSE RetryBase >= 2 /\ j.delay \in Delays(j.attempt)

\* The powers of two count the subsets of an interval; one more number doubles them.
LEMMA PowersDouble ==
  ASSUME NEW n \in Nat
  PROVE  2 ^ n \in Nat /\ 2 ^ n >= 1 /\ 2 ^ (n + 1) = 2 * 2 ^ n
<1> DEFINE A == SUBSET (1 .. n)
           B == { T \cup {n + 1} : T \in A }
           f == [T \in A |-> T \cup {n + 1}]
<1>1. IsFiniteSet(1 .. n) /\ Cardinality(1 .. n) = n
  BY FS_Interval
<1>2. IsFiniteSet(A) /\ Cardinality(A) = 2 ^ n
  BY <1>1, FS_SUBSET
<1>3. IsFiniteSet(1 .. n + 1) /\ Cardinality(1 .. n + 1) = n + 1
  BY FS_Interval
<1>4. Cardinality(SUBSET (1 .. n + 1)) = 2 ^ (n + 1)
  BY <1>3, FS_SUBSET
<1>5. A \cap B = {}
  <2>1. \A T \in A : n + 1 \notin T
    OBVIOUS
  <2>2. QED
    BY <2>1
<1>6. SUBSET (1 .. n + 1) = A \cup B
  <2>1. ASSUME NEW T \in SUBSET (1 .. n + 1), n + 1 \in T PROVE T \in B
    <3>1. T \ {n + 1} \in A /\ T = (T \ {n + 1}) \cup {n + 1}
      BY <2>1
    <3>2. QED
      BY <3>1
  <2>2. ASSUME NEW T \in SUBSET (1 .. n + 1), n + 1 \notin T PROVE T \in A
    BY <2>2
  <2>3. A \subseteq SUBSET (1 .. n + 1) /\ B \subseteq SUBSET (1 .. n + 1)
    <3>1. 1 .. n \subseteq 1 .. n + 1 /\ n + 1 \in 1 .. n + 1
      OBVIOUS
    <3>2. \A T \in A : T \in SUBSET (1 .. n + 1) /\ T \cup {n + 1} \in SUBSET (1 .. n + 1)
      BY <3>1
    <3>3. QED
      BY <3>2
  <2> HIDE DEF A, B
  <2>4. QED
    BY <2>1, <2>2, <2>3
<1>7. ExistsBijection(A, B)
  <2>1. f \in [A -> B] /\ \A T \in B : \E S \in A : f[S] = T
    <3>1. \A S \in A : S \cup {n + 1} \in B
      OBVIOUS
    <3>2. \A T \in B : \E S \in A : T = S \cup {n + 1}
      OBVIOUS
    <3> HIDE DEF A, B
    <3>3. QED
      BY <3>1, <3>2
  <2>2. ASSUME NEW S \in A, NEW T \in A, f[S] = f[T] PROVE S = T
    <3>1. S = f[S] \ {n + 1} /\ T = f[T] \ {n + 1}
      OBVIOUS
    <3>2. QED
      BY <2>2, <3>1
  <2> HIDE DEF A, B, f
  <2>3. f \in Bijection(A, B)
    BY <2>1, <2>2 DEF Bijection, Injection, Surjection, IsInjective
  <2>4. QED
    BY <2>3 DEF ExistsBijection
<1> HIDE DEF A, B
<1>8. IsFiniteSet(B) /\ Cardinality(B) = Cardinality(A)
  BY <1>2, <1>7, FS_Bijection
<1>9. Cardinality(A \cup B) = Cardinality(A) + Cardinality(B) - Cardinality({})
  BY <1>2, <1>5, <1>8, FS_Union
<1>10. Cardinality(A) \in Nat /\ Cardinality({}) = 0
  BY <1>2, FS_CardinalityType, FS_EmptySet
<1>11. Cardinality(A) # 0
  <2>1. {} \in A
    BY DEF A
  <2>2. QED
    BY <1>2, <2>1, FS_EmptySet
<1>12. 2 ^ (n + 1) = Cardinality(A) + Cardinality(A) - 0
  BY <1>4, <1>6, <1>8, <1>9, <1>10
<1>13. \A c \in Nat : c # 0 => c >= 1 /\ c + c - 0 = 2 * c
  OBVIOUS
<1>14. QED
  BY <1>2, <1>10, <1>11, <1>12, <1>13

\* The delay of an attempt is at least its base and less than the base of the next one.
LEMMA DelaysGrow ==
  ASSUME NEW n \in Nat \ {0}, RetryBase \in Nat, RetryBase >= 2, NEW c \in Delays(n), NEW d \in Delays(n + 1)
  PROVE  0 < c /\ c < d
<1> DEFINE base == RetryBase * 2 ^ (n - 1)
<1>1. /\ 2 ^ (n - 1) \in Nat /\ 2 ^ (n - 1) >= 1 /\ 2 ^ ((n - 1) + 1) = 2 * 2 ^ (n - 1)
  <2>1. n - 1 \in Nat
    OBVIOUS
  <2>2. QED
    BY <2>1, PowersDouble
<1>2. (n - 1) + 1 = n /\ (n + 1) - 1 = n
  OBVIOUS
<1>3. 2 ^ n = 2 * 2 ^ (n - 1)
  BY <1>1, <1>2
<1>4. base \in Nat /\ base >= 2 /\ RetryBase * 2 ^ n = 2 * base
  <2>1. \A r, m \in Nat : r >= 2 /\ m >= 1 => r * m \in Nat /\ r * m >= 2 /\ r * (2 * m) = 2 * (r * m)
    OBVIOUS
  <2>2. QED
    BY <1>1, <1>3, <2>1
<1>5. c \in { base + jitter : jitter \in {0, base \div 2 - 1} }
  BY DEF Delays
<1>6. d \in { 2 * base + jitter : jitter \in {0, (2 * base) \div 2 - 1} }
  BY <1>2, <1>4 DEF Delays
<1> HIDE DEF base
<1>7. QED
  BY <1>4, <1>5, <1>6

Waiting(j, k) == Waits(j, k) \/ Resets(k) \/ Retries(j, k)

LEMMA WaitsFacts ==
  ASSUME NEW j \in Job, NEW l, l # "backoff", NEW b, NEW g, NEW a
  PROVE  /\ Waits(j, To(j, l)) /\ Waits(j, j)
         /\ Waits(j, [j EXCEPT !.pc = l, !.held = b]) /\ Waits(j, [j EXCEPT !.overlap = b])
         /\ Waits(j, [j EXCEPT !.pc = l, !.held = b, !.listed = g])
         /\ Waits(j, [j EXCEPT !.pc = l, !.overlap = b]) /\ Waits(j, [j EXCEPT !.pc = l, !.answer = a])
  BY DEF Waits, To, Job

LEMMA IdleResets ==
  ASSUME NEW l, l # "backoff", NEW o, NEW b, NEW g
  PROVE  /\ Resets(Idle) /\ Resets([Idle EXCEPT !.pc = l, !.op = o])
         /\ Resets([Idle EXCEPT !.pc = l, !.op = o, !.held = b, !.listed = g])
  BY DEF Resets, Idle

\* The other goroutines wait as they did, and one that is to try again does so with the
\* delay of its next attempt.
LEMMA DelaySteps ==
  ASSUME DirInv, Next, NEW u \in Threads
  PROVE  Waiting(job[u], job'[u])
<1>1. /\ job \in [Threads -> Job] /\ job[u] \in Job
  BY Parts
<1>2. Waits(job[u], job[u])
  BY <1>1 DEF Waits
<1>3. ASSUME NEW t \in Threads, NEW k, Step(t, k), Waiting(job[t], k)
      PROVE  Waiting(job[u], job'[u])
  BY <1>1, <1>2, <1>3 DEF Step, Waiting
<1>4. Waiting(job[u], Overlapped[u])
  <2>1. Overlapped[u] = [job[u] EXCEPT !.overlap = Asking(u)]
    BY DEF Overlapped
  <2>2. Waits(job[u], [job[u] EXCEPT !.overlap = Asking(u)])
    BY <1>1 DEF Waits, Job
  <2>3. QED
    BY <2>1, <2>2 DEF Waiting
<1>5. ASSUME NEW t \in Threads, Go(t) PROVE Waiting(job[u], job'[u])
  <2> DEFINE j == job[t]
  <2>1. j \in Job
    BY Parts
  <2>2. \A l \in {"look", "wait", "drain", "cache", "got", "try", "failed", "sent", "panic", "served"} :
          l # "backoff"
    OBVIOUS
  <2>3. \A l \in {"wait", "drain", "got", "failed", "sent", "try", "panic"} : Waits(j, To(j, l))
    BY <2>1, <2>2, WaitsFacts
  <2>4. Waits(j, [j EXCEPT !.pc = "look", !.held = TRUE])
    BY <2>1, <2>2, WaitsFacts
  <2>5. \A g : \A b : Waits(j, [j EXCEPT !.pc = "cache", !.held = b, !.listed = g])
    BY <2>1, <2>2, WaitsFacts
  <2>6. Waits(j, [j EXCEPT !.pc = "try", !.overlap = FALSE])
    BY <2>1, <2>2, WaitsFacts
  <2>7. Waits(j, [j EXCEPT !.pc = "served", !.answer = version])
    BY <2>1, <2>2, WaitsFacts
  <2>8. Resets(Idle)
    BY DEF Resets, Idle
  <2> HIDE DEF j
  <2>9. ASSUME NEW k, Step(t, k), Waits(j, k) \/ Resets(k) \/ Retries(j, k)
        PROVE  Waiting(job[u], job'[u])
    BY <1>3, <2>9 DEF Waiting, j
  <2>10. CASE RLock(t) \/ Lock(t)
    BY <2>3, <2>4, <2>9, <2>10 DEF RLock, Lock, j
  <2>11. CASE LookAt(t)
    BY <2>5, <2>8, <2>9, <2>11 DEF LookAt, j
  <2>12. CASE Check(t) \/ Post(t) \/ Serve(t) \/ Refuse(t) \/ Wake(t) \/ Finish(t)
    BY <2>3, <2>6, <2>7, <2>8, <2>9, <2>12 DEF Check, Post, Serve, Refuse, Wake, Finish, j
  <2>13. CASE Lost(t)
    <3> DEFINE n == j.attempt + 1
    <3>1. ASSUME NEW l \in {"failed", "panic"}, Step(t, To(j, l)) PROVE Waiting(job[u], job'[u])
      BY <2>3, <2>9, <3>1
    <3>2. ASSUME ~(RetryBase < 2), NEW d \in Delays(n),
                 Step(t, [j EXCEPT !.pc = "backoff", !.answer = None, !.attempt = n, !.delay = d])
          PROVE  Waiting(job[u], job'[u])
      <4> DEFINE k == [j EXCEPT !.pc = "backoff", !.answer = None, !.attempt = n, !.delay = d]
      <4>1. k.attempt = n /\ k.delay = d
        BY <2>1 DEF Job
      <4>2. RetryBase >= 2
        BY <3>2, DynamicAssumption
      <4>3. Retries(j, k)
        BY <3>2, <4>1, <4>2 DEF Retries
      <4>4. QED
        BY <2>9, <3>2, <4>3
    <3>3. QED
      BY <2>13, <3>1, <3>2 DEF Lost, Failed, j
  <2>14. CASE Store(t)
    <3> DEFINE k == [Idle EXCEPT !.pc = "got", !.op = j.op, !.held = j.held, !.listed = j.listed]
    <3>1. Resets(k)
      BY IdleResets
    <3>2. job' = [Overlapped EXCEPT ![t] = k]
      BY <2>14 DEF Store, j
    <3> HIDE DEF k
    <3>3. job'[u] = k \/ job'[u] = Overlapped[u]
      BY <3>2 DEF Overlapped
    <3>4. QED
      BY <1>4, <3>1, <3>3 DEF Waiting
  <2>15. CASE Change(t)
    <3>1. \/ job'[u] = Idle \/ job'[u] = job[u]
          \/ job'[u] = [job[u] EXCEPT !.pc = "look", !.held = TRUE]
      BY <2>15 DEF Change
    <3>2. Waits(job[u], [job[u] EXCEPT !.pc = "look", !.held = TRUE])
      BY <1>1, <2>2, WaitsFacts
    <3>3. QED
      BY <1>2, <2>8, <3>1, <3>2 DEF Waiting
  <2>16. QED
    BY <1>5, <2>10, <2>11, <2>12, <2>13, <2>14, <2>15 DEF Go, Invoke
<1>6. ASSUME NEW t \in Threads, NEW o \in Ops, Begin(t, o) PROVE Waiting(job[u], job'[u])
  <2> DEFINE l == IF o.op \in {"list", "read"} THEN "rlock" ELSE "lock"
  <2>1. Step(t, [Idle EXCEPT !.pc = l, !.op = o]) /\ l # "backoff"
    BY <1>6 DEF Begin
  <2>2. Resets([Idle EXCEPT !.pc = l, !.op = o])
    BY <2>1, IdleResets
  <2>3. QED
    BY <1>3, <2>1, <2>2 DEF Waiting
<1>7. CASE job' = job
  BY <1>2, <1>7 DEF Waiting
<1>8. CASE Invalidate
  BY <1>4, <1>8 DEF Invalidate
<1>9. QED
  BY <1>5, <1>6, <1>7, <1>8 DEF Next, GoBack, BackLock, BackDone, Update, Expire

LEMMA NextWaited ==
  ASSUME DirInv, \A t \in Threads : Waited(job[t]), [Next]_vars
  PROVE  /\ \A t \in Threads : Waited(job[t])'
         /\ \A t \in Threads :
              job[t].pc # "backoff" /\ job'[t].pc = "backoff" => job'[t].delay > job[t].delay
<1>1. CASE UNCHANGED vars
  BY <1>1 DEF vars, Waited
<1>2. CASE Next
  <2> SUFFICES ASSUME NEW t \in Threads
               PROVE  /\ Waited(job'[t])
                      /\ job[t].pc # "backoff" /\ job'[t].pc = "backoff" => job'[t].delay > job[t].delay
    BY DEF Waited
  <2>1. Waiting(job[t], job'[t]) /\ Waited(job[t])
    BY <1>2, DelaySteps
  <2>2. job[t].attempt \in Nat /\ RetryBase \in Nat
    BY Parts, DynamicAssumption DEF Job
  <2>3. CASE Waits(job[t], job'[t]) \/ Resets(job'[t])
    BY <2>1, <2>3 DEF Waits, Resets, Waited
  <2>4. CASE Retries(job[t], job'[t])
    <3> DEFINE a == job[t].attempt
    <3>1. /\ RetryBase >= 2 /\ job'[t].attempt = a + 1 /\ job'[t].delay \in Delays(a + 1) /\ a \in Nat
      BY <2>2, <2>4 DEF Retries
    <3>2. Waited(job'[t])
      BY <3>1 DEF Waited
    <3>3. CASE a = 0
      <4>1. job[t].delay = 0
        BY <2>1, <3>3 DEF Waited
      <4>2. 0 < job'[t].delay
        <5>1. 0 + 1 = 1 /\ 1 \in Nat \ {0}
          OBVIOUS
        <5>2. Delays(1 + 1) # {}
          BY DEF Delays
        <5>3. PICK d : d \in Delays(1 + 1)
          BY <5>2
        <5>4. job'[t].delay \in Delays(1)
          BY <3>1, <3>3, <5>1
        <5>5. QED
          BY <2>2, <3>1, <5>1, <5>3, <5>4, DelaysGrow
      <4>3. job'[t].delay > job[t].delay
        BY <4>1, <4>2
      <4>4. QED
        BY <3>2, <4>3
    <3>4. CASE a # 0
      <4>1. job[t].delay \in Delays(a) /\ a \in Nat \ {0}
        BY <2>1, <3>1, <3>4 DEF Waited
      <4>2. job[t].delay < job'[t].delay
        BY <2>2, <3>1, <4>1, DelaysGrow
      <4>3. QED
        BY <3>2, <4>2
    <3>5. QED
      BY <3>3, <3>4
  <2>5. QED
    BY <2>1, <2>3, <2>4 DEF Waiting
<1>3. QED
  BY <1>1, <1>2

\* Whatever the base, the number of attempts and the jitter, a retry of the HTTP provider
\* waits longer than the one before it.
THEOREM RetriesBackOff == Spec => BackoffGrows
<1> DEFINE WaitInv == \A t \in Threads : Waited(job[t])
           Grows == \A t \in Threads :
                      job[t].pc # "backoff" /\ job'[t].pc = "backoff" => job'[t].delay > job[t].delay
<1>1. Init => WaitInv
  BY DEF Init, Waited, Idle
<1>2. DirInv /\ WaitInv /\ [Next]_vars => WaitInv' /\ [Grows]_vars
  BY NextWaited
<1>3. BackoffGrows <=> [][Grows]_vars
  BY DEF BackoffGrows
<1> HIDE DEF WaitInv, Grows
<1>4. QED
  BY <1>1, <1>2, <1>3, DirInvHolds, PTL DEF Spec
===============================================================================
