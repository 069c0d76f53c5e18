-------------------------------- MODULE WebDAV --------------------------------
(***************************************************************************)
(* The WebDAV server (adapter/webdav) with its property cache, its rate    *)
(* and connection limiters (adapter/middleware), and the reload of the     *)
(* configuration (cmd/skills-fs), all calling one FileSystem.  A request   *)
(* is handled as a sequence of FileSystem calls, each under fs.mu alone;   *)
(* between two calls anything may happen to the tree.                      *)
(*                                                                         *)
(* An ETag is the contents it is the hash of.                              *)
(***************************************************************************)
EXTENDS Requests, Integers

CONSTANTS Clients,  \* requests handled at once, 1 .. n: each is a goroutine, numbered as they are free
          Scenarios \* what the server is used for, one of:
                    \*   tree       what is mounted at the start
                    \*   requests   the requests clients make
                    \*   maxRequests
                    \*   readOnly   the option of that name
                    \*   maxConns   the size of the connection limiter, 0 for none
                    \*   rate, burst, ttl   the token bucket: tokens per tick, its size,
                    \*                      the ticks after which an idle one goes; rate 0 for none
                    \*   config, reloads    the mounts of the configuration in order (the entry of
                    \*                      one that does not parse is None), reloads at most
                    \*   maxTicks

Methods == {"GET", "HEAD", "PUT", "DELETE", "MKCOL", "COPY", "MOVE", "PROPFIND", "PROPPATCH", "SEARCH"}
\* The headers a method does not look at are None.
Request == [op : Methods, path : Paths, dst : Paths \cup {None}, ifMatch : Data \cup {"*", None},
            ifNone : Data \cup {"*", None}, overwrite : BOOLEAN, depth : Nat, data : Data \cup {None}]

ASSUME ClientsAssumption == Clients \subseteq Nat

\* A COPY or MOVE without a Destination is answered (400) before anything is looked at.
HasHeaders(r) == /\ r.dst # None <=> r.op \in {"COPY", "MOVE"}
                 /\ r.ifMatch # None => r.op \in {"PUT", "COPY", "MOVE"}
                 /\ r.op = "PUT" => r.data # None

ASSUME ScenarioAssumption ==
  \A s \in Scenarios :
    /\ s.tree \in Trees /\ WellFormed(s.tree) /\ s.readOnly \in BOOLEAN
    /\ s.requests \subseteq { r \in Request : HasHeaders(r) }
    /\ {s.maxRequests, s.maxConns, s.rate, s.burst, s.ttl, s.reloads, s.maxTicks} \subseteq Nat
    /\ s.config \in Seq([path : Paths \ {<<>>}, entry : Entry \cup {None}])

ASSUME NoneAssumption ==
  None \notin Trees \cup [tokens : Int, last : Nat] \cup Nat
                    \cup [stat : [err : Errors \cup {None}, value : Entry], etag : Data \cup {Empty}]

VARIABLES cache,    \* propCache: what it holds of a path
          sem,      \* ConnLimiter: slots taken
          bucket,   \* RateLimiter: tokens and time of the last check, or None
          now,
          admitted, \* requests let through by the limiter
          dropped,  \* auxiliary: how often the bucket was dropped
          reload,   \* the reload that is running or ran last
          forgiven, \* cached paths whose entry may be old, for a reason the code has
          conf

vars == <<tree, cache, job, started, sem, bucket, now, admitted, dropped, reload, forgiven, conf>>
limits == <<sem, bucket, now, admitted, dropped>>

\* What a PROPFIND tells of a path.
Props(t, p) == [stat |-> Stat(t, p), etag |-> Read(t, p).value]

NoRequest == [op |-> "GET", path |-> <<>>, dst |-> None, ifMatch |-> None, ifNone |-> None,
              overwrite |-> TRUE, depth |-> 0, data |-> None]

\* pc    the next step of the handler
\* at    the path it looks at, left the depth below it, work what is to be looked at later
\* stat, body, found   what it has seen
\* code  the answer
\* dirty    at has changed, by another, since the handler looked at it
\* before   the tree at the start, while nobody else has changed it and the cache
\*          has told the handler nothing that is not so
\* owes     paths it has changed and not invalidated
Idle == [pc |-> "idle", req |-> NoRequest, at |-> <<>>, left |-> 0, work |-> {}, stat |-> NoEntry,
         body |-> Empty, found |-> {}, code |-> "", dirty |-> FALSE, before |-> None, owes |-> {}]

\* mount   the place in the configuration whose path was unmounted and is to be mounted
\* before  the tree at the start, while nobody else has changed it
NoReload == [pc |-> "idle", todo |-> [removed |-> {}, modified |-> {}, added |-> {}],
             mount |-> None, err |-> None, before |-> None, count |-> 0]

Init == /\ conf \in Scenarios /\ tree = conf.tree
        /\ cache = [p \in Paths |-> None] /\ forgiven = {}
        /\ job = [c \in Clients |-> Idle] /\ started = 0
        /\ sem = 0 /\ bucket = None /\ now = 0 /\ admitted = 0 /\ dropped = 0
        /\ reload = NoReload

-----------------------------------------------------------------------------
\* Somebody else has changed the tree to t.
Disturbed(j, t) == IF j.pc = "idle" \/ t = tree THEN j
                   ELSE [j EXCEPT !.dirty = @ \/ Props(t, j.at) # Props(tree, j.at), !.before = None]

\* A step of c that leaves the tree alone ...
Step(c, j) == job' = [job EXCEPT ![c] = j] /\ UNCHANGED <<tree, reload, started, limits, conf>>
Look(c, j) == Step(c, j) /\ UNCHANGED <<cache, forgiven>>

\* ... and one that changes it at p.
Change(c, t, p, j) ==
  /\ tree' = t
  /\ job' = [d \in Clients |-> IF d = c THEN [j EXCEPT !.owes = @ \cup {p}] ELSE Disturbed(job[d], t)]
  /\ reload' = [reload EXCEPT !.before = None]
  /\ UNCHANGED <<cache, forgiven, started, limits, conf>>

\* propCache.invalidate: the path and its descendants, but of the root only itself.
Covered(p) == IF p = <<>> THEN {p} ELSE { q \in Paths : Above(p, q) }
Invalidate(c, p, j) == /\ Step(c, [j EXCEPT !.owes = @ \ {p}])
                       /\ cache' = [q \in Paths |-> IF q \in Covered(p) THEN None ELSE cache[q]]
                       /\ forgiven' = forgiven \ Covered(p)

-----------------------------------------------------------------------------
\* The tokens of a bucket that does not remember when it was last looked at.
Refilled_Since0(b) == LET n == b.tokens + now * conf.rate IN IF n > conf.burst THEN conf.burst ELSE n

\* RateLimiter.Allow: a bucket is refilled up to its size ...
Refilled(b) == LET n == b.tokens + (now - b.last) * conf.rate IN
               IF n > conf.burst THEN conf.burst ELSE n
\* ... and gives a token if it has one; without a bucket the request is let through,
\* and there is one with a token less than its size, which may be 0.
Allowed == conf.rate = 0 \/ bucket = None \/ Refilled(bucket) >= 1
Checked == IF conf.rate = 0 THEN None
           ELSE [tokens |-> IF bucket = None THEN conf.burst - 1
                            ELSE IF Allowed THEN Refilled(bucket) - 1 ELSE Refilled(bucket),
                 last |-> now]

\* The first step of a handler.
First(r) ==
  CASE r.op = "PUT" -> IF r.ifMatch = None THEN "write" ELSE "match"
    [] r.op \in {"COPY", "MOVE"} -> "match"
    [] r.op = "PROPPATCH" -> "invalidate"
    [] OTHER -> r.op
\* handleWebDAV
Handle(j) == IF conf.readOnly /\ j.req.op \notin {"GET", "HEAD", "PROPFIND", "SEARCH"}
             THEN Reply(j, "403") ELSE To(j, First(j.req))

\* A request comes in: the rate limiter lets it through or answers it.
Begin(c, r) ==
  LET j == [Idle EXCEPT !.req = r, !.at = r.path, !.left = r.depth, !.before = tree] IN
  /\ started < conf.maxRequests /\ job[c].pc = "idle" /\ \A e \in Clients : e < c => job[e].pc # "idle"
  /\ started' = started + 1
  /\ bucket' = Checked
  /\ admitted' = IF Allowed THEN admitted + 1 ELSE admitted
  /\ job' = [job EXCEPT ![c] = IF ~Allowed THEN Reply(j, "429")
                               ELSE IF conf.maxConns > 0 THEN To(j, "acquire") ELSE Handle(j)]
  /\ UNCHANGED <<tree, cache, sem, now, dropped, reload, forgiven, conf>>

\* ConnLimiter.Acquire blocks until there is room; Release is deferred.
Acquire(c) ==
  /\ job[c].pc = "acquire" /\ sem < conf.maxConns
  /\ sem' = sem + 1
  /\ job' = [job EXCEPT ![c] = Handle(@)]
  /\ UNCHANGED <<tree, cache, started, bucket, now, admitted, dropped, reload, forgiven, conf>>

\* The slot of a request that failed is not given back.
End_Kept(c) ==
  /\ job[c].pc = "reply"
  /\ sem' = IF conf.maxConns > 0 /\ job[c].code \in {"ok", "304"} THEN sem - 1 ELSE sem
  /\ forgiven' = IF job[c].code = "ok" THEN forgiven ELSE forgiven \cup job[c].owes
  /\ job' = [job EXCEPT ![c] = Idle]
  /\ UNCHANGED <<tree, cache, started, bucket, now, admitted, dropped, reload, conf>>

\* The answer is sent and the slot given back.  A request that changed something and
\* failed does not invalidate it any more.
End(c) ==
  /\ job[c].pc = "reply"
  /\ sem' = IF conf.maxConns > 0 /\ job[c].code # "429" THEN sem - 1 ELSE sem
  /\ forgiven' = IF job[c].code = "ok" THEN forgiven ELSE forgiven \cup job[c].owes
  /\ job' = [job EXCEPT ![c] = Idle]
  /\ UNCHANGED <<tree, cache, started, bucket, now, admitted, dropped, reload, conf>>

Stale == now - bucket.last > conf.ttl

\* RateLimiter.cleanup
Cleanup == /\ bucket # None /\ Stale
           /\ bucket' = None /\ dropped' = dropped + 1
           /\ UNCHANGED <<tree, cache, job, started, sem, now, admitted, reload, forgiven, conf>>

Tick == /\ now < conf.maxTicks
        /\ now' = now + 1
        /\ UNCHANGED <<tree, cache, job, started, sem, bucket, admitted, dropped, reload, forgiven, conf>>

\* The TTL of an entry of the property cache passes.
Expire(p) == /\ cache[p] # None
             /\ cache' = [cache EXCEPT ![p] = None] /\ forgiven' = forgiven \ {p}
             /\ UNCHANGED <<tree, job, started, limits, reload, conf>>

-----------------------------------------------------------------------------
\* GET: Read, then Stat for the type.
GetRead(c) ==
  LET j == job[c]  r == Read(tree, j.at) IN
  /\ j.pc = "GET"
  /\ Look(c, IF r.err # None THEN Reply(j, r.err)
             ELSE IF j.req.ifNone \in {"*", r.value} THEN Reply(j, "304")
             ELSE To([j EXCEPT !.body = r.value, !.dirty = FALSE], "getType"))
GetType(c) == /\ job[c].pc = "getType"
              /\ Look(c, Reply([job[c] EXCEPT !.stat = Stat(tree, job[c].at).value], "ok"))

\* HEAD: Stat, and Read for the ETag of a blob or a link.
HeadStat(c) ==
  LET j == job[c]  s == Stat(tree, j.at) IN
  /\ j.pc = "HEAD"
  /\ Look(c, IF s.err # None THEN Reply(j, s.err)
             ELSE LET k == [j EXCEPT !.stat = s.value, !.dirty = FALSE] IN
                  IF s.value.kind = "dir" THEN Reply(k, "ok") ELSE To(k, "headTag"))
HeadTag(c) == /\ job[c].pc = "headTag"
              /\ Look(c, Reply([job[c] EXCEPT !.body = Read(tree, job[c].at).value], "ok"))

\* PUT, COPY and MOVE without their If-Match.
Match_Ignored(c) ==
  /\ job[c].pc = "match"
  /\ Look(c, To(job[c], IF job[c].req.op = "PUT" THEN "write" ELSE "noneMatch"))

\* If-Match is compared with what the path holds.
Match(c) ==
  LET j == job[c]  r == Read(tree, j.at) IN
  /\ j.pc = "match"
  /\ Look(c, IF j.req.ifMatch # None /\ (r.err # None \/ j.req.ifMatch \notin {"*", r.value})
             THEN Reply(j, "412")
             ELSE To([j EXCEPT !.body = r.value, !.dirty = FALSE],
                     IF j.req.op = "PUT" THEN "write" ELSE "noneMatch"))

\* FileSystem.Write: the path is looked up under the read lock ...
Write(c) ==
  LET j == job[c]  err == WriteError(tree, j.at) IN
  /\ j.pc = "write"
  /\ Look(c, IF err # None THEN Reply(j, err)
             ELSE To([j EXCEPT !.dirty = @ /\ j.req.ifMatch # None], "writeBlob"))

\* ... and again, by writeBlob, under the lock.
WriteBlob(c) ==
  LET j == job[c]  err == BlobError(tree, j.at, j.req.data) IN
  /\ j.pc = "writeBlob"
  /\ IF err # None THEN Look(c, Reply(j, err))
     ELSE Change(c, Written(tree, j.at, j.req.data), j.at, To(j, "invalidate"))

\* Mount, with what comes after it and after its failure.
MountAt(c, p, e, next) ==
  LET err == MountError(tree, p, e) IN
  IF err # None THEN Look(c, Reply(job[c], err))
  ELSE Change(c, Mount(tree, p, e), p, To(job[c], next))
UnmountAt(c, p, next) ==
  IF ~Mounted(tree, p) THEN Look(c, Reply(job[c], "ENOENT"))
  ELSE Change(c, Unmount(tree, p), p, To(job[c], next))

Mkcol(c) == /\ job[c].pc = "MKCOL"
            /\ MountAt(c, job[c].at, [kind |-> "dir", data |-> Empty, writable |-> TRUE], "invalidate")
Delete(c) == job[c].pc = "DELETE" /\ UnmountAt(c, job[c].at, "invalidate")

\* COPY and MOVE: If-None-Match and Overwrite: F are about the destination ...
NoneMatch(c) ==
  LET j == job[c]  dst == j.req.dst IN
  /\ j.pc = "noneMatch"
  /\ Look(c, IF \/ j.req.ifNone = "*" /\ Found(tree, dst)
                \/ j.req.ifNone \in Data /\ Read(tree, dst) = Answer(None, j.req.ifNone)
             THEN Reply(j, "412") ELSE To(j, "overwrite"))
Overwrite(c) ==
  LET j == job[c] IN
  /\ j.pc = "overwrite"
  /\ Look(c, IF ~j.req.overwrite /\ Found(tree, j.req.dst) THEN Reply(j, "412") ELSE To(j, "clear"))

\* ... which is unmounted, if it can be,
Clear(c) == /\ job[c].pc = "clear"
            /\ Look(c, To(job[c], IF Found(tree, job[c].req.dst) THEN "clearDst" ELSE "source"))
ClearDst(c) ==
  LET j == To(job[c], "source") IN
  /\ job[c].pc = "clearDst"
  /\ IF Mounted(tree, j.req.dst) THEN Change(c, Unmount(tree, j.req.dst), j.req.dst, j) ELSE Look(c, j)

\* before the source is looked at (Stat, and Read unless it is a directory) ...
Source(c) ==
  LET j == job[c]  s == Stat(tree, j.at) IN
  /\ j.pc = "source"
  /\ Look(c, IF s.err # None THEN Reply(j, s.err)
             ELSE To([j EXCEPT !.stat = s.value, !.body = Empty],
                     IF s.value.kind = "dir" THEN "target" ELSE "sourceData"))
SourceData(c) ==
  LET j == job[c]  r == Read(tree, j.at) IN
  /\ j.pc = "sourceData"
  /\ Look(c, IF r.err # None THEN Reply(j, r.err) ELSE To([j EXCEPT !.body = r.value], "target"))

\* ... and mounted at the destination; a MOVE unmounts the source in the end.
Target(c) ==
  LET j == job[c] IN
  /\ j.pc = "target"
  /\ MountAt(c, j.req.dst, [j.stat EXCEPT !.data = j.body],
             IF j.req.op = "MOVE" THEN "unmountSrc" ELSE "invalidate")
UnmountSrc(c) == job[c].pc = "unmountSrc" /\ UnmountAt(c, job[c].at, "invalidate")

\* The destination is forgotten.
InvalidateSrc_Only(c) ==
  /\ job[c].pc = "invalidate"
  /\ Invalidate(c, job[c].at, Reply(job[c], "ok"))

\* The cache is told of the path, and of the destination.
InvalidateSrc(c) ==
  /\ job[c].pc = "invalidate"
  /\ Invalidate(c, job[c].at, IF job[c].req.dst = None THEN Reply(job[c], "ok")
                              ELSE To(job[c], "invalidateDst"))
InvalidateDst(c) ==
  /\ job[c].pc = "invalidateDst"
  /\ Invalidate(c, job[c].req.dst, Reply(job[c], "ok"))

\* The handler goes on with the next path, or is done.
NextPath(j) ==
  IF j.work = {} THEN Reply(j, "ok")
  ELSE LET w == CHOOSE w \in j.work : TRUE IN
       To([j EXCEPT !.at = w.at, !.left = w.left, !.work = @ \ {w}],
          IF j.req.op = "SEARCH" THEN "searchRead" ELSE "PROPFIND")
\* An error at the path asked for is the answer, one below leaves that path out.
SkipPath(j, err) == IF j.at = j.req.path THEN Reply(j, err) ELSE NextPath(j)

\* searchEntries takes a snapshot and then reads each of its entries (the pattern is
\* one that matches every name); an error of Read leaves the entry without contents.
Search(c) ==
  LET j == job[c] IN
  /\ j.pc = "SEARCH"
  /\ Look(c, NextPath([j EXCEPT !.work = { [at |-> p, left |-> 0] : p \in DOMAIN Snapshot(tree) }]))
SearchRead(c) ==
  LET j == job[c] IN
  /\ j.pc = "searchRead"
  /\ Look(c, NextPath([j EXCEPT !.found = @ \cup {j.at}, !.body = Read(tree, j.at).value]))

\* propfindRecursive, for each path: the cache, or Stat and Read into the cache; ...
Find(c) ==
  LET j == job[c] IN
  /\ j.pc = "PROPFIND"
  /\ Look(c, IF cache[j.at] = None THEN To(j, "findStat")
             ELSE To([j EXCEPT !.stat = cache[j.at].stat.value,
                               !.before = IF cache[j.at] = Props(tree, j.at) THEN @ ELSE None], "list"))
FindStat(c) ==
  LET j == job[c]  s == Stat(tree, j.at) IN
  /\ j.pc = "findStat"
  /\ Look(c, IF s.err # None THEN SkipPath(j, s.err)
             ELSE To([j EXCEPT !.stat = s.value, !.dirty = FALSE], "findRead"))
FindRead(c) ==
  /\ job[c].pc = "findRead"
  /\ Look(c, To([job[c] EXCEPT !.body = Read(tree, job[c].at).value], "findSet"))
FindSet(c) ==
  LET j == job[c] IN
  /\ j.pc = "findSet"
  /\ Step(c, To(j, "list"))
  /\ cache' = [cache EXCEPT ![j.at] = [stat |-> Answer(None, j.stat), etag |-> j.body]]
  /\ forgiven' = IF j.dirty THEN forgiven \cup {j.at} ELSE forgiven \ {j.at}

\* Readdir lists the nodes below a directory, those without mounts included.
Listable(t, p) == p \in t.nodes /\ (Mounted(t, p) => t.mount[p].kind = "dir")

\* ... then, as deep as asked, the members of a directory.
List(c) ==
  LET j == job[c]
      k == [j EXCEPT !.found = @ \cup {j.at}] IN
  /\ j.pc = "list"
  /\ Look(c, IF j.left = 0 \/ j.stat.kind # "dir" THEN NextPath(k)
             ELSE IF ~Listable(tree, j.at) THEN SkipPath(j, "ENOTDIR")
             ELSE NextPath([k EXCEPT !.work = @ \cup
                    { [at |-> q, left |-> j.left - 1] : q \in Children(tree, j.at) }]))

Serve(c) ==
  \/ Acquire(c) \/ End(c)
  \/ GetRead(c) \/ GetType(c) \/ HeadStat(c) \/ HeadTag(c) \/ Match(c) \/ Write(c) \/ WriteBlob(c)
  \/ Mkcol(c) \/ Delete(c) \/ NoneMatch(c) \/ Overwrite(c) \/ Clear(c) \/ ClearDst(c)
  \/ Source(c) \/ SourceData(c) \/ Target(c) \/ UnmountSrc(c) \/ InvalidateSrc(c) \/ InvalidateDst(c)
  \/ Find(c) \/ FindStat(c) \/ FindRead(c) \/ FindSet(c) \/ List(c)
  \/ Search(c) \/ SearchRead(c)

-----------------------------------------------------------------------------
\* Reload converts the whole configuration, then compares it with a snapshot, ...
Parses == \A i \in DOMAIN conf.config : conf.config[i].entry # None
ReloadBegin ==
  LET r == [NoReload EXCEPT !.count = reload.count + 1] IN
  /\ reload.pc # "run" /\ reload.count < conf.reloads
  /\ reload' = IF Parses
               THEN [r EXCEPT !.pc = "run", !.todo = Diff(Snapshot(tree), conf.config), !.before = tree]
               ELSE [r EXCEPT !.pc = "done", !.err = "EINVAL"]
  /\ UNCHANGED <<tree, cache, job, started, limits, forgiven, conf>>

\* ... makes one change after the other, telling nobody of the property cache, and
\* stops at the first that is refused.
ReloadChange(p, t, r) ==
  /\ tree' = t /\ reload' = r
  /\ job' = [c \in Clients |-> Disturbed(job[c], t)]
  /\ forgiven' = forgiven \cup {p}
  /\ UNCHANGED <<cache, started, limits, conf>>
ReloadEnd(err) ==
  /\ reload' = [NoReload EXCEPT !.pc = "done", !.err = err, !.count = reload.count]
  /\ UNCHANGED <<tree, cache, job, started, limits, forgiven, conf>>

ReloadUnmount(p, r) == IF Mounted(tree, p) THEN ReloadChange(p, Unmount(tree, p), r)
                       ELSE ReloadEnd("ENOENT")
ReloadMount(i, r) ==
  LET p == conf.config[i].path  e == conf.config[i].entry  err == MountError(tree, p, e) IN
  IF err # None THEN ReloadEnd(err) ELSE ReloadChange(p, Mount(tree, p, e), r)

\* A modified entry is mounted over the old one.
ReloadModified_Over(i) ==
  ReloadChange(conf.config[i].path, tree, [reload EXCEPT !.todo.modified = @ \ {i}, !.mount = i])
\* A modified entry is unmounted and mounted anew.
ReloadModified(i) ==
  ReloadUnmount(conf.config[i].path, [reload EXCEPT !.todo.modified = @ \ {i}, !.mount = i])

\* Removed entries first, then the modified ones, then the new ones, both in the order
\* of the configuration.
IsFirst(i, S) == i \in S /\ \A k \in S : i <= k
ReloadStep ==
  LET todo == reload.todo IN
  /\ reload.pc = "run"
  /\ \/ \E p \in todo.removed : ReloadUnmount(p, [reload EXCEPT !.todo.removed = @ \ {p}])
     \/ /\ todo.removed = {} /\ reload.mount = None
        /\ \E i \in todo.modified : IsFirst(i, todo.modified) /\ ReloadModified(i)
     \/ reload.mount # None /\ ReloadMount(reload.mount, [reload EXCEPT !.mount = None])
     \/ /\ todo.removed = {} /\ todo.modified = {} /\ reload.mount = None
        /\ \E i \in todo.added :
             IsFirst(i, todo.added) /\ ReloadMount(i, [reload EXCEPT !.todo.added = @ \ {i}])
     \/ /\ todo.removed = {} /\ todo.modified \cup todo.added = {} /\ reload.mount = None
        /\ ReloadEnd(None)

Next == \/ \E c \in Clients : Serve(c) \/ \E r \in conf.requests : Begin(c, r)
        \/ Cleanup \/ Tick \/ (\E p \in Paths : Expire(p))
        \/ ReloadBegin \/ ReloadStep

Spec == Init /\ [][Next]_vars

\* A handler that is not waiting for a slot runs; slots are given to those who wait.
FairSpec == Spec /\ \A c \in Clients : WF_vars(Serve(c))

-----------------------------------------------------------------------------
\* Steps that a handler may have to take, "acquire" and "reply" among them.
Steps == Methods \cup {"idle", "acquire", "getType", "headTag", "match", "write", "writeBlob",
         "noneMatch", "overwrite", "clear", "clearDst", "source", "sourceData", "target",
         "unmountSrc", "invalidate", "invalidateDst", "findStat", "findRead", "findSet", "list",
         "searchRead", "reply"}

TypeOK ==
  /\ tree \in Trees
  /\ \A p \in Paths : cache[p] # None => cache[p].stat.value \in Entry /\ cache[p].etag \in Data \cup {Empty}
  /\ \A c \in Clients : LET j == job[c] IN
       /\ j.pc \in Steps /\ j.at \in Paths /\ j.stat \in Entry /\ j.body \in Data \cup {Empty}
       /\ j.before \in Trees \cup {None} /\ j.owes \cup j.found \subseteq Paths
  /\ sem \in 0 .. conf.maxConns /\ forgiven \subseteq Paths

\* The requests that a new bucket may let through at once, and how many of them are more
\* than the rate made while the bucket before it was idle.
Cap == IF conf.burst = 0 THEN 1 ELSE conf.burst
Gain == LET made == conf.rate * (conf.ttl + 1) IN IF Cap > made THEN Cap - made ELSE 0

\* Besides the types: slots are held by the requests in the handlers, and by no others;
\* the limiter lets through no more requests than the first bucket and the rate make, but
\* for what each drop of an idle bucket gains: nothing when the burst is no more than the
\* rate makes in the time the bucket must be idle, and a drop takes that time.
AdmissionBounded ==
  /\ TypeOK
  /\ conf.maxConns > 0 =>
       sem = Cardinality({ c \in Clients : job[c].pc \notin {"idle", "acquire"} /\ job[c].code # "429" })
  /\ conf.rate > 0 => /\ admitted <= Cap + conf.rate * now + dropped * Gain
                      /\ dropped * (conf.ttl + 1) <= now

\* An entry of the property cache differs from the tree only while a request that
\* changed the path is about to invalidate it, or for one of three reasons, until it
\* expires: a PROPFIND stored what it read before the change, a COPY or MOVE failed
\* half way, or a reload changed the path.
StaleHasReason ==
  \A p \in Paths : cache[p] # None /\ cache[p] # Props(tree, p) =>
    p \in forgiven \/ \E c \in Clients : p \in job[c].owes

\* The tree t differs from b in nothing but the mounts of the paths in S.
OnlyChanged(t, b, S) == \A q \in Paths \ S : t.mount[q] = b.mount[q]
MatchHolds(b, r) == r.ifMatch = None \/ (Read(b, r.path).err = None /\ r.ifMatch \in {"*", Read(b, r.path).value})

\* The paths that a PROPFIND shows: p, and what is found in the directories below.
Shown(b, p, n) == { q \in Paths : /\ Above(p, q) /\ Len(q) <= Len(p) + n /\ Found(b, q)
                                  /\ \A d \in Paths : Above(p, d) /\ Above(d, q) /\ d # q
                                       => Stat(b, d).value.kind = "dir" }

\* What a COPY mounts: what it found, with what Read tells of it.  A directory with members
\* that is its own destination was unmounted first.
CopyOf(b, r) == IF r.path = r.dst THEN IntermediateDir
                ELSE [Stat(b, r.path).value EXCEPT !.data = Read(b, r.path).value]

\* What a request that succeeded found, and did to the tree, which is t now.
Done(t, j) ==
  LET b == j.before  r == j.req  p == r.path IN
  /\ MatchHolds(b, r)
  /\ CASE r.op \in {"GET", "HEAD"} ->
            OnlyChanged(t, b, {}) /\ Props(b, p) = [stat |-> Answer(None, j.stat), etag |-> j.body]
       [] r.op = "PUT" -> OnlyChanged(t, b, {p}) /\ t.mount[p] = [b.mount[p] EXCEPT !.data = r.data]
       [] r.op = "DELETE" -> OnlyChanged(t, b, {p}) /\ Mounted(b, p) /\ ~Mounted(t, p)
       [] r.op = "MKCOL" -> OnlyChanged(t, b, {p}) /\ ~Mounted(b, p) /\ t.mount[p].kind = "dir"
       [] r.op = "COPY" -> OnlyChanged(t, b, {r.dst}) /\ t.mount[r.dst] = CopyOf(b, r)
       [] r.op = "MOVE" -> /\ OnlyChanged(t, b, {p, r.dst}) /\ ~Mounted(t, p)
                           /\ p # r.dst => Mounted(b, p) /\ t.mount[r.dst] = CopyOf(b, r)
       [] r.op = "PROPFIND" -> OnlyChanged(t, b, {}) /\ j.found = Shown(b, p, r.depth)
       [] r.op = "SEARCH" -> OnlyChanged(t, b, {}) /\ j.found = DOMAIN Snapshot(b)
       [] OTHER -> OnlyChanged(t, b, {})
  /\ r.op \in {"COPY", "MOVE"} /\ (~r.overwrite \/ r.ifNone = "*") => ~Found(b, r.dst)

\* What a request that failed has left: all as it was, but for the destination of a
\* COPY or MOVE whose source is not there, has no mount, or is the destination, or that
\* Mount refuses at the destination, which was unmounted for it.
Failed(t, j) ==
  LET b == j.before  r == j.req IN
  IF r.op \in {"COPY", "MOVE"} /\ j.code \notin {"412", "403", "429"}
  THEN /\ OnlyChanged(t, b, {r.dst})
       /\ \/ r.path = r.dst \/ ~Found(b, r.path) \/ (r.op = "MOVE" /\ ~Mounted(b, r.path))
          \/ MountError(Unmount(b, r.dst), r.dst, CopyOf(b, r)) # None
  ELSE OnlyChanged(t, b, {})

\* A request that nobody interfered with did what it says if it succeeded, and
\* nothing if it failed.
AloneExact ==
  \A c \in Clients : job[c].pc = "reply" /\ job[c].before # None =>
    IF job[c].code = "ok" THEN Done(tree, job[c]) ELSE Failed(tree, job[c])

\* A PUT replaces the contents its If-Match was compared with, of a blob, unless the
\* path was changed between the handler's look at it and the second look of writeBlob.
WritesWhatItSaw ==
  [][\A c \in Clients : LET j == job[c] IN
       job'[c].pc = "invalidate" /\ j.pc = "writeBlob" /\ ~j.dirty =>
         tree.mount[j.at].kind = "blob" /\ j.req.ifMatch \in {None, "*", tree.mount[j.at].data}]_vars

\* The mounts of t are those of the configuration: of a path that it lists twice, the last.
Listed == { conf.config[i].path : i \in DOMAIN conf.config }
LastOfItsPath(i) == \A k \in DOMAIN conf.config : k > i => conf.config[k].path # conf.config[i].path
Applied(t) == /\ \A q \in Paths \ Listed : ~Mounted(t, q)
              /\ \A i \in DOMAIN conf.config : LastOfItsPath(i) => t.mount[conf.config[i].path] = conf.config[i].entry

\* What a reload that started from b and ended with err has left in t: Mount refused an
\* entry, as already there only if its path is listed before; what the configuration does
\* not list is unmounted; what it lists is as it was, or as listed, but for the path of
\* that entry, which may have been unmounted for it.
Stopped(b, t, err) ==
  \E i \in DOMAIN conf.config :
    LET p == conf.config[i].path IN
    /\ err = MountError(t, p, conf.config[i].entry)
    /\ err = "EEXIST" => \E k \in DOMAIN conf.config : k < i /\ conf.config[k].path = p
    /\ \A q \in Paths \ Listed : ~Mounted(t, q)
    /\ \A q \in Listed : \/ t.mount[q] = b.mount[q]
                         \/ \E k \in DOMAIN conf.config : conf.config[k] = [path |-> q, entry |-> t.mount[q]]
                         \/ q = p /\ ~Mounted(t, q)

\* A reload that nobody interfered with ends with exactly the mounts of the configuration,
\* whatever was mounted before, or stops at a mount that is refused and has then lost no
\* other one that the configuration lists.
ReloadExact ==
  [][reload.pc = "run" /\ reload'.pc = "done" /\ reload.before # None =>
       IF reload'.err = None THEN Applied(tree')
       ELSE Stopped(reload.before, tree', reload'.err)]_vars

\* Every request is answered: no slot of the connection limiter is lost.
RequestsEnd == \A c \in Clients : job[c].pc # "idle" ~> job[c].pc = "idle"
=============================================================================
