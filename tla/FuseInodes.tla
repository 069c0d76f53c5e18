------------------------------ MODULE FuseInodes ------------------------------
(***************************************************************************)
(* The inode table of the FUSE adapter (adapter/fuse/mount_linux.go): the  *)
(* path -> inode map of the root node with the LRU list that bounds it,    *)
(* filled by Lookup, Create, Mkdir and Symlink, emptied by the events of   *)
(* the FileSystem.  Requests run in goroutines of their own, and so do     *)
(* other adapters on the same FileSystem; an event is handled by the       *)
(* goroutine that caused it, after fs.mu was released.  The kernel is      *)
(* external: it makes requests, and the notifications to it have no effect *)
(* here.                                                                   *)
(***************************************************************************)
EXTENDS Requests

CONSTANTS Threads,  \* goroutines, 1 .. n, numbered as they are free
          Start,    \* what is mounted at the start
          Ops,      \* requests: operation, path, other path or None
          InodeCap, \* inodeCap
          MaxRequests

ASSUME FuseAssumption ==
  /\ Threads \subseteq Nat /\ InodeCap \in Nat \ {0} /\ MaxRequests \in Nat /\ Start \in Trees
  /\ Ops \subseteq [op : {"lookup", "create", "mkdir", "symlink", "unlink", "rename"}
                         \cup {"mount", "unmount"},  \* another adapter
                   path : Paths \ {<<>>}, to : (Paths \ {<<>>}) \cup {None}]
  /\ \A o \in Ops : o.op = "rename" => o.to # None
  /\ None \notin [id : Nat, kind : Kinds]

VARIABLES inodes,  \* r.inodes
          lru,     \* r.lru, most recently used first; r.lruPos is where a path is in it
          made,    \* inodes made
          odd      \* paths whose inode may be of something else than is mounted, for a reason

fuseVars == <<tree, inodes, lru, made, job, started, odd>>
inodeTable == <<inodes, lru, made, odd>>

NoOp == [op |-> "lookup", path |-> <<>>, to |-> None]
\* kind     what Stat saw, or what was mounted
\* changed  another has changed tree or table at the path since the goroutine looked in the
\*          table, or since its Mount
\* stale    another has changed the tree at the path since Stat, or since Mount
\* ino      the inode it answers with
FuseIdle == [pc |-> "idle", op |-> NoOp, kind |-> "dir", changed |-> FALSE, stale |-> FALSE, ino |-> 0, code |-> ""]

FuseInit == /\ tree = Start /\ inodes = [p \in Paths |-> None] /\ lru = <<>> /\ made = 0
            /\ job = [t \in Threads |-> FuseIdle] /\ started = 0 /\ odd = {}

-----------------------------------------------------------------------------
InLru(p) == \E i \in 1 .. Len(lru) : lru[i] = p

\* The step of t to j, when it has changed the table, or the tree, at the paths in ps.
Jobs(t, ps, inTree, j) ==
  [u \in Threads |->
     IF u = t THEN j
     ELSE LET mine == job[u].op.path \in ps IN
          [job[u] EXCEPT !.changed = @ \/ mine, !.stale = @ \/ (mine /\ inTree)]]

FuseLook(t, j) == job' = [job EXCEPT ![t] = j] /\ UNCHANGED <<tree, inodeTable, started>>

\* The tree is changed at p; mounting over an inode in the table makes that one odd.
ChangeTree(t, new, p, j) ==
  /\ tree' = new /\ job' = Jobs(t, {p}, TRUE, j)
  /\ odd' = IF Mounted(new, p) /\ inodes[p] # None THEN odd \cup {p} ELSE odd
  /\ UNCHANGED <<inodes, lru, made, started>>

\* lruMoveToFront and the removal of a path from the list, where r.lruPos says it is.
LruPos(p) == CHOOSE i \in 1 .. Len(lru) : lru[i] = p
Without(p) == IF InLru(p) THEN SubSeq(lru, 1, LruPos(p) - 1) \o SubSeq(lru, LruPos(p) + 1, Len(lru)) ELSE lru
ToFront(p) == IF InLru(p) THEN <<p>> \o Without(p) ELSE lru

\* evictOldest: from the back of the list, as long as the table is too large.
Evicted(tb, l) ==
  LET size == Cardinality({ p \in Paths : tb[p] # None })
      n == IF size <= InodeCap THEN 0 ELSE IF size - InodeCap > Len(l) THEN Len(l) ELSE size - InodeCap
      gone == { l[i] : i \in Len(l) - n + 1 .. Len(l) }
  IN [tb |-> [p \in Paths |-> IF p \in gone THEN None ELSE tb[p]], l |-> SubSeq(l, 1, Len(l) - n)]

NewInode(kind) == [id |-> made + 1, kind |-> kind]

\* The inode of t goes into the table, into the list if it is added there.
Insert(t, p, ino, evicted) ==
  /\ inodes' = evicted.tb /\ lru' = evicted.l /\ made' = made + 1
  /\ odd' = (IF job[t].stale THEN odd \cup {p} ELSE odd \ {p}) \cap { q \in Paths : inodes'[q] # None }
  /\ job' = Jobs(t, {p}, FALSE, [Reply(job[t], "ok") EXCEPT !.ino = ino.id])
  /\ UNCHANGED <<tree, started>>

-----------------------------------------------------------------------------
FuseBegin(t, o) ==
  /\ started < MaxRequests /\ job[t].pc = "idle" /\ \A u \in Threads : u < t => job[u].pc # "idle"
  /\ started' = started + 1
  /\ job' = [job EXCEPT ![t] = [FuseIdle EXCEPT !.pc = o.op, !.op = o]]
  /\ UNCHANGED <<tree, inodeTable>>

FuseEnd(t) == job[t].pc = "reply" /\ FuseLook(t, FuseIdle)

\* rootNode.Lookup for a name at the root, pathNode.Lookup below: the table first.
AtRoot(p) == Parent(p) = <<>>
\* A Lookup that does not use the table.
Lookup_Miss(t) == job[t].pc = "lookup" /\ FuseLook(t, To(job[t], "stat"))
Lookup(t) ==
  LET j == job[t]  p == j.op.path IN
  /\ j.pc = "lookup"
  /\ lru' = IF AtRoot(p) /\ inodes[p] # None THEN ToFront(p) ELSE lru
  /\ job' = [job EXCEPT ![t] = IF inodes[p] = None THEN [j EXCEPT !.pc = "stat", !.changed = FALSE]
                               ELSE [j EXCEPT !.pc = "hit", !.ino = inodes[p].id]]
  /\ UNCHANGED <<tree, inodes, made, odd, started>>

\* The inode that was in the table is the answer, if the path is still there.
Hit(t) == LET s == Stat(tree, job[t].op.path) IN
          job[t].pc = "hit" /\ FuseLook(t, Reply(job[t], IF s.err = None THEN "ok" ELSE s.err))

LookupStat(t) ==
  LET j == job[t]  s == Stat(tree, j.op.path) IN
  /\ j.pc = "stat"
  /\ FuseLook(t, IF s.err # None THEN Reply(j, s.err)
             ELSE [j EXCEPT !.pc = "insert", !.kind = s.value.kind, !.stale = FALSE])

\* At the root the table is looked at again, the inode added to the list and the oldest
\* ones evicted; below the root an inode that came in meanwhile is replaced.
LookupInsert(t) ==
  LET j == job[t]  p == j.op.path  ino == NewInode(j.kind) IN
  /\ j.pc = "insert"
  /\ IF ~AtRoot(p) THEN Insert(t, p, ino, [tb |-> [inodes EXCEPT ![p] = ino], l |-> lru])
     ELSE IF inodes[p] = None THEN Insert(t, p, ino, Evicted([inodes EXCEPT ![p] = ino], <<p>> \o lru))
     ELSE /\ lru' = ToFront(p)
          /\ job' = [job EXCEPT ![t] = [Reply(j, "ok") EXCEPT !.ino = inodes[p].id]]
          /\ UNCHANGED <<tree, inodes, made, odd, started>>

\* createFile, mkdir and symlink: Mount, ...
KindOf(op) == CASE op = "mkdir" -> "dir" [] op = "symlink" -> "link" [] OTHER -> "blob"
EntryOf(op) == [kind |-> KindOf(op), data |-> Empty, writable |-> TRUE]
Make(t) ==
  LET j == job[t]  p == j.op.path
      k == [j EXCEPT !.pc = IF j.op.op = "create" THEN "open" ELSE "restat",
                     !.kind = KindOf(j.op.op), !.changed = FALSE, !.stale = FALSE]
      err == MountError(tree, p, EntryOf(j.op.op)) IN
  /\ j.pc \in {"create", "mkdir", "symlink"}
  /\ IF err # None THEN FuseLook(t, Reply(j, err))
     ELSE ChangeTree(t, Mount(tree, p, EntryOf(j.op.op)), p, k)

\* ... for a file Open, which fails if the path is gone, the flags or the mode do not
\* allow it or there are too many handles; ...
Open(t) ==
  /\ job[t].pc = "open"
  /\ \/ Mounted(tree, job[t].op.path) /\ FuseLook(t, To(job[t], "restat"))
     \/ FuseLook(t, To(job[t], "rollback"))

\* ... Stat, ...
Restat(t) ==
  /\ job[t].pc = "restat"
  /\ FuseLook(t, To(job[t], IF Found(tree, job[t].op.path) THEN "new" ELSE "rollback"))

\* ... and the inode goes into the table, but not into the list.
MakeInsert(t) ==
  LET p == job[t].op.path  ino == NewInode(job[t].kind) IN
  /\ job[t].pc = "new"
  /\ Insert(t, p, ino, [tb |-> [inodes EXCEPT ![p] = ino], l |-> lru])

\* What could not be opened stays mounted.
Rollback_Not(t) == job[t].pc = "rollback" /\ FuseLook(t, Reply(job[t], "error"))

\* A failure takes back the mount, whoever made what is mounted there now.
Rollback(t) ==
  LET j == job[t]  p == j.op.path IN
  /\ j.pc = "rollback"
  /\ IF Mounted(tree, p) THEN ChangeTree(t, Unmount(tree, p), p, [j EXCEPT !.pc = "removed", !.code = "error"])
     ELSE FuseLook(t, Reply(j, "error"))

\* unlink and rmdir, and Unmount by another adapter.
Unlink(t) ==
  LET j == job[t]  p == j.op.path IN
  /\ j.pc \in {"unlink", "unmount"}
  /\ IF Mounted(tree, p) THEN ChangeTree(t, Unmount(tree, p), p, [j EXCEPT !.pc = "removed", !.code = "ok"])
     ELSE FuseLook(t, Reply(j, "ENOENT"))

\* rename: of what Mount looks at only whether the path is taken.
RenamePath(t) ==
  LET j == job[t]  p == j.op.path  q == j.op.to IN
  /\ j.pc = "rename"
  /\ IF ~Mounted(tree, p) THEN FuseLook(t, Reply(j, "ENOENT"))
     ELSE IF p # q /\ Mounted(tree, q) THEN FuseLook(t, Reply(j, "EEXIST"))
     ELSE /\ tree' = Rename(tree, p, q)
          /\ job' = Jobs(t, {p, q}, TRUE, [j EXCEPT !.pc = "removed", !.code = "ok"])
          /\ odd' = IF inodes[q] # None THEN odd \cup {q} ELSE odd
          /\ UNCHANGED <<inodes, lru, made, started>>

\* Mount by another adapter: any kind.
Other(t) ==
  LET j == job[t]  p == j.op.path IN
  /\ j.pc = "mount"
  /\ \E op \in {"create", "mkdir"} :
       LET err == MountError(tree, p, EntryOf(op)) IN
       IF err # None THEN FuseLook(t, Reply(j, err))
       ELSE ChangeTree(t, Mount(tree, p, EntryOf(op)), p, Reply(j, "ok"))

\* The path stays in the list; nothing is removed.
Removed_List(p) == [tb |-> [inodes EXCEPT ![p] = None], l |-> lru]
Removed_Not(p) == [tb |-> inodes, l |-> lru]

\* handleEvent of a Remove: out of the table and the list.  (A Create or a Write only
\* tells the kernel.)
Removed(p) == [tb |-> [inodes EXCEPT ![p] = None], l |-> Without(p)]
HandleRemove(t) ==
  LET p == job[t].op.path IN
  /\ job[t].pc = "removed"
  /\ inodes' = Removed(p).tb /\ lru' = Removed(p).l
  /\ odd' = odd \ {p}
  /\ job' = Jobs(t, {p}, FALSE, To(job[t], "reply"))
  /\ UNCHANGED <<tree, made, started>>

FuseServe(t) == \/ FuseEnd(t) \/ Lookup(t) \/ Hit(t) \/ LookupStat(t) \/ LookupInsert(t)
                \/ Make(t) \/ Open(t) \/ Restat(t) \/ MakeInsert(t) \/ Rollback(t)
                \/ Unlink(t) \/ RenamePath(t) \/ Other(t) \/ HandleRemove(t)
FuseNext == \E t \in Threads : FuseServe(t) \/ \E o \in Ops : FuseBegin(t, o)
FuseSpec == FuseInit /\ [][FuseNext]_fuseVars

-----------------------------------------------------------------------------
Inode == [id : 1 .. made, kind : Kinds]
InodesTyped == /\ tree \in Trees /\ inodes \in [Paths -> Inode \cup {None}] /\ odd \subseteq Paths
               /\ \A t \in Threads : job[t].ino \in 0 .. made /\ job[t].kind \in Kinds

\* Besides the types: the list has the paths of the table that a Lookup at the root put
\* there, each once, and never more than inodeCap: what is beyond it in the table came
\* from below the root or from Create, and is bounded by nothing.
LruExact ==
  /\ InodesTyped
  /\ \A i, k \in 1 .. Len(lru) : lru[i] = lru[k] => i = k
  /\ \A i \in 1 .. Len(lru) : inodes[lru[i]] # None /\ AtRoot(lru[i])
  /\ Len(lru) <= InodeCap

\* An inode in the table is of the kind that its path has, but for the time between a
\* removal and its event, for an insertion that raced with a change of the path, and
\* for a mount on a path whose inode was a directory without a mount or was raced.
InodesAgree ==
  \A p \in Paths : inodes[p] # None =>
    \/ Stat(tree, p).err = None /\ Stat(tree, p).value.kind = inodes[p].kind
    \/ p \in odd \/ \E t \in Threads : job[t].pc = "removed" /\ job[t].op.path = p

\* "Check cache first for stable inode numbers": a path in the table does not change its
\* inode but by an insertion that raced with another, or that found an odd one.
StableInodes ==
  [][\A p \in Paths : inodes[p] # None /\ inodes'[p] # None /\ inodes'[p] # inodes[p] =>
       p \in odd \/ \E t \in Threads : /\ job[t].pc \in {"insert", "new"} /\ job'[t].pc = "reply"
                                       /\ job[t].op.path = p /\ job[t].changed]_fuseVars

\* A Create, Mkdir or Symlink that fails after its Mount leaves nothing mounted there,
\* unless another mounted it after that.
FailedMakeLeavesNothing ==
  [][\A t \in Threads :
       /\ job[t].op.op \in {"create", "mkdir", "symlink"} /\ ~job[t].changed
       /\ job[t].pc # "reply" /\ job'[t].pc = "reply" /\ job'[t].code = "error"
       => ~Mounted(tree', job[t].op.path)]_fuseVars
===============================================================================
