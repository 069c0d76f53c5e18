------------------------------ MODULE Namespace ------------------------------
(***************************************************************************)
(* The mount namespace: the route trie (core/router.go) and the operations *)
(* of FileSystem that change it (Mount, Unmount, Rename, Restore and the   *)
(* skill files at the root), with the skills and the stream buffers they   *)
(* carry along.  fs.mu is held for the whole of each of them; the events   *)
(* of a mount are delivered, one subscriber call each, where the code      *)
(* calls emit.  Client goroutines resolve a stream path under fs.mu and    *)
(* get its buffer after they released it.                                  *)
(*                                                                         *)
(* A path is a sequence of segments; a segment of Params stands for ":key" *)
(* in a pattern.  A trie node is named by the segments that lead to it,    *)
(* with "*" for the one parameter child a node may have.                   *)
(***************************************************************************)
EXTENDS Naturals, Sequences, FiniteSets

CONSTANTS Patterns,  \* paths that are mounted, unmounted and renamed
          Params,    \* segments that are parameters
          Requests,  \* paths that are looked up (no parameter segments)
          Clients,   \* goroutines that read or write streams
          Scenarios, \* what the system is used for, one of:
                     \*   patterns    the paths in use
                     \*   kinds       the kinds of mounts
                     \*   maxMounts   cfg.MaxMounts
                     \*   clients     the goroutines in use
                     \*   callsBack   the subscriber calls back into the FileSystem
                     \*   maxRenames, maxRestores   bounds
          None

\* A skill may also show its SKILL.md at the root, or SKILL.md and AGENTS.md.
Kinds == {"blob", "stream", "skill", "root", "agents"}

SkillFile == <<"SKILL.md">>
AgentsFile == <<"AGENTS.md">>

\* Everything that is ever mounted, and its entry.
Mountable == Patterns \cup {SkillFile, AgentsFile}
Entry == [path : Mountable, kind : Kinds, skill : Patterns \cup {None}]

\* "*" is kept for the parameter child and is no segment.
ASSUME NamespaceAssumption ==
  /\ Patterns \cup Requests \subseteq Seq(STRING)
  /\ \A p \in Patterns \cup Requests : \A i \in DOMAIN p : p[i] # "*"
  /\ None \notin Params /\ None \notin Patterns \cup Requests /\ None \notin Entry /\ None # "EEXIST"
  /\ \A c \in Scenarios :
       /\ c.patterns \subseteq Patterns /\ c.kinds \subseteq Kinds /\ c.clients \subseteq Clients
       /\ c.maxMounts \in Nat \ {0} /\ c.callsBack \in BOOLEAN
       /\ c.maxRenames \in Nat /\ c.maxRestores \in Nat
  /\ \A q \in Requests \cup {SkillFile, AgentsFile} : \A i \in DOMAIN q : q[i] \notin Params

\* The trie node of a path, and the nodes on the way to it.
Pos(p) == [i \in DOMAIN p |-> IF p[i] \in Params THEN "*" ELSE p[i]]
Prefix(p, n) == SubSeq(Pos(p), 1, n)
Nodes == UNION { { Prefix(p, n) : n \in 0 .. Len(p) } : p \in Mountable }

ASSUME NodesAssumption == None \notin Nodes

VARIABLES trie,    \* nodes made, paramKey and mount of every node
          skills,  \* the generated skills; a skill has the name of the path it was mounted at
          streams, \* paths with a stream buffer
          pc,      \* idle; skill, skillEmit, agents, agentsEmit, restore under fs.mu; emit after it
          call,    \* the entry being mounted
          pending, \* entries still to be restored
          got,     \* a client's path, resolved and not yet turned into a buffer
          saved,   \* the last Snapshot
          last,    \* the last call that ended: operation, path and error
          renames, restores,
          conf     \* the scenario

cvars == <<pc, call, pending, last>>
counts == <<renames, restores, conf>>
vars == <<trie, skills, streams, cvars, got, saved, counts>>

Init == /\ trie = [nodes |-> {<<>>}, key |-> [n \in Nodes |-> None], mount |-> [n \in Nodes |-> None]]
        /\ skills = {} /\ streams = {} /\ pc = "idle" /\ call = None /\ pending = {}
        /\ got = [c \in Clients |-> None] /\ saved = {}
        /\ last = [op |-> "none", path |-> <<>>, err |-> None]
        /\ renames = 0 /\ restores = 0 /\ conf \in Scenarios

-----------------------------------------------------------------------------
\* router.add walks and makes nodes up to the first parameter whose node already
\* has a parameter of another name; the nodes stay, whatever comes of the mount.
Conflicts(tr, p) == { i \in DOMAIN p : p[i] \in Params /\ tr.key[Prefix(p, i - 1)] \notin {None, p[i]} }
Reach(tr, p) == IF Conflicts(tr, p) = {} THEN Len(p)
                ELSE (CHOOSE i \in Conflicts(tr, p) : \A j \in Conflicts(tr, p) : i <= j) - 1
\* The way to p, with its parameters named.
Grow(tr, p) ==
  LET on(n) == { i \in 1 .. Reach(tr, p) : p[i] \in Params /\ Prefix(p, i - 1) = n } IN
  [tr EXCEPT !.nodes = @ \cup { Prefix(p, i) : i \in 1 .. Reach(tr, p) },
             !.key = [n \in Nodes |-> IF on(n) = {} THEN @[n] ELSE p[CHOOSE i \in on(n) : TRUE]]]

\* EEXIST
Taken(tr, p) == Conflicts(tr, p) # {} \/ tr.mount[Pos(p)] # None

add(tr, e) == IF Taken(tr, e.path) THEN Grow(tr, e.path)
              ELSE [Grow(tr, e.path) EXCEPT !.mount[Pos(e.path)] = e]

\* router.remove: the node loses its mount and stays; the names of parameters are
\* not compared.
remove(tr, p) == [tr EXCEPT !.mount[Pos(p)] = None]

\* The parameter child before the static one.
nextRoute_ParamFirst(tr, n, s) ==
  IF Append(n, "*") \in tr.nodes THEN Append(n, "*")
  ELSE IF Append(n, s) \in tr.nodes THEN Append(n, s) ELSE None

\* nextRoute: the static child, or else the parameter child.
nextRoute(tr, n, s) ==
  IF Append(n, s) \in tr.nodes THEN Append(n, s)
  ELSE IF Append(n, "*") \in tr.nodes THEN Append(n, "*") ELSE None

\* router.match follows nextRoute and never turns back; None is ENOENT or a
\* directory without a mount.
match(tr, q) ==
  LET walk[i \in 0 .. Len(q)] ==
        IF i = 0 THEN <<>>
        ELSE IF walk[i - 1] = None THEN None ELSE nextRoute(tr, walk[i - 1], q[i])
  IN IF walk[Len(q)] = None THEN None ELSE tr.mount[walk[Len(q)]]

\* router.snapshot, and router.count
Entries(tr) == { tr.mount[n] : n \in Nodes } \ {None}
count(tr) == Cardinality({ n \in Nodes : tr.mount[n] # None })

-----------------------------------------------------------------------------
\* A mount whose event is emitted before fs.mu is released.
Held_Emit == pc # "idle"

\* fs.mu is held.
Held == pc \notin {"idle", "emit"}

Return(op, p, err) == pc' = "idle" /\ call' = None /\ last' = [op |-> op, path |-> p, err |-> err]
Ended(op, p) == pc' = "emit" /\ last' = [op |-> op, path |-> p, err |-> None]

\* mountLocked refuses the mount: ENOSPC.
Full(tr) == count(tr) >= conf.maxMounts

\* SkillGenerator.Generate keeps the files of the entry's skill, if it has one, in
\* memory under the skill's name.
Generate(e) == skills \cup ({e.skill} \ {None})

\* Mount under fs.mu.  Generating the skill may fail (its template), and a skill
\* that shows its files at the root goes on with MountSkillAtRoot.
Mount(p, k) ==
  LET e == [path |-> p, kind |-> k, skill |-> IF k \in {"blob", "stream"} THEN None ELSE p]
      ok == ~Full(trie) /\ ~Taken(trie, p) IN
  /\ pc = "idle"
  /\ \/ Full(trie) /\ Return("mount", p, "ENOSPC") /\ UNCHANGED <<trie, skills>>
     \/ /\ ~Full(trie) /\ Taken(trie, p)
        /\ trie' = add(trie, e) /\ Return("mount", p, "EEXIST") /\ UNCHANGED skills
     \/ /\ ok /\ e.skill # None
        /\ trie' = remove(add(trie, e), p) /\ Return("mount", p, "template") /\ UNCHANGED skills
     \/ /\ ok /\ trie' = add(trie, e)
        /\ skills' = Generate(e)
        /\ call' = e
        /\ IF k \in {"root", "agents"} THEN pc' = "skill" /\ UNCHANGED last ELSE Ended("mount", p)
  /\ UNCHANGED <<streams, pending, got, saved, counts>>

\* MountSkillAtRoot adds a root file, past the limit if need be, and emits its
\* event; if the path is taken the mount itself, and only that, is taken back.
RootFile(file, from, to) ==
  /\ pc = from
  /\ \/ /\ Taken(trie, file)
        /\ trie' = remove(add(trie, [path |-> file, kind |-> "blob", skill |-> None]), call.path)
        /\ Return("mount", call.path, "EEXIST")
     \/ /\ ~Taken(trie, file)
        /\ trie' = add(trie, [path |-> file, kind |-> "blob", skill |-> None])
        /\ pc' = to /\ UNCHANGED <<call, last>>
  /\ UNCHANGED <<skills, streams, pending, got, saved, counts>>

\* emit calls the subscriber (for a Rename the two calls in a row), which may need fs.mu itself; then the call goes on.
Deliver ==
  /\ pc \in {"skillEmit", "agentsEmit", "emit"}
  /\ conf.callsBack => ~Held
  /\ \/ pc = "skillEmit" /\ call.kind = "agents" /\ pc' = "agents" /\ UNCHANGED <<call, last>>
     \/ /\ (pc = "skillEmit" /\ call.kind = "root") \/ pc = "agentsEmit"
        /\ Ended("mount", call.path) /\ UNCHANGED call
     \/ pc = "emit" /\ pc' = "idle" /\ call' = None /\ UNCHANGED last
  /\ UNCHANGED <<trie, skills, streams, pending, got, saved, counts>>

\* UnmountSkillAtRoot, which does not take fs.mu.
UnmountSkillAtRoot ==
  /\ trie' = remove(remove(trie, AgentsFile), SkillFile)
  /\ UNCHANGED <<skills, streams, cvars, got, saved, counts>>

\* Unmount under fs.mu: the mount, its skill and the stream buffer of its path go.
Unmount(p) ==
  LET m == trie.mount[Pos(p)] IN
  /\ pc = "idle"
  /\ \/ m = None /\ Return("unmount", p, "ENOENT") /\ UNCHANGED <<trie, skills, streams>>
     \/ /\ m # None
        /\ trie' = remove(trie, p)
        /\ skills' = skills \ {m.skill}
        /\ streams' = streams \ {p}
        /\ Ended("unmount", p) /\ call' = None
  /\ UNCHANGED <<pending, got, saved, counts>>

\* A rename that forgets the path inside the entry, and one that does not put the
\* mount back.
renameLocked_KeepsPath(p, q) ==
  LET m == trie.mount[Pos(p)] IN
  [add(remove(trie, p), [m EXCEPT !.path = q]) EXCEPT !.mount[Pos(q)] =
     IF Taken(remove(trie, p), q) THEN @ ELSE m]
renameLocked_NoRestore(p, q) ==
  add(remove(trie, p), [trie.mount[Pos(p)] EXCEPT !.path = q])

\* renameLocked on a mounted path: take it out, add it under the new path, and put
\* it back under the old one if that fails.
renameLocked(p, q) ==
  LET m == trie.mount[Pos(p)]
      moved == add(remove(trie, p), [m EXCEPT !.path = q]) IN
  IF Taken(remove(trie, p), q) THEN add(moved, [m EXCEPT !.path = p]) ELSE moved

\* Rename under fs.mu.
Rename(p, q) ==
  /\ pc = "idle" /\ renames < conf.maxRenames
  /\ renames' = renames + 1
  /\ \/ trie.mount[Pos(p)] = None /\ Return("rename", p, "ENOENT") /\ UNCHANGED trie
     \/ /\ trie.mount[Pos(p)] # None
        /\ trie' = renameLocked(p, q)
        /\ IF Taken(remove(trie, p), q) THEN Return("rename", p, "EEXIST")
                                        ELSE Ended("rename", p) /\ call' = None
  /\ UNCHANGED <<skills, streams, pending, got, saved, restores, conf>>

Snapshot ==
  /\ pc = "idle" /\ restores < conf.maxRestores
  /\ saved' = Entries(trie)
  /\ UNCHANGED <<trie, skills, streams, cvars, got, counts>>

\* A Restore on top of what is mounted.
Cleared_Not(tr) == tr

\* Restore removes the Path of every entry ...
Cleared(tr) ==
  LET gone == { Pos(e.path) : e \in Entries(tr) } IN
  [tr EXCEPT !.mount = [n \in Nodes |-> IF n \in gone THEN None ELSE @[n]]]

\* ... under fs.mu, and adds the entries of the snapshot in turn.
Restore ==
  /\ pc = "idle" /\ restores < conf.maxRestores
  /\ restores' = restores + 1
  /\ trie' = Cleared(trie)
  /\ pc' = "restore" /\ pending' = saved
  /\ UNCHANGED <<skills, streams, call, last, got, saved, renames, conf>>

RestoreStep ==
  /\ pc = "restore"
  /\ \/ \E e \in pending :
          /\ trie' = add(trie, e)
          /\ IF Taken(trie, e.path)
             THEN Return("restore", e.path, "EEXIST") /\ pending' = {}
             ELSE pending' = pending \ {e} /\ UNCHANGED <<pc, call, last>>
     \/ pending = {} /\ Return("restore", <<>>, None) /\ UNCHANGED <<trie, pending>>
  /\ UNCHANGED <<skills, streams, got, saved, counts>>

-----------------------------------------------------------------------------
StreamAt(q) == match(trie, q) # None /\ match(trie, q).kind = "stream"

\* A Read or Write finds a stream mount, under fs.mu ...
StreamMatch(c, q) ==
  /\ ~Held /\ got[c] = None
  /\ StreamAt(q)
  /\ got' = [got EXCEPT ![c] = q]
  /\ UNCHANGED <<trie, skills, streams, cvars, saved, counts>>

\* ... and, having released it, gets the buffer or makes one.
StreamGet(c) ==
  /\ got[c] # None
  /\ streams' = streams \cup {got[c]}
  /\ got' = [got EXCEPT ![c] = None]
  /\ UNCHANGED <<trie, skills, cvars, saved, counts>>

Step == \/ RootFile(SkillFile, "skill", "skillEmit")
        \/ RootFile(AgentsFile, "agents", "agentsEmit")
        \/ Deliver \/ RestoreStep

Next == \/ \E p \in conf.patterns : \/ \E k \in conf.kinds : Mount(p, k)
                                    \/ Unmount(p)
                                    \/ \E q \in conf.patterns : Rename(p, q)
        \/ Snapshot \/ Restore \/ UnmountSkillAtRoot \/ Step
        \/ \E c \in conf.clients : StreamGet(c) \/ \E q \in Requests : StreamMatch(c, q)

Spec == Init /\ [][Next]_vars

\* The goroutine inside a call runs, as far as its locks let it.
FairSpec == Spec /\ WF_vars(Step)

-----------------------------------------------------------------------------
\* No skill shows its files at the root, and nothing else is mounted there.
RootFiles == {SkillFile, AgentsFile}
NoRootFiles == conf.kinds \cap {"root", "agents"} = {} /\ \A p \in conf.patterns : Pos(p) \notin RootFiles

TypeOK == /\ DOMAIN trie = {"nodes", "key", "mount"}
          /\ trie.nodes \subseteq Nodes /\ <<>> \in trie.nodes
          /\ trie.key \in [Nodes -> Params \cup {None}]
          /\ trie.mount \in [Nodes -> Entry \cup {None}]
          /\ skills \subseteq Patterns /\ streams \subseteq Requests
          /\ pc \in {"idle", "skill", "skillEmit", "agents", "agentsEmit", "restore", "emit"}
          /\ call \in Entry \cup {None} /\ pending \subseteq saved /\ saved \subseteq Entry
          /\ got \in [Clients -> Requests \cup {None}]

\* The Path inside a mounted entry leads to the node that holds it, names of
\* parameters included: Snapshot, Restore and Unmount go by it.
WellPlaced ==
  \A n \in Nodes : trie.mount[n] # None =>
    LET p == trie.mount[n].path IN
    /\ Pos(p) = n /\ n \in trie.nodes
    /\ \A i \in DOMAIN p : p[i] \in Params => trie.key[Prefix(p, i - 1)] = p[i]

Instance(q, p) == Len(q) = Len(p) /\ \A i \in DOMAIN p : p[i] \in Params \cup {q[i]}
Beats(a, b) == \E i \in DOMAIN a : /\ a[i] \notin Params /\ b[i] \in Params
                                   /\ \A j \in 1 .. i - 1 : a[j] \in Params <=> b[j] \in Params

\* A lookup returns a mount whose pattern fits the path, and none that a more
\* static mounted pattern beats; a path mounted literally is always found.  Nodes
\* left over by removed or refused mounts never lead a lookup astray to another mount.
MatchBest ==
  \A q \in Requests :
    LET m == match(trie, q) IN
    /\ m # None => /\ Instance(q, m.path)
                   /\ \A e \in Entries(trie) : Instance(q, e.path) => ~Beats(e.path, m.path)
    /\ \A e \in Entries(trie) : e.path = q => m = e

\* "It returns an error if oldPath does not exist or newPath is already mounted":
\* a Rename that fails leaves every mount where it was, if it was given the path of
\* the mount with its own parameter names.
FailedRenameKeeps ==
  [][LET m == trie.mount[Pos(last'.path)] IN
     renames' # renames /\ last'.err # None /\ (m # None => m.path = last'.path)
       => Entries(trie') = Entries(trie)]_vars

\* A snapshot of this namespace can always be restored, and exactly, whatever was
\* mounted, removed or renamed in between; but for the files at the root, which
\* UnmountSkillAtRoot may remove in the meantime.
RestoreExact ==
  [][pc = "restore" /\ pc' = "idle" =>
       /\ last'.err = None /\ Entries(trie') \subseteq saved
       /\ \A e \in saved \ Entries(trie') : Pos(e.path) \in RootFiles]_vars

\* "Returns EEXIST if the path is taken": and only then, unless it names a parameter
\* differently from mounts of before, or a file of the skill at the root is taken.
ExistMeansTaken ==
  NoRootFiles /\ last.op = "mount" /\ last.err = "EEXIST" /\ pc = "idle"
    => Conflicts(trie, last.path) # {} \/ trie.mount[Pos(last.path)] # None

\* "Emit after releasing fs.mu so subscribers can call back into the FS without
\* deadlocking": every call returns although the subscriber needs fs.mu.
CallsReturn == pc # "idle" ~> pc = "idle"

\* A mounted skill is served under /skills, where nothing is renamed or restored.
SkillServed == conf.maxRenames = 0 /\ conf.maxRestores = 0 =>
                 \A e \in Entries(trie) : e.skill # None => e.skill \in skills

\* The trie is sound: entries lie where their path leads, only what is in the way
\* refuses a mount, and skills and entries agree.
TrieSound == TypeOK /\ WellPlaced /\ ExistMeansTaken /\ SkillServed
=============================================================================
