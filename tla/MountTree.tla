------------------------------ MODULE MountTree ------------------------------
(***************************************************************************)
(* The namespace as the adapters use it: what a FileSystem call, made      *)
(* under fs.mu, answers and does.  Operators only; paths have no           *)
(* parameters here (module Namespace has them).                            *)
(*                                                                         *)
(* A path is a sequence of names.  An entry has a kind, contents (the      *)
(* bytes of a blob, the target of a link, Empty for the rest) and whether  *)
(* its mode lets the callers write.  Sizes and times of modification are   *)
(* told apart as the contents are.                                         *)
(***************************************************************************)
EXTENDS Naturals, Sequences, FiniteSets

CONSTANTS Paths, \* the paths in use with all their parents, <<>> being the root
          Data,  \* contents
          Large,     \* contents that are longer than MaxBlobSize
          MaxMounts,
          Invalid,   \* <<path, entry>> that Mount refuses as such: the path is reserved, the
                     \* entry is not valid, or it has an operation of an unknown provider
          None

Empty == "empty"
Kinds == {"blob", "dir", "link"}
Entry == [kind : Kinds, data : Data \cup {Empty}, writable : BOOLEAN]

\* Errors of the calls below; "panic" is the end of the process.
Errors == {"ENOENT", "EEXIST", "ENOTDIR", "EISDIR", "EACCES", "ENOSYS", "EINVAL", "ENOSPC", "panic"}

Parent(p) == SubSeq(p, 1, Len(p) - 1)

ASSUME PathsAssumption ==
  /\ Paths \subseteq Seq(STRING) /\ <<>> \in Paths
  /\ \A p \in Paths : \A n \in 0 .. Len(p) : SubSeq(p, 1, n) \in Paths
  /\ Large \subseteq Data /\ MaxMounts \in Nat /\ Invalid \subseteq Paths \X Entry
  /\ Empty \notin Data /\ None \notin Errors \cup Paths \cup Data \cup {Empty} \cup Entry

\* p is q or above it.
Above(p, q) == Len(p) <= Len(q) /\ SubSeq(q, 1, Len(p)) = p

\* The trie: nodes once made stay, mounts come and go.
Trees == [nodes : SUBSET Paths, mount : [Paths -> Entry \cup {None}]]
\* Every mount has its node, every node the ones above it.
WellFormed(t) == /\ <<>> \in t.nodes /\ \A p \in Paths : t.mount[p] # None => p \in t.nodes
                 /\ \A p \in Paths, q \in t.nodes : Above(p, q) => p \in t.nodes
NoMounts == [nodes |-> {<<>>}, mount |-> [p \in Paths |-> None]]

Children(t, p) == { q \in t.nodes \ {<<>>} : Parent(q) = p }

\* router.match finds a mount, or a node with children and no mount of its own.
Mounted(t, p) == t.mount[p] # None
Found(t, p) == Mounted(t, p) \/ (p \in t.nodes /\ Children(t, p) # {})

-----------------------------------------------------------------------------
\* An answer is an error, or None and what was asked for.
Answer(err, value) == [err |-> err, value |-> value]
IntermediateDir == [kind |-> "dir", data |-> Empty, writable |-> FALSE]
NoEntry == IntermediateDir

\* Stat: a node without a mount shows as a read-only directory.
Stat(t, p) == IF ~Found(t, p) THEN Answer("ENOENT", NoEntry)
              ELSE IF Mounted(t, p) THEN Answer(None, t.mount[p]) ELSE Answer(None, IntermediateDir)

\* Read
Read(t, p) ==
  IF ~Found(t, p) THEN Answer("ENOENT", Empty)
  ELSE IF ~Mounted(t, p) THEN Answer("ENOTDIR", Empty)
  ELSE IF t.mount[p].kind = "dir" THEN Answer("EISDIR", Empty)
  ELSE Answer(None, t.mount[p].data)

\* A Write that looks at the mode only.
WriteError_AnyKind(t, p) ==
  IF ~Found(t, p) THEN "ENOENT" ELSE IF ~Mounted(t, p) THEN "ENOTDIR"
  ELSE IF ~t.mount[p].writable THEN "EACCES" ELSE None

\* What Write finds under fs.mu.RLock: None if it will go on to write a blob.
WriteError(t, p) ==
  IF ~Found(t, p) THEN "ENOENT" ELSE IF ~Mounted(t, p) THEN "ENOTDIR"
  ELSE IF ~t.mount[p].writable THEN "EACCES"
  ELSE IF t.mount[p].kind # "blob" THEN "ENOSYS" ELSE None

\* What writeBlob finds when it looks again under fs.mu.Lock: the kind is not
\* looked at, and a node without a mount is a nil dereference.
BlobError(t, p, d) ==
  IF ~Found(t, p) THEN "ENOENT" ELSE IF ~Mounted(t, p) THEN "panic"
  ELSE IF ~t.mount[p].writable THEN "EACCES" ELSE IF d \in Large THEN "ENOSPC" ELSE None

\* The tree in which it has written.
Written(t, p, d) == [t EXCEPT !.mount[p].data = d]

\* Why Mount refuses the entry: None if it does not.  (An unknown provider is looked for
\* after the limits; which of two errors is the answer makes no difference here.)
MountError(t, p, e) ==
  IF <<p, e>> \in Invalid THEN "EINVAL"
  ELSE IF Cardinality({ q \in Paths : Mounted(t, q) }) >= MaxMounts THEN "ENOSPC"
  ELSE IF e.kind = "blob" /\ e.data \in Large THEN "ENOSPC"
  ELSE IF Mounted(t, p) THEN "EEXIST" ELSE None

\* Mount, unless it is refused, makes the nodes on the way.
Mount(t, p, e) == [nodes |-> t.nodes \cup { q \in Paths : Above(q, p) },
                   mount |-> [t.mount EXCEPT ![p] = e]]

\* Unmount, unless nothing is mounted there (ENOENT), leaves the nodes.
Unmount(t, p) == [t EXCEPT !.mount[p] = None]

\* Rename of a mount to a path that is not mounted; its members stay behind.
Rename(t, p, q) == Mount(Unmount(t, p), q, t.mount[p])

\* Snapshot as a function from the mounted paths to their entries.
Snapshot(t) == [p \in { q \in Paths : Mounted(t, q) } |-> t.mount[p]]

\* DiffSnapshots of the mounts and the entries of a configuration, a sequence in which
\* a path may be listed more than once: the paths it does not list, and the places in
\* it that change a mount or add one.  The time of modification is part of the
\* comparison: an entry that was mounted has one, and an entry of a configuration has
\* none, so what is in both always counts as modified.
Diff(old, new) == [removed  |-> { p \in DOMAIN old : \A i \in DOMAIN new : new[i].path # p },
                   modified |-> { i \in DOMAIN new : new[i].path \in DOMAIN old },
                   added    |-> { i \in DOMAIN new : new[i].path \notin DOMAIN old }]
=============================================================================
