----------------------------- MODULE MCFuseInodes -----------------------------
(* An instance of FuseInodes: two names at the root, a directory without a     *)
(* mount and a name below it.                                                  *)
EXTENDS FuseInodes

CONSTANTS v1

a == <<"a">>
b == <<"b">>
d == <<"d">>
dx == <<"d", "x">>
AllPaths == {<<>>, a, b, d, dx}

Blob == [kind |-> "blob", data |-> v1, writable |-> TRUE]
Mounts == Mount(Mount(NoMounts, a, Blob), dx, Blob)

O(op, p) == [op |-> op, path |-> p, to |-> None]
AllOps == { O("lookup", p) : p \in {a, b, d, dx} }
          \cup { O("create", a), O("create", dx), O("mkdir", dx), O("symlink", a), O("mkdir", d) }
          \cup { O("unlink", a), O("unlink", dx), O("unmount", a), O("mount", dx) }
          \cup { [op |-> "rename", path |-> a, to |-> b], [op |-> "rename", path |-> dx, to |-> d] }
===============================================================================
