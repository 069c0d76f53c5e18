----------------------------- MODULE MCDynamicDir -----------------------------
(* An instance of DynamicDir: a dynamic directory and a blob to mount below it. *)
EXTENDS DynamicDir

d == <<"d">>
dx == <<"d", "x">>
AllPaths == {<<>>, d, dx}

Of(kind) == [kind |-> kind, data |-> Empty, writable |-> TRUE]
Mounts == Mount(NoMounts, d, Of("dir"))
Blob == Of("blob")

AllOps == { [op |-> op, path |-> d] : op \in {"list", "read", "unmount"} }
          \cup { [op |-> "mount", path |-> dx] }
===============================================================================
