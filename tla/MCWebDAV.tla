------------------------------- MODULE MCWebDAV -------------------------------
(* Instances of WebDAV: small trees, and what clients do with them. *)
EXTENDS WebDAV, TLC

CONSTANTS v1, v2, v3

a == <<"a">>
b == <<"b">>
d == <<"d">>
dx == <<"d", "x">>
s == <<"healthz">>
AllPaths == {<<>>, a, b, d, dx, s}

Blob(v) == [kind |-> "blob", data |-> v, writable |-> TRUE]
Fixed(v) == [Blob(v) EXCEPT !.writable = FALSE]
Dir == [kind |-> "dir", data |-> Empty, writable |-> TRUE]
Link(v) == [kind |-> "link", data |-> v, writable |-> TRUE]

\* Contents that are too long; a path that is reserved, and an entry that stands for one
\* with an operation of a provider that is not registered.
TooLong == {v3}
Refused == { <<s, e>> : e \in {Dir} \cup { Blob(v) : v \in {v1, v2, v3} } \cup {Link(v2)} }
           \cup { <<p, Fixed(v2)>> : p \in AllPaths }

At(p, op) == [NoRequest EXCEPT !.path = p, !.op = op]
Put(p, v) == [At(p, "PUT") EXCEPT !.data = v]
PutIf(p, v, old) == [Put(p, v) EXCEPT !.ifMatch = old]
Copy(p, q) == [At(p, "COPY") EXCEPT !.dst = q]
Move(p, q) == [At(p, "MOVE") EXCEPT !.dst = q]
FindTo(p, n) == [At(p, "PROPFIND") EXCEPT !.depth = n]

Idly == [tree |-> NoMounts, requests |-> {}, maxRequests |-> 3, readOnly |-> FALSE, maxConns |-> 0,
         rate |-> 0, burst |-> 0, ttl |-> 0, config |-> <<>>, reloads |-> 0, maxTicks |-> 0]
OneBlob == Mount(NoMounts, a, Blob(v1))
Members == Mount(Mount(NoMounts, dx, Blob(v1)), a, Link(v2))

\* One blob, written, moved, replaced by a directory, and looked at, all at once.
Contended == [Idly EXCEPT !.tree = OneBlob,
  !.requests = { At(a, "PROPFIND"), Put(a, v2), PutIf(a, v2, v1), Move(a, b), Move(b, a), At(a, "DELETE"),
                 At(a, "MKCOL") }]

\* A directory without a mount and its member, read, copied, moved and deleted; contents
\* that are too long, a reserved path, and one mount more than there may be.
Below == [Idly EXCEPT !.tree = Members, !.maxRequests = 2,
  !.requests = { FindTo(<<>>, 2), At(a, "PROPFIND"), At(dx, "DELETE"), At(d, "MKCOL"), At(d, "DELETE"),
                 At(d, "PROPPATCH"), At(d, "SEARCH"), Put(d, v2), Put(dx, v2), Move(d, b), Move(d, d),
                 Copy(d, a), Copy(d, d), Copy(dx, a), Copy(a, b), Copy(a, a), Put(dx, v3), At(s, "MKCOL"),
                 Move(dx, s), [Copy(dx, a) EXCEPT !.overwrite = FALSE], [Copy(dx, d) EXCEPT !.ifNone = "*"],
                 [Move(dx, a) EXCEPT !.ifNone = v2], [Move(dx, b) EXCEPT !.ifMatch = v2] }]

\* A reload among requests.
Entries(q) == [i \in DOMAIN q |-> [path |-> q[i][1], entry |-> q[i][2]]]
Reloaded == [Idly EXCEPT !.tree = Members, !.maxRequests = 2, !.reloads = 1,
  !.config = Entries(<< <<a, Fixed(v1)>>, <<b, Dir>> >>),
  !.requests = { At(a, "PROPFIND"), Put(a, v2), Put(dx, v2), At(dx, "DELETE"), At(b, "MKCOL"), At(b, "DELETE"),
                 Move(a, b) }]

\* Reloads, of other configurations, beside one request: a path listed twice that is
\* mounted, one that is not, an entry that is refused in each place, more mounts than
\* there may be, an entry that does not parse.
Configs == { << <<a, Blob(v1)>>, <<a, Dir>>, <<b, Dir>> >>,
             << <<a, Dir>>, <<dx, Blob(v2)>>, <<b, Dir>>, <<b, Link(v1)>> >>,
             << <<dx, Blob(v2)>>, <<a, Fixed(v2)>>, <<b, Dir>> >>,
             << <<a, Blob(v3)>>, <<dx, Dir>> >>,
             << <<b, Dir>>, <<s, Dir>>, <<a, Dir>> >>,
             << <<a, Dir>>, <<b, Dir>>, <<d, Dir>>, <<dx, Dir>> >>,
             << <<a, Blob(v2)>>, <<b, None>> >> }
Reloads == { [Idly EXCEPT !.tree = Members, !.maxRequests = 1, !.reloads = 2, !.config = Entries(q),
                          !.requests = { At(a, "PROPFIND"), At(b, "MKCOL"), Move(a, b) }] : q \in Configs }

\* Both limiters; a burst that the rate makes while a bucket becomes idle, one that it does
\* not, and none (as for a rate below one).
Limited == [Idly EXCEPT !.tree = OneBlob, !.maxRequests = 5, !.maxConns = 1, !.rate = 1, !.burst = 2,
  !.ttl = 2, !.maxTicks = 4,
  !.requests = { At(a, "GET"), At(b, "HEAD"), At(a, "HEAD"), [At(a, "GET") EXCEPT !.ifNone = v1] }]
Limits == { [Limited EXCEPT !.maxConns = 0, !.maxRequests = 8, !.burst = n, !.ttl = 1,
                            !.requests = { At(b, "GET") }] : n \in {0, 4} }

ReadOnly == [Idly EXCEPT !.tree = OneBlob, !.readOnly = TRUE, !.maxRequests = 2,
  !.requests = { At(a, "GET"), Put(a, v2), At(a, "DELETE"), At(a, "PROPFIND") }]

AllOfThem == {Contended, Below, Reloaded, Limited, ReadOnly} \cup Reloads \cup Limits
==============================================================================
