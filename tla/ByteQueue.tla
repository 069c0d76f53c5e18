------------------------------ MODULE ByteQueue ------------------------------
(***************************************************************************)
(* What a mounted stream promises its handles (core/stream.go): one        *)
(* bounded FIFO of bytes, shared by every handle of the path, written in   *)
(* whole chunks.  StreamBuffer, the ring of the code, implements it.       *)
(***************************************************************************)
EXTENDS Integers, Sequences

CONSTANTS Byte,      \* the bytes a payload is made of
          Capacity,  \* StreamConfig.Capacity
          MaxChunk   \* the longest chunk

VARIABLES q,         \* the bytes accepted and not yet read, oldest first
          moved,     \* the chunk last accepted, or the bytes last returned by a read
          closed,    \* the stream was closed
          lossy      \* the mount asked for drop mode

Init == q = <<>> /\ moved = <<>> /\ closed = FALSE /\ lossy \in BOOLEAN

\* The last n elements of s.
LastN(s, n) == SubSeq(s, Len(s) - n + 1, Len(s))

\* A chunk is accepted whole and at the back.  Only drop mode accepts one that
\* does not fit, and it then forgets the oldest bytes and nothing else.
Put(chunk) ==
  /\ ~closed
  /\ IF Len(q) + Len(chunk) <= Capacity
     THEN q' = q \o chunk
     ELSE lossy /\ q' = LastN(q \o chunk, Capacity)
  /\ moved' = chunk
  /\ UNCHANGED <<closed, lossy>>

\* A read takes bytes from the front, closed or not.
Take(n) == /\ n <= Len(q)
           /\ moved' = SubSeq(q, 1, n)
           /\ q' = SubSeq(q, n + 1, Len(q))
           /\ UNCHANGED <<closed, lossy>>

Close == closed' = TRUE /\ UNCHANGED <<q, moved, lossy>>

Next == \/ \E n \in 1 .. MaxChunk : \E chunk \in [1 .. n -> Byte] : Put(chunk)
        \/ \E n \in 1 .. MaxChunk : Take(n)
        \/ Close

Spec == Init /\ [][Next]_<<q, moved, closed, lossy>>
=============================================================================
