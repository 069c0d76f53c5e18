---------------------------- MODULE StreamBuffer ----------------------------
(***************************************************************************)
(* The ring buffer behind a KindStream mount (core/stream.go) with the     *)
(* goroutines that read and write it through FileSystem.Read/Write or      *)
(* Handle.ReadAll/Write.  b.mu is held from entry to return except inside  *)
(* b.cond.Wait(), so every step below is one mutex-held run of the code.   *)
(* Broadcast moves each waiter from "wait" to "woken"; a woken goroutine   *)
(* then competes for b.mu and re-evaluates its loop condition.             *)
(***************************************************************************)
EXTENDS Integers, Sequences

CONSTANTS Byte,      \* byte values
          Capacity,  \* b.capacity
          StreamConfigs, \* the StreamConfigs a mount may have: Mode and MaxChunkSize
          MaxChunk,  \* the longest MaxChunkSize among them
          PoolChunk, \* streamReadChunk, the length of fs.bufPool's buffers
          Writers,   \* goroutines that write
          Readers,   \* goroutines that read
          Payloads   \* the payloads of the Write calls

ASSUME StreamAssumption ==
  /\ Capacity \in Nat \ {0}
  /\ StreamConfigs \subseteq [mode : {"block", "drop", "error"}, chunk : Nat \ {0}]
  /\ MaxChunk \in Nat /\ \A c \in StreamConfigs : c.chunk <= MaxChunk
  /\ PoolChunk \in Nat \ {0}
  /\ Payloads \subseteq Seq(Byte) \ {<<>>}
  /\ Byte # {}

VARIABLES conf,   \* b.mode and b.maxChunkSize, fixed when the buffer is made
          buf, r, w, count, closed, \* the rest of the streamBuffer
          wpc,    \* writer: idle, loop (about to call b.write), wait, woken
          rem,    \* writer: the part of the payload not written yet
          wnb,    \* writer: the nonblock argument
          rpc,    \* reader: idle, enter (about to call b.read), wait, woken
          rnb,    \* reader: the nonblock argument
          moved   \* the bytes last copied into the ring, or out of it

ring == <<conf, buf, r, w, count, closed>>
wvars == <<wpc, rem, wnb>>
rvars == <<rpc, rnb, moved>>
vars == <<ring, wvars, rvars>>

Index == 0 .. Capacity - 1

\* newStreamBuffer: an empty ring; make() zeroes the array.
Init == /\ conf \in StreamConfigs
        /\ buf = [i \in Index |-> CHOOSE b \in Byte : TRUE]
        /\ r = 0 /\ w = 0 /\ count = 0 /\ closed = FALSE
        /\ wpc = [t \in Writers |-> "idle"]
        /\ rem = [t \in Writers |-> <<>>]
        /\ wnb = [t \in Writers |-> FALSE]
        /\ rpc = [t \in Readers |-> "idle"]
        /\ rnb = [t \in Readers |-> FALSE]
        /\ moved = <<>>

-----------------------------------------------------------------------------
\* A Signal where the code broadcasts: one of the parked goroutines wakes.
Woken_Signal(pc) ==
  LET parked == { t \in DOMAIN pc : pc[t] = "wait" } IN
  IF parked = {} THEN pc ELSE [pc EXCEPT ![CHOOSE t \in parked : TRUE] = "woken"]

\* b.cond.Broadcast()
Woken(pc) == [t \in DOMAIN pc |-> IF pc[t] = "wait" THEN "woken" ELSE pc[t]]

\* The slice toWrite: at most maxChunkSize bytes of what is left.
ChunkLen(t) == IF Len(rem[t]) > conf.chunk THEN conf.chunk ELSE Len(rem[t])
toWrite(t) == SubSeq(rem[t], 1, ChunkLen(t))

\* Room counted one byte too few.
Fits_Strict(n) == n < Capacity - count

\* len(toWrite) <= b.capacity - b.count
Fits(n) == n <= Capacity - count

\* len(p) of b.read: Handle.ReadAll brings maxChunkSize bytes, FileSystem.Read a
\* pooled buffer cut to it.
ReadLens == {conf.chunk, IF PoolChunk < conf.chunk THEN PoolChunk ELSE conf.chunk}

\* Running (or about to run) b.write / b.read with b.mu.
Writing(t) == wpc[t] \in {"loop", "woken"}
Reading(t) == rpc[t] \in {"enter", "woken"}

\* b.r or b.w after n steps of (i + 1) % b.capacity.
Advance(i, n) == (i + n) % Capacity

\* A copy that keeps the first lap of a long chunk.
CopyIn_FirstLap(chunk) ==
  [j \in Index |-> IF (j - w) % Capacity < Len(chunk)
                   THEN chunk[1 + ((j - w) % Capacity)] ELSE buf[j]]

\* The copy loop.  Slot j is back(j) slots before the last one written; it holds
\* that byte of the chunk, and its old byte when the chunk did not reach it.  A
\* chunk longer than the ring overwrites its own first bytes.
CopyIn(chunk) ==
  LET back(j) == (w + Len(chunk) - 1 - j) % Capacity IN
  [j \in Index |-> IF back(j) < Len(chunk) THEN chunk[Len(chunk) - back(j)] ELSE buf[j]]

\* Drop mode advances r once for every byte that does not fit; count may pass
\* below zero on the way when the chunk is longer than the ring.
Dropped(n) == IF conf.mode = "drop" /\ ~Fits(n) THEN n - (Capacity - count) ELSE 0

-----------------------------------------------------------------------------
\* FileSystem.Write / Handle.Write on a stream mount: the chunk loop starts.
WriteCall(t, p, nb) ==
  /\ wpc[t] = "idle"
  /\ wpc' = [wpc EXCEPT ![t] = "loop"]
  /\ rem' = [rem EXCEPT ![t] = p]
  /\ wnb' = [wnb EXCEPT ![t] = nb]
  /\ UNCHANGED <<ring, rvars>>

\* The call ends with an error; what is left of the payload is dropped.
WriteReturn(t) ==
  /\ wpc' = [wpc EXCEPT ![t] = "idle"]
  /\ rem' = [rem EXCEPT ![t] = <<>>]
  /\ wnb' = [wnb EXCEPT ![t] = FALSE]

\* b.write on a closed buffer, at entry or when a blocked writer wakes: EPIPE.
WriteClosed(t) ==
  /\ Writing(t) /\ closed
  /\ WriteReturn(t)
  /\ UNCHANGED <<ring, rvars>>

\* No room: ENOSPC in error mode, EAGAIN for a nonblocking writer.
WriteRefused(t) ==
  /\ Writing(t) /\ ~closed /\ ~Fits(ChunkLen(t))
  /\ \/ conf.mode = "error" /\ WriteReturn(t)
     \/ conf.mode = "block" /\ wnb[t] /\ WriteReturn(t)
  /\ UNCHANGED <<ring, rvars>>

\* No room, blocking: b.cond.Wait().
WriteWait(t) ==
  /\ Writing(t) /\ ~closed /\ ~Fits(ChunkLen(t))
  /\ conf.mode = "block" /\ ~wnb[t]
  /\ wpc' = [wpc EXCEPT ![t] = "wait"]
  /\ UNCHANGED <<ring, rem, wnb, rvars>>

\* The chunk enters the ring, everybody is woken, b.write returns its length
\* and the caller's loop goes on with the rest of the payload.
WriteCopy(t) ==
  LET n == ChunkLen(t)
      rest == SubSeq(rem[t], n + 1, Len(rem[t])) IN
  /\ Writing(t) /\ ~closed
  /\ conf.mode = "drop" \/ Fits(n)
  /\ buf' = CopyIn(toWrite(t))
  /\ r' = Advance(r, Dropped(n))
  /\ w' = Advance(w, n)
  /\ count' = count - Dropped(n) + n
  /\ rem' = [rem EXCEPT ![t] = rest]
  /\ wnb' = [wnb EXCEPT ![t] = rest # <<>> /\ @]
  /\ wpc' = [Woken(wpc) EXCEPT ![t] = IF rest = <<>> THEN "idle" ELSE "loop"]
  /\ rpc' = Woken(rpc)
  /\ moved' = toWrite(t)
  /\ UNCHANGED <<conf, closed, rnb>>

-----------------------------------------------------------------------------
\* FileSystem.Read / Handle.ReadAll on a stream mount.
ReadCall(t, nb) ==
  /\ rpc[t] = "idle"
  /\ rpc' = [rpc EXCEPT ![t] = "enter"]
  /\ rnb' = [rnb EXCEPT ![t] = nb]
  /\ UNCHANGED <<ring, wvars, moved>>

\* Empty and closed: zero bytes, no error.
ReadEOF(t) ==
  /\ Reading(t) /\ count = 0 /\ closed
  /\ rpc' = [rpc EXCEPT ![t] = "idle"]
  /\ rnb' = [rnb EXCEPT ![t] = FALSE]
  /\ UNCHANGED <<ring, wvars, moved>>

\* Empty and open, nonblock: EAGAIN (no byte was taken).
ReadRefused(t) ==
  /\ rpc[t] = "enter" /\ count = 0 /\ ~closed /\ rnb[t]
  /\ rpc' = [rpc EXCEPT ![t] = "idle"]
  /\ rnb' = [rnb EXCEPT ![t] = FALSE]
  /\ UNCHANGED <<ring, wvars, moved>>

\* Empty and open: b.cond.Wait().
ReadWait(t) ==
  /\ Reading(t) /\ count = 0 /\ ~closed /\ ~rnb[t]
  /\ rpc' = [rpc EXCEPT ![t] = "wait"]
  /\ UNCHANGED <<ring, wvars, rnb, moved>>

\* Up to len(p) bytes leave the ring; everybody is woken.
ReadCopy(t, len) ==
  LET n == IF len < count THEN len ELSE count IN
  /\ Reading(t) /\ count > 0
  /\ r' = Advance(r, n)
  /\ count' = count - n
  /\ rpc' = [Woken(rpc) EXCEPT ![t] = "idle"]
  /\ moved' = [i \in 1 .. n |-> buf[Advance(r, i - 1)]]
  /\ wpc' = Woken(wpc)
  /\ rnb' = [rnb EXCEPT ![t] = FALSE]
  /\ UNCHANGED <<conf, buf, w, closed, rem, wnb>>

\* b.close(), from streamManager.remove (Unmount) or closeAll (Shutdown).
Close ==
  /\ closed' = TRUE
  /\ wpc' = Woken(wpc)
  /\ rpc' = Woken(rpc)
  /\ UNCHANGED <<conf, buf, r, w, count, rem, wnb, rnb, moved>>

-----------------------------------------------------------------------------
WriterStep(t) == WriteClosed(t) \/ WriteRefused(t) \/ WriteWait(t) \/ WriteCopy(t)
ReaderStep(t) == ReadEOF(t) \/ ReadRefused(t) \/ ReadWait(t)
                 \/ \E len \in ReadLens : ReadCopy(t, len)

Next == \/ \E t \in Writers : \/ \E p \in Payloads, nb \in BOOLEAN : WriteCall(t, p, nb)
                              \/ WriterStep(t)
        \/ \E t \in Readers : \/ \E nb \in BOOLEAN : ReadCall(t, nb)
                              \/ ReaderStep(t)
        \/ Close

Spec == Init /\ [][Next]_vars

\* Goroutines holding or competing for b.mu run; a consumer keeps reading.
Fairness == /\ \A t \in Writers : WF_vars(WriterStep(t))
            /\ \A t \in Readers : WF_vars(ReaderStep(t))
            /\ \A t \in Readers : WF_vars(\E nb \in BOOLEAN : ReadCall(t, nb))

FairSpec == Spec /\ Fairness

-----------------------------------------------------------------------------
\* Types of the ring and of the goroutines' local variables.
TypeOK == /\ conf \in StreamConfigs
          /\ buf \in [Index -> Byte]
          /\ r \in Index /\ w \in Index /\ count \in 0 .. Capacity
          /\ closed \in BOOLEAN
          /\ wpc \in [Writers -> {"idle", "loop", "wait", "woken"}]
          /\ rem \in [Writers -> Seq(Byte)]
          /\ wnb \in [Writers -> BOOLEAN]
          /\ rpc \in [Readers -> {"idle", "enter", "wait", "woken"}]
          /\ rnb \in [Readers -> BOOLEAN]
          /\ moved \in Seq(Byte)

\* The read index, the write index and the byte count of the ring agree, also
\* after drop mode discarded bytes for a chunk longer than the whole ring.
RingConsistent == w = Advance(r, count)

\* No lost wakeup: a goroutine is parked in b.cond.Wait() only while what it
\* waits for is still false, so no reader sleeps beside unread bytes, no writer
\* beside enough room, and none on a closed buffer.
NoLostWakeup ==
  /\ \A t \in Readers : rpc[t] = "wait" => count = 0 /\ ~closed
  /\ \A t \in Writers : wpc[t] = "wait" => ~Fits(ChunkLen(t)) /\ ~closed

\* The bytes of the ring, oldest first.
Content == [i \in 1 .. count |-> buf[Advance(r, i - 1)]]

\* The ring implements the bounded FIFO: chunks enter whole and in order, reads
\* take the oldest bytes, and only drop mode ever forgets a byte.
Queue == INSTANCE ByteQueue WITH q <- Content, lossy <- (conf.mode = "drop")
ImplementsQueue == Queue!Spec

\* "Block: waits until space is available": while a consumer keeps reading,
\* every Write call of a producer returns, if its chunks are not longer than the
\* ring.  (A longer one never fits: b.write waits again after every read.)
WriteReturns ==
  \A t \in Writers : (wpc[t] # "idle" /\ ChunkLen(t) <= Capacity) ~> wpc[t] = "idle"

\* Once the stream is closed (Unmount, Shutdown) every reader returns, the ones
\* that were blocked included.
CloseReleases == \A t \in Readers : (closed /\ rpc[t] # "idle") ~> rpc[t] = "idle"
=============================================================================
