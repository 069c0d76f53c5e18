------------------------- MODULE StreamBufferProofs -------------------------
(***************************************************************************)
(* What holds of the stream ring for every capacity, chunk size, mode,     *)
(* byte alphabet and number of goroutines.  The inductive invariant is     *)
(* IInv: the types, the agreement of r, w and count, no lost wakeup, and   *)
(* that a Write call in flight has bytes left to write.                    *)
(***************************************************************************)
EXTENDS StreamBuffer, TLAPS

-----------------------------------------------------------------------------
(* Arithmetic of the ring's indexes.                                       *)

\* Quotient and remainder of an index by the capacity of the ring.
LEMMA DivMod ==
  ASSUME NEW a \in Int, NEW C \in Nat \ {0}
  PROVE  /\ a \div C \in Int
         /\ a % C \in 0 .. (C - 1)
         /\ a = C * (a \div C) + (a % C)
  BY Z3T(20)

\* A positive multiple of the capacity is at least the capacity.
LEMMA MultipleAbove ==
  ASSUME NEW C \in Nat \ {0}, NEW k \in Int, k >= 1
  PROVE  C * k >= C
  BY Z3T(20)

\* A negative multiple of the capacity is at most minus the capacity.
LEMMA MultipleBelow ==
  ASSUME NEW C \in Nat \ {0}, NEW k \in Int, k <= -1
  PROVE  C * k <= -C
  BY Z3T(20)

\* The remainder is unique.
LEMMA RemainderUnique ==
  ASSUME NEW C \in Nat \ {0}, NEW q \in Int, NEW d \in Int,
         NEW x \in 0 .. (C - 1), NEW y \in 0 .. (C - 1),
         C * q + x = C * d + y
  PROVE  x = y
<1>1. q - d \in Int /\ C * (q - d) = y - x
  BY Z3T(20)
<1>2. CASE q - d >= 1
  BY <1>1, <1>2, MultipleAbove
<1>3. CASE q - d <= -1
  BY <1>1, <1>3, MultipleBelow
<1>4. CASE q - d = 0
  BY <1>1, <1>4
<1>5. QED
  BY <1>1, <1>2, <1>3, <1>4

\* Reducing an index before adding to it changes nothing: the ring's
\* step-by-step (i + 1) % capacity and one addition land on the same slot.
LEMMA ModAdd ==
  ASSUME NEW C \in Nat \ {0}, NEW a \in Int, NEW b \in Int
  PROVE  ((a % C) + b) % C = (a + b) % C
<1> DEFINE qa == a \div C
           q1 == ((a % C) + b) \div C
           q2 == (a + b) \div C
           x1 == ((a % C) + b) % C
           x2 == (a + b) % C
<1>1. qa \in Int /\ a % C \in 0 .. (C - 1) /\ a = C * qa + (a % C)
  BY DivMod
<1>2. q1 \in Int /\ x1 \in 0 .. (C - 1) /\ (a % C) + b = C * q1 + x1
  BY DivMod, <1>1
<1>3. q2 \in Int /\ x2 \in 0 .. (C - 1) /\ a + b = C * q2 + x2
  BY DivMod
<1> HIDE DEF qa, q1, q2, x1, x2
<1>4. C * (qa + q1) + x1 = C * q2 + x2
  <2>1. a + b = C * qa + C * q1 + x1
    BY <1>1, <1>2
  <2>2. C * (qa + q1) = C * qa + C * q1
    BY <1>1, <1>2
  <2>3. QED
    BY <2>1, <2>2, <1>1, <1>2, <1>3
<1>5. qa + q1 \in Int
  BY <1>1, <1>2
<1>6. x1 = x2
  BY <1>2, <1>3, <1>4, <1>5, RemainderUnique
<1>7. QED
  BY <1>6 DEF x1, x2

\* The same for an index that is subtracted.
LEMMA ModSub ==
  ASSUME NEW C \in Nat \ {0}, NEW a \in Int, NEW b \in Int
  PROVE  (b - (a % C)) % C = (b - a) % C
<1> DEFINE qa == a \div C
           q1 == (b - (a % C)) \div C
           q2 == (b - a) \div C
           x1 == (b - (a % C)) % C
           x2 == (b - a) % C
<1>1. qa \in Int /\ a % C \in 0 .. (C - 1) /\ a = C * qa + (a % C)
  BY DivMod
<1>2. q1 \in Int /\ x1 \in 0 .. (C - 1) /\ b - (a % C) = C * q1 + x1
  BY DivMod, <1>1
<1>3. q2 \in Int /\ x2 \in 0 .. (C - 1) /\ b - a = C * q2 + x2
  BY DivMod
<1> HIDE DEF qa, q1, q2, x1, x2
<1>4. C * (q1 - qa) + x1 = C * q2 + x2
  <2>1. b - a = C * q1 - C * qa + x1
    BY <1>1, <1>2
  <2>2. C * (q1 - qa) = C * q1 - C * qa
    BY <1>1, <1>2
  <2>3. QED
    BY <2>1, <2>2, <1>1, <1>2, <1>3
<1>5. q1 - qa \in Int
  BY <1>1, <1>2
<1>6. x1 = x2
  BY <1>2, <1>3, <1>4, <1>5, RemainderUnique
<1>7. QED
  BY <1>6 DEF x1, x2

\* An index below the capacity is its own remainder.
LEMMA ModSmall ==
  ASSUME NEW C \in Nat \ {0}, NEW x \in 0 .. (C - 1)
  PROVE  x % C = x
<1>1. x \div C \in Int /\ x % C \in 0 .. (C - 1) /\ x = C * (x \div C) + (x % C)
  BY DivMod
<1>2. C * (x \div C) + (x % C) = C * 0 + x
  BY <1>1
<1>3. QED
  BY <1>1, <1>2, RemainderUnique

\* An index moved inside the ring is a slot, and moves add up.
LEMMA AdvanceFacts ==
  ASSUME NEW i \in Int, NEW m \in Int, NEW n \in Int
  PROVE  /\ Advance(i, m) \in Index
         /\ Advance(Advance(i, m), n) = Advance(i, m + n)
<1>1. Capacity \in Nat \ {0} /\ i + m \in Int
  BY StreamAssumption
<1>2. (i + m) % Capacity \in 0 .. (Capacity - 1)
  BY <1>1, DivMod
<1>3. (((i + m) % Capacity) + n) % Capacity = ((i + m) + n) % Capacity
  BY <1>1, ModAdd
<1>4. (i + m) + n = i + (m + n)
  OBVIOUS
<1>5. QED
  BY <1>2, <1>3, <1>4 DEF Advance, Index

-----------------------------------------------------------------------------
(* The inductive invariant.                                                *)

\* A Write call in flight has bytes left: the caller's loop ends with the last.
InFlight == \A t \in Writers : wpc[t] # "idle" => rem[t] # <<>>

IInv == TypeOK /\ RingConsistent /\ NoLostWakeup /\ InFlight

\* A payload is a nonempty sequence of bytes.
LEMMA PayloadType ==
  ASSUME NEW p \in Payloads
  PROVE  p \in Seq(Byte) /\ p # <<>>
  BY StreamAssumption

\* Lengths of a chunk and of what is left after it, and the bytes of the chunk.
LEMMA ChunkFacts ==
  ASSUME TypeOK, NEW t \in Writers
  PROVE  /\ ChunkLen(t) \in Nat /\ ChunkLen(t) <= MaxChunk /\ ChunkLen(t) <= Len(rem[t])
         /\ rem[t] # <<>> => ChunkLen(t) >= 1
         /\ toWrite(t) \in Seq(Byte) /\ Len(toWrite(t)) = ChunkLen(t)
         /\ SubSeq(rem[t], ChunkLen(t) + 1, Len(rem[t])) \in Seq(Byte)
<1>1. rem[t] \in Seq(Byte) /\ Len(rem[t]) \in Nat 
      /\ conf.chunk \in Nat \ {0} /\ conf.chunk <= MaxChunk /\ MaxChunk \in Nat
  BY StreamAssumption DEF TypeOK
<1>2. /\ ChunkLen(t) \in Nat /\ ChunkLen(t) <= MaxChunk /\ ChunkLen(t) <= Len(rem[t])
      /\ rem[t] # <<>> => ChunkLen(t) >= 1
  BY <1>1 DEF ChunkLen
<1>3. toWrite(t) \in Seq(Byte) /\ Len(toWrite(t)) = ChunkLen(t)
  BY <1>1, <1>2 DEF toWrite
<1>4. SubSeq(rem[t], ChunkLen(t) + 1, Len(rem[t])) \in Seq(Byte)
  BY <1>1, <1>2
<1>5. QED
  BY <1>2, <1>3, <1>4

\* How much drop mode discards: never negative, and the rest fits exactly.
LEMMA DroppedFacts ==
  ASSUME TypeOK, NEW n \in Nat, conf.mode = "drop" \/ Fits(n)
  PROVE  /\ Dropped(n) \in Nat
         /\ count - Dropped(n) + n \in 0 .. Capacity
         /\ n >= 1 => count - Dropped(n) + n >= 1
         /\ Dropped(n) = 0 \/ count - Dropped(n) + n = Capacity
  BY StreamAssumption DEF TypeOK, Fits, Dropped

\* The copy loop only stores bytes.
LEMMA CopyInType ==
  ASSUME TypeOK, NEW chunk \in Seq(Byte)
  PROVE  CopyIn(chunk) \in [Index -> Byte]
<1> DEFINE back(j) == (w + Len(chunk) - 1 - j) % Capacity
<1>1. Capacity \in Nat \ {0} /\ w \in Int /\ Len(chunk) \in Nat
  BY StreamAssumption DEF TypeOK, Index
<1>2. ASSUME NEW j \in Index
      PROVE  (IF back(j) < Len(chunk) THEN chunk[Len(chunk) - back(j)] ELSE buf[j]) \in Byte
  <2>1. w + Len(chunk) - 1 - j \in Int
    BY <1>1 DEF Index
  <2>2. back(j) \in 0 .. (Capacity - 1)
    BY <2>1, <1>1, DivMod
  <2>3. buf[j] \in Byte
    BY DEF TypeOK
  <2> HIDE DEF back
  <2>4. back(j) < Len(chunk) => Len(chunk) - back(j) \in 1 .. Len(chunk)
    BY <2>2, <1>1
  <2>5. QED
    BY <2>3, <2>4
<1>3. QED
  BY <1>2 DEF CopyIn

\* Broadcast keeps the types, and leaves nobody parked.
LEMMA WokenFacts ==
  ASSUME TypeOK
  PROVE  /\ Woken(wpc) \in [Writers -> {"idle", "loop", "wait", "woken"}]
         /\ Woken(rpc) \in [Readers -> {"idle", "enter", "wait", "woken"}]
         /\ \A u \in Writers : Woken(wpc)[u] # "wait"
         /\ \A u \in Writers : Woken(wpc)[u] = "idle" <=> wpc[u] = "idle"
         /\ \A u \in Readers : Woken(rpc)[u] # "wait"
<1>1. DOMAIN wpc = Writers /\ DOMAIN rpc = Readers
  BY DEF TypeOK
<1>2. /\ Woken(wpc) = [u \in Writers |-> IF wpc[u] = "wait" THEN "woken" ELSE wpc[u]]
      /\ Woken(rpc) = [u \in Readers |-> IF rpc[u] = "wait" THEN "woken" ELSE rpc[u]]
  BY <1>1 DEF Woken
<1>3. /\ \A u \in Writers : wpc[u] \in {"idle", "loop", "wait", "woken"}
      /\ \A u \in Readers : rpc[u] \in {"idle", "enter", "wait", "woken"}
  BY DEF TypeOK
<1>4. QED
  BY <1>2, <1>3

\* The empty ring satisfies the invariant.
LEMMA InitIInv == Init => IInv
<1> SUFFICES ASSUME Init PROVE IInv
  OBVIOUS
<1>1. Capacity \in Nat \ {0} /\ (CHOOSE b \in Byte : TRUE) \in Byte
  BY StreamAssumption
<1>2. TypeOK
  <2>1. buf \in [Index -> Byte]
    BY <1>1 DEF Init
  <2>2. r \in Index /\ w \in Index /\ count \in 0 .. Capacity
    BY <1>1 DEF Init, Index
  <2>3. <<>> \in Seq(Byte)
    OBVIOUS
  <2>4. /\ wpc \in [Writers -> {"idle", "loop", "wait", "woken"}]
        /\ rem \in [Writers -> Seq(Byte)]
        /\ rpc \in [Readers -> {"idle", "enter", "wait", "woken"}]
        /\ moved \in Seq(Byte)
    BY <2>3 DEF Init
  <2>5. closed \in BOOLEAN /\ wnb \in [Writers -> BOOLEAN] /\ rnb \in [Readers -> BOOLEAN]
    BY Zenon DEF Init
  <2>6. conf \in StreamConfigs
    BY DEF Init
  <2>7. QED
    BY <2>1, <2>2, <2>4, <2>5, <2>6 DEF TypeOK
<1>3. RingConsistent
  BY <1>1, ModSmall DEF Init, RingConsistent, Advance
<1>4. NoLostWakeup /\ InFlight
  BY DEF Init, NoLostWakeup, InFlight
<1>5. QED
  BY <1>2, <1>3, <1>4 DEF IInv

\* A step that leaves the ring alone and parks nobody wrongly.
LEMMA WriterLocalIInv ==
  ASSUME IInv, NEW t \in Writers,
         \/ \E p \in Payloads, nb \in BOOLEAN : WriteCall(t, p, nb)
         \/ WriteClosed(t) \/ WriteRefused(t) \/ WriteWait(t)
  PROVE  IInv'
<1> USE DEF IInv, ring, wvars, rvars
<1>1. CASE \E p \in Payloads, nb \in BOOLEAN : WriteCall(t, p, nb)
  <2>1. PICK p \in Payloads, nb \in BOOLEAN : WriteCall(t, p, nb)
    BY <1>1
  <2>2. p \in Seq(Byte) /\ p # <<>>
    BY PayloadType
  <2>3. TypeOK'
    BY <2>1, <2>2 DEF WriteCall, TypeOK
  <2>4. RingConsistent'
    BY <2>1 DEF WriteCall, RingConsistent, Advance
  <2>5. NoLostWakeup' /\ InFlight'
    BY <2>1, <2>2 DEF WriteCall, NoLostWakeup, InFlight, TypeOK, Fits, ChunkLen
  <2>6. QED
    BY <2>3, <2>4, <2>5
<1>2. ASSUME WriteReturn(t), UNCHANGED <<ring, rvars>>
      PROVE  IInv'
  <2>1. TypeOK'
    BY <1>2 DEF WriteReturn, TypeOK
  <2>2. RingConsistent'
    BY <1>2 DEF RingConsistent, Advance
  <2>3. NoLostWakeup' /\ InFlight'
    BY <1>2 DEF WriteReturn, NoLostWakeup, InFlight, TypeOK, Fits, ChunkLen
  <2>4. QED
    BY <2>1, <2>2, <2>3
<1>3. CASE WriteClosed(t)
  BY <1>2, <1>3 DEF WriteClosed
<1>4. CASE WriteRefused(t)
  BY <1>2, <1>4 DEF WriteRefused
<1>5. CASE WriteWait(t)
  <2>1. TypeOK'
    BY <1>5 DEF WriteWait, TypeOK
  <2>2. RingConsistent'
    BY <1>5 DEF WriteWait, RingConsistent, Advance
  <2>3. NoLostWakeup' /\ InFlight'
    BY <1>5 DEF WriteWait, Writing, NoLostWakeup, InFlight, TypeOK, Fits, ChunkLen
  <2>4. QED
    BY <2>1, <2>2, <2>3
<1>6. QED
  BY <1>1, <1>3, <1>4, <1>5

\* A chunk enters the ring.
LEMMA WriteCopyIInv ==
  ASSUME IInv, NEW t \in Writers, WriteCopy(t)
  PROVE  IInv'
<1> DEFINE n == ChunkLen(t)
           rest == SubSeq(rem[t], n + 1, Len(rem[t]))
           d == Dropped(n)
<1>1. TypeOK /\ RingConsistent /\ InFlight
  BY DEF IInv
<1>2. /\ n \in Nat /\ n <= MaxChunk
      /\ toWrite(t) \in Seq(Byte) /\ Len(toWrite(t)) = n /\ rest \in Seq(Byte)
  BY <1>1, ChunkFacts
<1>3. conf.mode = "drop" \/ Fits(n)
  BY DEF WriteCopy
<1>4. d \in Nat /\ count - d + n \in 0 .. Capacity
  BY <1>1, <1>2, <1>3, DroppedFacts
<1>5. Capacity \in Nat \ {0} /\ r \in Int /\ w \in Int /\ count \in Int
  BY <1>1, StreamAssumption DEF TypeOK, Index
<1>6. /\ buf' = CopyIn(toWrite(t))
      /\ r' = Advance(r, d)
      /\ w' = Advance(w, n)
      /\ count' = count - d + n
      /\ rem' = [rem EXCEPT ![t] = rest]
      /\ wnb' = [wnb EXCEPT ![t] = rest # <<>> /\ @]
      /\ wpc' = [Woken(wpc) EXCEPT ![t] = IF rest = <<>> THEN "idle" ELSE "loop"]
      /\ rpc' = Woken(rpc)
      /\ moved' = toWrite(t)
      /\ UNCHANGED <<conf, closed, rnb>>
  BY DEF WriteCopy
<1> HIDE DEF n, rest, d
<1>7. /\ Woken(wpc) \in [Writers -> {"idle", "loop", "wait", "woken"}]
      /\ Woken(rpc) \in [Readers -> {"idle", "enter", "wait", "woken"}]
      /\ \A u \in Writers : Woken(wpc)[u] # "wait"
      /\ \A u \in Writers : Woken(wpc)[u] = "idle" <=> wpc[u] = "idle"
      /\ \A u \in Readers : Woken(rpc)[u] # "wait"
  BY <1>1, WokenFacts
<1>8. TypeOK'
  <2>1. buf' \in [Index -> Byte]
    BY <1>1, <1>2, <1>6, CopyInType
  <2>2. r' \in Index /\ w' \in Index
    BY <1>2, <1>4, <1>5, <1>6, AdvanceFacts
  <2>3. count' \in 0 .. Capacity
    BY <1>4, <1>6
  <2>5. wnb' \in [Writers -> BOOLEAN]
    BY <1>1, <1>6, Zenon DEF TypeOK
  <2>6. rem' \in [Writers -> Seq(Byte)]
    BY <1>1, <1>2, <1>6 DEF TypeOK
  <2>7. /\ wpc' \in [Writers -> {"idle", "loop", "wait", "woken"}]
        /\ rpc' \in [Readers -> {"idle", "enter", "wait", "woken"}]
    BY <1>6, <1>7
  <2>8. QED
    BY <1>1, <1>2, <1>6, <2>1, <2>2, <2>3, <2>5, <2>6, <2>7 DEF TypeOK
<1>9. RingConsistent'
  <2>1. w = Advance(r, count)
    BY <1>1 DEF RingConsistent
  <2>2. w' = Advance(r, count + n)
    BY <2>1, <1>2, <1>5, <1>6, AdvanceFacts
  <2>3. Advance(r', count') = Advance(r, d + (count - d + n))
    BY <1>2, <1>4, <1>5, <1>6, AdvanceFacts
  <2>4. d + (count - d + n) = count + n
    BY <1>2, <1>4, <1>5
  <2>5. QED
    BY <2>2, <2>3, <2>4 DEF RingConsistent
<1>10. NoLostWakeup'
  BY <1>6, <1>7 DEF NoLostWakeup
<1>11. InFlight'
  BY <1>1, <1>6, <1>7 DEF InFlight, TypeOK
<1>12. QED
  BY <1>8, <1>9, <1>10, <1>11 DEF IInv

\* A reader's step, or Close.
LEMMA ReaderIInv ==
  ASSUME IInv,
         \/ \E t \in Readers : \/ \E nb \in BOOLEAN : ReadCall(t, nb)
                               \/ ReaderStep(t)
         \/ Close
  PROVE  IInv'
<1> USE DEF IInv, ring, wvars, rvars
<1>1. CASE \E t \in Readers : \/ \E nb \in BOOLEAN : ReadCall(t, nb)
                              \/ ReadEOF(t) \/ ReadRefused(t) \/ ReadWait(t)
  <2>1. TypeOK'
    BY <1>1 DEF ReadCall, ReadEOF, ReadRefused, ReadWait, TypeOK
  <2>2. RingConsistent'
    BY <1>1 DEF ReadCall, ReadEOF, ReadRefused, ReadWait, RingConsistent, Advance
  <2>3. NoLostWakeup' /\ InFlight'
    BY <1>1 DEF ReadCall, ReadEOF, ReadRefused, ReadWait, NoLostWakeup, InFlight, TypeOK,
                Fits, ChunkLen
  <2>4. QED
    BY <2>1, <2>2, <2>3
<1>2. ASSUME NEW t \in Readers, NEW len \in ReadLens, ReadCopy(t, len)
      PROVE  IInv'
  <2> DEFINE n == IF len < count THEN len ELSE count
  <2>1. /\ Capacity \in Nat \ {0} /\ r \in Int /\ count \in 0 .. Capacity
        /\ len \in Nat \ {0} /\ n \in 0 .. count
    BY StreamAssumption DEF TypeOK, Index, ReadLens
  <2>2. /\ Reading(t)
        /\ r' = Advance(r, n)
        /\ count' = count - n
        /\ rpc' = [Woken(rpc) EXCEPT ![t] = "idle"]
        /\ moved' = [i \in 1 .. n |-> buf[Advance(r, i - 1)]]
        /\ wpc' = Woken(wpc)
        /\ rnb' = [rnb EXCEPT ![t] = FALSE]
        /\ UNCHANGED <<conf, buf, w, closed, rem, wnb>>
    BY <1>2 DEF ReadCopy
  <2> HIDE DEF n
  <2>3. /\ Woken(wpc) \in [Writers -> {"idle", "loop", "wait", "woken"}]
        /\ Woken(rpc) \in [Readers -> {"idle", "enter", "wait", "woken"}]
        /\ \A u \in Writers : Woken(wpc)[u] # "wait"
        /\ \A u \in Writers : Woken(wpc)[u] = "idle" <=> wpc[u] = "idle"
        /\ \A u \in Readers : Woken(rpc)[u] # "wait"
    BY WokenFacts
  <2>4. TypeOK'
    <3>1. r' \in Index
      BY <2>1, <2>2, AdvanceFacts
    <3>2. moved' \in Seq(Byte)
      <4>1. ASSUME NEW i \in 1 .. n PROVE buf[Advance(r, i - 1)] \in Byte
        <5>1. i - 1 \in Int
          BY <2>1
        <5>2. Advance(r, i - 1) \in Index
          BY <2>1, <5>1, AdvanceFacts
        <5>3. QED
          BY <5>2 DEF TypeOK
      <4>2. QED
        BY <4>1, <2>1, <2>2
    <3>3. QED
      BY <2>1, <2>2, <2>3, <3>1, <3>2 DEF TypeOK
  <2>5. RingConsistent'
    <3>1. Advance(r', count') = Advance(r, n + (count - n))
      BY <2>1, <2>2, AdvanceFacts
    <3>2. n + (count - n) = count
      BY <2>1
    <3>3. QED
      BY <3>1, <3>2, <2>2 DEF RingConsistent
  <2>6. NoLostWakeup' /\ InFlight'
    BY <2>2, <2>3 DEF NoLostWakeup, InFlight, TypeOK
  <2>7. QED
    BY <2>4, <2>5, <2>6
<1>3. CASE Close
  <2>1. /\ Woken(wpc) \in [Writers -> {"idle", "loop", "wait", "woken"}]
        /\ Woken(rpc) \in [Readers -> {"idle", "enter", "wait", "woken"}]
        /\ \A u \in Writers : Woken(wpc)[u] # "wait"
        /\ \A u \in Writers : Woken(wpc)[u] = "idle" <=> wpc[u] = "idle"
        /\ \A u \in Readers : Woken(rpc)[u] # "wait"
    BY WokenFacts
  <2>2. TypeOK' /\ InFlight'
    BY <1>3, <2>1 DEF Close, TypeOK, InFlight
  <2>3. RingConsistent' /\ NoLostWakeup'
    BY <1>3, <2>1 DEF Close, RingConsistent, Advance, NoLostWakeup
  <2>4. QED
    BY <2>2, <2>3
<1>4. QED
  BY <1>1, <1>2, <1>3 DEF ReaderStep

\* Every step preserves the invariant.
LEMMA NextIInv == IInv /\ [Next]_vars => IInv'
<1> SUFFICES ASSUME IInv, [Next]_vars PROVE IInv'
  OBVIOUS
<1>1. CASE UNCHANGED vars
  BY <1>1 DEF vars, ring, wvars, rvars, IInv, TypeOK, RingConsistent, Advance, NoLostWakeup,
              InFlight, Fits, ChunkLen
<1>2. CASE \E t \in Writers : \/ \E p \in Payloads, nb \in BOOLEAN : WriteCall(t, p, nb)
                              \/ WriterStep(t)
  BY <1>2, WriterLocalIInv, WriteCopyIInv DEF WriterStep
<1>3. CASE \/ \E t \in Readers : \/ \E nb \in BOOLEAN : ReadCall(t, nb)
                                \/ ReaderStep(t)
           \/ Close
  BY <1>3, ReaderIInv
<1>4. QED
  BY <1>1, <1>2, <1>3 DEF Next

\* The ring's state is always well formed: indexes inside the array, and between
\* zero and capacity bytes, whatever the mode and the chunk size.
THEOREM TypeCorrect == Spec => []TypeOK
<1>1. Spec => []IInv
  BY InitIInv, NextIInv, PTL DEF Spec
<1>2. IInv => TypeOK
  BY DEF IInv
<1>3. QED
  BY <1>1, <1>2, PTL

\* The read index, the write index and the byte count always agree, also when
\* drop mode takes a chunk longer than the ring.
THEOREM RingAlwaysConsistent == Spec => []RingConsistent
<1>1. Spec => []IInv
  BY InitIInv, NextIInv, PTL DEF Spec
<1>2. IInv => RingConsistent
  BY DEF IInv
<1>3. QED
  BY <1>1, <1>2, PTL

\* No reader or writer is ever left parked beside what it waits for, for any
\* number of goroutines sharing the buffer's one condition variable.
THEOREM NoWakeupIsLost == Spec => []NoLostWakeup
<1>1. Spec => []IInv
  BY InitIInv, NextIInv, PTL DEF Spec
<1>2. IInv => NoLostWakeup
  BY DEF IInv
<1>3. QED
  BY <1>1, <1>2, PTL

-----------------------------------------------------------------------------
(* The ring implements the bounded FIFO of ByteQueue.                      *)

\* Two sequences of the same length with the same elements are equal.
LEMMA SeqEqual ==
  ASSUME NEW S, NEW a \in Seq(S), NEW b \in Seq(S), Len(a) = Len(b),
         \A i \in 1 .. Len(a) : a[i] = b[i]
  PROVE  a = b
  OBVIOUS

\* The contents of the ring are a sequence of count bytes.
ContentOK == /\ Content \in Seq(Byte) /\ Len(Content) = count
             /\ \A i \in 1 .. count : Content[i] = buf[Advance(r, i - 1)]

\* Reading count slots from r gives count bytes.
LEMMA ContentFacts == TypeOK => ContentOK
<1> SUFFICES ASSUME TypeOK PROVE ContentOK
  OBVIOUS
<1>1. count \in Nat /\ r \in Int
  BY StreamAssumption DEF TypeOK, Index
<1>2. ASSUME NEW i \in 1 .. count PROVE buf[Advance(r, i - 1)] \in Byte
  <2>1. i - 1 \in Int
    BY <1>1
  <2>2. Advance(r, i - 1) \in Index
    BY <1>1, <2>1, AdvanceFacts
  <2>3. QED
    BY <2>2 DEF TypeOK
<1>3. QED
  BY <1>1, <1>2 DEF Content, ContentOK

\* Where the copy loop puts what: counted from the read index, the k-th byte of
\* old contents followed by chunk is in its slot, unless it was overwritten.
LEMMA CopyInSlot ==
  ASSUME TypeOK, RingConsistent, NEW chunk \in Seq(Byte),
         NEW k \in Int, k >= 1, k <= count + Len(chunk), k > count + Len(chunk) - Capacity
  PROVE  CopyIn(chunk)[Advance(r, k - 1)]
           = IF k > count THEN chunk[k - count] ELSE buf[Advance(r, k - 1)]
<1> DEFINE n == Len(chunk)
           j == Advance(r, k - 1)
           back == (w + n - 1 - j) % Capacity
<1>1. /\ Capacity \in Nat \ {0} /\ r \in Int /\ w \in Int /\ count \in Nat /\ n \in Nat
      /\ j \in Index /\ j \in Int
  <2>1. Capacity \in Nat \ {0} /\ r \in Int /\ w \in Int /\ count \in Nat /\ n \in Nat
    BY StreamAssumption DEF TypeOK, Index
  <2>2. k - 1 \in Int
    OBVIOUS
  <2>3. j \in Index
    BY <2>1, <2>2, AdvanceFacts
  <2>4. j \in Int
    BY <2>1, <2>3 DEF Index
  <2>5. QED
    BY <2>1, <2>3, <2>4
<1>2. k >= 1 /\ k <= count + n /\ k > count + n - Capacity
  OBVIOUS
<1>3. back = count + n - k
  <2>1. w = (r + count) % Capacity
    BY DEF RingConsistent, Advance
  <2>2. j = (r + (k - 1)) % Capacity
    BY DEF Advance
  <2> HIDE DEF n, j
  <2>3. w + n - 1 - j = ((r + count) % Capacity) + (n - 1 - j)
    BY <1>1, <2>1
  <2>4. (((r + count) % Capacity) + (n - 1 - j)) % Capacity = ((r + count) + (n - 1 - j)) % Capacity
    <3>1. r + count \in Int /\ n - 1 - j \in Int
      BY <1>1
    <3>2. QED
      BY <1>1, <3>1, ModAdd
  <2>5. (r + count) + (n - 1 - j) = (r + count + n - 1) - ((r + (k - 1)) % Capacity)
    BY <1>1, <2>2
  <2>6. ((r + count + n - 1) - ((r + (k - 1)) % Capacity)) % Capacity
          = ((r + count + n - 1) - (r + (k - 1))) % Capacity
    <3>1. r + count + n - 1 \in Int /\ r + (k - 1) \in Int
      BY <1>1
    <3>2. QED
      BY <1>1, <3>1, ModSub
  <2>7. (r + count + n - 1) - (r + (k - 1)) = count + n - k
    BY <1>1
  <2>8. (count + n - k) % Capacity = count + n - k
    <3>1. count + n - k \in 0 .. (Capacity - 1)
      BY <1>1, <1>2
    <3>2. QED
      BY <1>1, <3>1, ModSmall
  <2>9. QED
    BY <2>3, <2>4, <2>5, <2>6, <2>7, <2>8
<1>4. CopyIn(chunk)[j] = IF back < n THEN chunk[n - back] ELSE buf[j]
  BY <1>1 DEF CopyIn
<1> HIDE DEF n, j, back
<1>5. /\ back < n <=> k > count
      /\ n - back = k - count
  BY <1>1, <1>3
<1>6. CopyIn(chunk)[j] = IF k > count THEN chunk[k - count] ELSE buf[j]
  BY <1>4, <1>5
<1>7. QED
  BY <1>6 DEF j

\* A step that copies a chunk is a Put of that chunk.
LEMMA WriteCopyRefines ==
  ASSUME IInv, IInv', NEW t \in Writers, WriteCopy(t)
  PROVE  Queue!Next
<1> DEFINE chunk == toWrite(t)
           n == ChunkLen(t)
           d == Dropped(n)
           all == Content \o chunk
<1>1. TypeOK /\ RingConsistent /\ InFlight /\ TypeOK'
  BY DEF IInv
<1>2. rem[t] # <<>>
  BY <1>1 DEF WriteCopy, Writing, InFlight
<1>3. n \in 1 .. MaxChunk /\ chunk \in Seq(Byte) /\ Len(chunk) = n
  BY <1>1, <1>2, ChunkFacts, StreamAssumption
<1>4. conf.mode = "drop" \/ Fits(n)
  BY DEF WriteCopy
<1>5. /\ d \in Nat /\ count - d + n \in 0 .. Capacity
      /\ Fits(n) => d = 0
      /\ ~Fits(n) => d = n - (Capacity - count) /\ conf.mode = "drop"
  BY <1>1, <1>3, <1>4, DroppedFacts DEF Dropped
<1>6. /\ buf' = CopyIn(chunk) /\ r' = Advance(r, d) /\ count' = count - d + n
      /\ ~closed /\ moved' = chunk /\ UNCHANGED <<conf, closed>>
  BY DEF WriteCopy
<1>7. Capacity \in Nat \ {0} /\ r \in Int /\ count \in Nat /\ count <= Capacity
  BY <1>1, StreamAssumption DEF TypeOK, Index
<1>8. /\ Content \in Seq(Byte) /\ Len(Content) = count
      /\ \A i \in 1 .. count : Content[i] = buf[Advance(r, i - 1)]
  BY <1>1, ContentFacts DEF ContentOK
<1>9. /\ Content' \in Seq(Byte) /\ Len(Content') = count - d + n
      /\ \A i \in 1 .. (count - d + n) : Content'[i] = buf'[Advance(r', i - 1)]
  <2>1. /\ Content' \in Seq(Byte) /\ Len(Content') = count'
        /\ \A i \in 1 .. count' : Content'[i] = buf'[Advance(r', i - 1)]
    <3>1. ContentOK'
      BY <1>1, ContentFacts, PTL
    <3>2. QED
      BY <3>1 DEF ContentOK
  <2>2. QED
    BY <2>1, <1>6
<1> HIDE DEF chunk, n, d
<1>10. /\ all \in Seq(Byte) /\ Len(all) = count + n
       /\ \A k \in 1 .. (count + n) :
             all[k] = IF k > count THEN chunk[k - count] ELSE buf[Advance(r, k - 1)]
  <2>1. all \in Seq(Byte) /\ Len(all) = count + n
    <3>1. Content \o chunk \in Seq(Byte) /\ Len(Content \o chunk) = Len(Content) + Len(chunk)
      BY <1>3, <1>8
    <3>2. QED
      BY <3>1, <1>3, <1>8
  <2>2. ASSUME NEW k \in 1 .. (count + n)
        PROVE  all[k] = IF k > count THEN chunk[k - count] ELSE Content[k]
    BY <1>3, <1>7, <1>8
  <2>3. QED
    BY <2>1, <2>2, <1>3, <1>7, <1>8
<1> HIDE DEF all
<1>11. \A i \in 1 .. (count - d + n) : Content'[i] = all[d + i]
  <2> TAKE i \in 1 .. (count - d + n)
  <2>1. /\ d + i \in Int /\ d + i >= 1 /\ d + i <= count + Len(chunk)
        /\ d + i > count + Len(chunk) - Capacity /\ i - 1 \in Int /\ d \in Int
        /\ d + i \in 1 .. (count + n)
    BY <1>3, <1>5, <1>7
  <2>2. Advance(r', i - 1) = Advance(r, d + (i - 1))
    BY <2>1, <1>6, <1>7, AdvanceFacts
  <2>3. d + (i - 1) = (d + i) - 1
    BY <2>1
  <2>4. Content'[i] = CopyIn(chunk)[Advance(r, (d + i) - 1)]
    BY <1>6, <1>9, <2>2, <2>3
  <2>5. CopyIn(chunk)[Advance(r, (d + i) - 1)]
          = IF d + i > count THEN chunk[(d + i) - count] ELSE buf[Advance(r, (d + i) - 1)]
    BY <1>1, <1>3, <2>1, CopyInSlot
  <2>6. all[d + i] = IF d + i > count THEN chunk[(d + i) - count]
                                     ELSE buf[Advance(r, (d + i) - 1)]
    BY <2>1, <1>10
  <2>7. QED
    BY <2>4, <2>5, <2>6
<1>12. CASE Fits(n)
  <2>1. count + n <= Capacity /\ d = 0
    BY <1>3, <1>5, <1>7, <1>12 DEF Fits
  <2>2. Len(Content') = Len(all) /\ \A i \in 1 .. Len(all) : Content'[i] = all[i]
    BY <2>1, <1>3, <1>7, <1>9, <1>10, <1>11
  <2>3. Content' = all
    BY <2>2, <1>9, <1>10, SeqEqual
  <2>4. Queue!Put(chunk)
    BY <2>1, <2>3, <1>3, <1>6, <1>8 DEF Queue!Put, all
  <2>5. chunk \in [1 .. n -> Byte]
    BY <1>3
  <2>6. QED
    BY <2>4, <2>5, <1>3 DEF Queue!Next
<1>13. CASE ~Fits(n)
  <2>1. /\ count + n > Capacity /\ d = (count + n) - Capacity /\ conf.mode = "drop"
        /\ count - d + n = Capacity
    BY <1>3, <1>5, <1>7, <1>13 DEF Fits
  <2> DEFINE last == SubSeq(all, Len(all) - Capacity + 1, Len(all))
  <2>2. /\ last \in Seq(Byte) /\ Len(last) = Capacity
        /\ \A i \in 1 .. Capacity : last[i] = all[d + i]
    BY <2>1, <1>3, <1>7, <1>10
  <2> HIDE DEF last
  <2>3. Content' = last
    BY <2>1, <2>2, <1>9, <1>11
  <2>4. Content' = Queue!LastN(Content \o chunk, Capacity)
    BY <2>3 DEF last, Queue!LastN, all
  <2>5. ~(Len(Content) + Len(chunk) <= Capacity)
    BY <2>1, <1>3, <1>7, <1>8
  <2>6. Queue!Put(chunk)
    BY <2>1, <2>4, <2>5, <1>6 DEF Queue!Put
  <2>7. chunk \in [1 .. n -> Byte]
    BY <1>3
  <2>8. QED
    BY <2>6, <2>7, <1>3 DEF Queue!Next
<1>14. QED
  BY <1>12, <1>13

\* A step that copies bytes out is a Take of that many bytes.
LEMMA ReadCopyRefines ==
  ASSUME IInv, IInv', NEW t \in Readers, NEW len \in ReadLens, ReadCopy(t, len)
  PROVE  Queue!Next
<1> DEFINE n == IF len < count THEN len ELSE count
<1>1. TypeOK /\ TypeOK'
  BY DEF IInv
<1>2. /\ Capacity \in Nat \ {0} /\ r \in Int /\ count \in Nat
      /\ n \in 1 .. MaxChunk /\ n <= count
  BY <1>1, StreamAssumption DEF TypeOK, Index, ReadLens, ReadCopy
<1>3. /\ r' = Advance(r, n) /\ count' = count - n
      /\ moved' = [i \in 1 .. n |-> buf[Advance(r, i - 1)]]
      /\ UNCHANGED <<conf, buf, closed>>
  BY DEF ReadCopy
<1> HIDE DEF n
<1>4. /\ Content \in Seq(Byte) /\ Len(Content) = count
      /\ \A i \in 1 .. count : Content[i] = buf[Advance(r, i - 1)]
  BY <1>1, ContentFacts DEF ContentOK
<1>5. /\ Content' \in Seq(Byte) /\ Len(Content') = count - n
      /\ \A i \in 1 .. (count - n) : Content'[i] = buf[Advance(r', i - 1)]
  <2>1. /\ Content' \in Seq(Byte) /\ Len(Content') = count'
        /\ \A i \in 1 .. count' : Content'[i] = buf'[Advance(r', i - 1)]
    <3>1. ContentOK'
      BY <1>1, ContentFacts, PTL
    <3>2. QED
      BY <3>1 DEF ContentOK
  <2>2. QED
    BY <2>1, <1>3
<1>6. moved' = SubSeq(Content, 1, n)
  <2>1. \A i \in 1 .. n : SubSeq(Content, 1, n)[i] = buf[Advance(r, i - 1)]
    BY <1>2, <1>4
  <2>2. SubSeq(Content, 1, n) = [i \in 1 .. n |-> SubSeq(Content, 1, n)[i]]
    BY <1>2, <1>4
  <2>3. QED
    BY <2>1, <2>2, <1>3
<1>7. Content' = SubSeq(Content, n + 1, Len(Content))
  <2> DEFINE rest == SubSeq(Content, n + 1, Len(Content))
  <2>1. /\ rest \in Seq(Byte) /\ Len(rest) = count - n
        /\ \A i \in 1 .. (count - n) : rest[i] = Content[n + i]
    BY <1>2, <1>4
  <2> HIDE DEF rest
  <2>2. ASSUME NEW i \in 1 .. (count - n) PROVE Content'[i] = rest[i]
    <3>1. n \in Int /\ i - 1 \in Int /\ n + i \in 1 .. count /\ n + (i - 1) = (n + i) - 1
      BY <1>2
    <3>2. Advance(r', i - 1) = Advance(r, n + (i - 1))
      BY <3>1, <1>2, <1>3, AdvanceFacts
    <3>3. QED
      BY <3>1, <3>2, <2>1, <1>4, <1>5
  <2>3. Content' = rest
    BY <2>1, <2>2, <1>5
  <2>4. QED
    BY <2>3 DEF rest
<1>8. Queue!Take(n)
  BY <1>2, <1>3, <1>4, <1>6, <1>7 DEF Queue!Take
<1>9. QED
  BY <1>2, <1>8 DEF Queue!Next

\* What the refinement mapping gives for lossy.
Lossy == conf.mode = "drop"

\* Every step of the ring is a step of the queue, or changes nothing of it.
LEMMA StepRefines ==
  IInv /\ IInv' /\ [Next]_vars => [Queue!Next]_<<Content, moved, closed, Lossy>>
<1> SUFFICES ASSUME IInv, IInv', [Next]_vars
             PROVE  Queue!Next \/ UNCHANGED <<Content, moved, closed, Lossy>>
  OBVIOUS
<1>1. ASSUME UNCHANGED <<conf, buf, r, count, moved, closed>>
      PROVE  UNCHANGED <<Content, moved, closed, Lossy>>
  BY <1>1 DEF Content, Advance, Lossy
<1>2. CASE UNCHANGED vars
  BY <1>1, <1>2 DEF vars, ring, rvars
<1>3. ASSUME NEW t \in Writers,
             \/ \E p \in Payloads, nb \in BOOLEAN : WriteCall(t, p, nb)
             \/ WriteClosed(t) \/ WriteRefused(t) \/ WriteWait(t)
      PROVE  UNCHANGED <<Content, moved, closed, Lossy>>
  BY <1>1, <1>3 DEF WriteCall, WriteClosed, WriteRefused, WriteWait, ring, rvars
<1>4. ASSUME NEW t \in Readers,
             \/ \E nb \in BOOLEAN : ReadCall(t, nb)
             \/ ReadEOF(t) \/ ReadRefused(t) \/ ReadWait(t)
      PROVE  UNCHANGED <<Content, moved, closed, Lossy>>
  BY <1>1, <1>4 DEF ReadCall, ReadEOF, ReadRefused, ReadWait, ring
<1>5. CASE Close
  <2>1. UNCHANGED <<conf, buf, r, count, moved>> /\ closed' = TRUE
    BY <1>5 DEF Close
  <2>2. UNCHANGED Content
    BY <2>1 DEF Content, Advance
  <2>3. Queue!Close
    BY <2>1, <2>2 DEF Queue!Close
  <2>4. QED
    BY <2>3 DEF Queue!Next
<1>6. QED
  BY <1>2, <1>3, <1>4, <1>5, WriteCopyRefines, ReadCopyRefines DEF Next, WriterStep, ReaderStep

\* The ring of the code implements the bounded FIFO for every capacity, chunk
\* size, mode and number of goroutines: bytes come out in the order they went
\* in, none twice, and none is forgotten outside drop mode.
THEOREM RingImplementsQueue == Spec => ImplementsQueue
<1>1. Spec => []IInv
  BY InitIInv, NextIInv, PTL DEF Spec
<1>2. Init => Queue!Init
  <2>1. Init => count = 0 /\ moved = <<>> /\ closed = FALSE
    BY DEF Init
  <2>2. count = 0 => Content = <<>>
    BY DEF Content
  <2>3. QED
    BY <2>1, <2>2 DEF Queue!Init
<1>3. QED
  BY <1>1, <1>2, StepRefines, PTL DEF Spec, ImplementsQueue, Queue!Spec, Lossy
=============================================================================
