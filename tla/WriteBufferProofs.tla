-------------------------- MODULE WriteBufferProofs --------------------------
(***************************************************************************)
(* Buffered writes of a handle lose, double and reorder nothing, Close     *)
(* flushes what was accepted before it, and no timer is left armed on a    *)
(* closed handle.  BufferExact is not inductive: that Close stops every    *)
(* timer that is armed rests on h.timer being the only one (OneArmed), and *)
(* that only a Write that overlapped the Close can arm another one rests   *)
(* on a Write never being empty (Pending).                                 *)
(***************************************************************************)
EXTENDS WriteBuffer, SequenceTheorems, WellFoundedInduction, TLAPS

\* The handle's own fields, with h.timer pointing to no timer that is gone.
HandleType == [buf : Seq(Byte), sent : Seq(Byte), timer : 0 .. MaxTimers,
               slot : [Slots -> {"free", "armed", "fired", "lock", "spent"}]]
TimerLive(x) == x.timer # 0 => x.slot[x.timer] # "free"

\* A timer that is armed is the one h.timer points to.
OneArmed(x) == \A i \in Slots : x.slot[i] = "armed" => x.timer = i

HandleOK(x) == x \in HandleType /\ TimerLive(x) /\ OneArmed(x)

\* No timer is armed in y that is not in x, none is added, and the bytes are where they
\* were or have gone from the front of the buffer to fs.Write.
Flushes(x, y) == /\ \A i \in Slots : y.slot[i] = "armed" => x.slot[i] = "armed"
                 /\ \A i \in Slots : x.slot[i] = "free" => y.slot[i] = "free"
                 /\ y.sent \o y.buf = x.sent \o x.buf
                 /\ Len(y.sent) >= Len(x.sent)

\* Writes in progress have something to write, and Close was called with what had
\* been accepted by then.
Pending == /\ \A t \in Threads : pc[t] = "write" => Len(arg[t]) > 0
           /\ due <= Len(accepted) /\ Len(accepted) <= MaxBytes

BufferInv == BufferExact /\ OneArmed(h) /\ Pending

-----------------------------------------------------------------------------
\* A set of natural numbers has a least element, and one that is bounded a largest.
LEMMA Least ==
  ASSUME NEW T, T \subseteq Nat, T # {}
  PROVE  \E x \in T : \A y \in T : x <= y
<1> DEFINE R == { ss \in Nat \X Nat : ss[1] < ss[2] }
<1>1. IsWellFoundedOn(R, Nat)
  BY NatLessThanWellFounded DEF OpToRel
<1>2. \A x, y \in Nat : x < y => <<x, y>> \in R
  OBVIOUS
<1> HIDE DEF R
<1>3. PICK x \in T : \A y \in T : ~ (<<y, x>> \in R)
  BY <1>1, WFMin
<1>4. ASSUME NEW y \in T
      PROVE  x <= y
  <2>1. x \in Nat /\ y \in Nat /\ ~ (y < x)
    BY <1>2, <1>3
  <2>2. QED
    BY <2>1
<1>5. QED
  BY <1>4

LEMMA Largest ==
  ASSUME NEW n \in Nat, NEW T, T \subseteq 0 .. n, T # {}
  PROVE  \E x \in T : \A y \in T : y <= x
<1> DEFINE U == { m \in Nat : n - m \in T }
<1>1. \A y \in T : n - y \in U
  <2>1. \A y \in T : n - y \in Nat /\ n - (n - y) = y
    OBVIOUS
  <2>2. QED
    BY <2>1
<1>2. U \subseteq Nat /\ U # {}
  BY <1>1
<1> HIDE DEF U
<1>3. PICK x \in U : \A y \in U : x <= y
  BY <1>2, Least
<1>4. x \in Nat /\ n - x \in T
  BY <1>3 DEF U
<1>5. ASSUME NEW y \in T
      PROVE  y <= n - x
  <2>1. x <= n - y
    BY <1>1, <1>3
  <2>2. QED
    BY <1>4, <2>1
<1>6. QED
  BY <1>4, <1>5

-----------------------------------------------------------------------------
\* stopTimerLocked leaves no timer armed and touches no byte.
LEMMA StopFacts ==
  ASSUME NEW x, HandleOK(x)
  PROVE  LET y == stopTimerLocked(x) IN
         /\ HandleOK(y) /\ Flushes(x, y) /\ y.buf = x.buf /\ y.sent = x.sent
         /\ \A i \in Slots : y.slot[i] # "armed"
<1> DEFINE y == stopTimerLocked(x)
<1>1. x \in HandleType /\ TimerLive(x) /\ OneArmed(x) /\ Len(x.sent) \in Nat
  BY DEF HandleOK, HandleType
<1>2. CASE x.timer = 0
  <2>1. y = x
    BY <1>2 DEF stopTimerLocked
  <2>2. \A i \in Slots : x.slot[i] # "armed"
    BY <1>1, <1>2, WriteBufferAssumption DEF OneArmed, Slots
  <2>3. QED
    BY <1>1, <2>1, <2>2 DEF HandleOK, Flushes
<1>3. CASE x.timer # 0
  <2>1. /\ y = [x EXCEPT !.slot[x.timer] = IF @ \in {"armed", "spent"} THEN "free" ELSE @, !.timer = 0]
        /\ x.timer \in Slots
    BY <1>1, <1>3, WriteBufferAssumption DEF stopTimerLocked, HandleType, Slots
  <2>2. y \in HandleType /\ y.timer = 0 /\ y.buf = x.buf /\ y.sent = x.sent
    <3> DEFINE sl == [x.slot EXCEPT ![x.timer] = IF @ \in {"armed", "spent"} THEN "free" ELSE @]
    <3>1. 0 \in 0 .. MaxTimers
      BY WriteBufferAssumption
    <3>2. sl \in [Slots -> {"free", "armed", "fired", "lock", "spent"}]
      BY <1>1 DEF HandleType
    <3>3. y = [x EXCEPT !.slot = sl, !.timer = 0]
      BY <1>1, <2>1 DEF HandleType
    <3> HIDE DEF sl, y
    <3>4. QED
      BY <1>1, <3>1, <3>2, <3>3 DEF HandleType
  <2>3. \A i \in Slots : y.slot[i] # "armed"
    BY <1>1, <2>1 DEF HandleType, OneArmed
  <2>4. \A i \in Slots : x.slot[i] = "free" => y.slot[i] = "free"
    BY <1>1, <2>1 DEF HandleType
  <2>5. QED
    BY <1>1, <2>2, <2>3, <2>4 DEF HandleOK, Flushes, TimerLive, OneArmed
<1>4. QED
  BY <1>2, <1>3

LEMMA Associative == \A a, b, c \in Seq(Byte) : (a \o b) \o c = a \o (b \o c)
  BY ConcatAssociative

\* flushPrefixLocked moves the front of the buffer to fs.Write.
LEMMA PrefixFacts ==
  ASSUME NEW x, HandleOK(x), NEW n \in 0 .. Len(x.buf)
  PROVE  LET y == flushPrefixLocked(x, n) IN
         /\ HandleOK(y) /\ Flushes(x, y)
         /\ n = Len(x.buf) => y.buf = <<>> /\ \A i \in Slots : y.slot[i] # "armed"
<1> DEFINE front == SubSeq(x.buf, 1, n)
           rest == SubSeq(x.buf, n + 1, Len(x.buf))
           z == [x EXCEPT !.sent = @ \o front, !.buf = rest]
<1>1. /\ x \in HandleType /\ TimerLive(x) /\ OneArmed(x)
      /\ x.buf \in Seq(Byte) /\ x.sent \in Seq(Byte) /\ Len(x.buf) \in Nat /\ Len(x.sent) \in Nat
  BY DEF HandleOK, HandleType
<1>2. front \in Seq(Byte) /\ rest \in Seq(Byte) /\ front \o rest = x.buf
  <2>1. \A i \in 1 .. Len(x.buf) : x.buf[i] \in Byte
    BY <1>1, ElementOfSeq
  <2>2. front \in Seq(Byte)
    BY <1>1, <2>1, SubSeqProperties
  <2>3. rest \in Seq(Byte)
    BY <1>1, <2>1, SubSeqProperties
  <2>4. front \o rest = SubSeq(x.buf, 1, Len(x.buf))
    <3>1. 1 \in 1 .. Len(x.buf) + 1 /\ n \in 1 - 1 .. Len(x.buf) /\ Len(x.buf) \in n .. Len(x.buf)
      BY <1>1
    <3>2. QED
      BY <1>1, <3>1, ConcatAdjacentSubSeq
  <2>5. QED
    BY <1>1, <2>2, <2>3, <2>4, SubSeqFull
<1> HIDE DEF front, rest
<1>3. /\ z \in HandleType /\ z.timer = x.timer /\ z.slot = x.slot
      /\ z.buf = rest /\ z.sent = x.sent \o front
  BY <1>1, <1>2, ConcatProperties DEF HandleType
<1> HIDE DEF z
<1>4. HandleOK(z)
  BY <1>1, <1>3 DEF HandleOK, TimerLive, OneArmed
<1>5. Flushes(x, z)
  <2>1. (x.sent \o front) \o rest = x.sent \o (front \o rest)
    BY <1>1, <1>2, Associative
  <2>2. Len(x.sent \o front) = Len(x.sent) + Len(front) /\ Len(front) \in Nat
    BY <1>1, <1>2, ConcatProperties, LenProperties
  <2>3. QED
    BY <1>1, <1>2, <1>3, <2>1, <2>2 DEF Flushes
<1>6. n = Len(x.buf) => rest = <<>>
  BY <1>1, SubSeqEmpty DEF rest
<1>7. flushPrefixLocked(x, n) = IF rest = <<>> THEN stopTimerLocked(z) ELSE z
  BY <1>3 DEF flushPrefixLocked, z, front, rest
<1>8. CASE rest = <<>>
  <2>1. LET y == stopTimerLocked(z) IN
        /\ HandleOK(y) /\ Flushes(z, y) /\ y.buf = z.buf /\ y.sent = z.sent
        /\ \A i \in Slots : y.slot[i] # "armed"
    BY <1>4, StopFacts
  <2>2. QED
    BY <1>3, <1>5, <1>7, <1>8, <2>1 DEF Flushes
<1>9. CASE rest # <<>>
  BY <1>4, <1>5, <1>6, <1>7, <1>9
<1>10. QED
  BY <1>8, <1>9

\* flushAllLocked leaves the buffer empty and no timer armed.
LEMMA AllFacts ==
  ASSUME NEW x, HandleOK(x)
  PROVE  LET y == flushAllLocked(x) IN
         /\ HandleOK(y) /\ Flushes(x, y) /\ y.buf = <<>>
         /\ \A i \in Slots : y.slot[i] # "armed"
<1>1. CASE x.buf = <<>>
  BY <1>1, StopFacts DEF flushAllLocked
<1>2. CASE x.buf # <<>>
  <2>1. Len(x.buf) \in 0 .. Len(x.buf)
    BY DEF HandleOK, HandleType
  <2>2. QED
    BY <1>2, <2>1, PrefixFacts DEF flushAllLocked
<1>3. QED
  BY <1>1, <1>2

\* The last newline of the buffer is in the buffer.
LEMMA NewlineFacts ==
  ASSUME NEW b \in Seq(Byte)
  PROVE  newline(b) \in 0 .. Len(b)
<1> DEFINE at == { i \in 1 .. Len(b) : b[i] = "\n" }
<1>1. newline(b) = IF at = {} THEN 0 ELSE CHOOSE i \in at : \A j \in at : j <= i
  BY DEF newline
<1>2. Len(b) \in Nat /\ at \subseteq 0 .. Len(b)
  OBVIOUS
<1> HIDE DEF at
<1>3. at # {} => \E i \in at : \A j \in at : j <= i
  BY <1>2, Largest
<1>4. at # {} => (CHOOSE i \in at : \A j \in at : j <= i) \in at
  BY <1>3, Zenon
<1>5. at # {} => newline(b) \in at
  BY <1>1, <1>4, Zenon
<1>6. CASE at = {}
  BY <1>1, <1>2, <1>6
<1>7. CASE at # {}
  BY <1>2, <1>5, <1>7
<1>8. QED
  BY <1>6, <1>7

\* Arming the timer, when there is a slot for it, arms it alone.
LEMMA ArmedFacts ==
  ASSUME NEW x, HandleOK(x), \E i \in Slots : x.slot[i] = "free"
  PROVE  HandleOK(armed(x)) /\ armed(x).buf = x.buf /\ armed(x).sent = x.sent
<1>1. CASE x.buf # <<>> /\ MaxDelay /\ x.timer = 0
  <2> DEFINE i == CHOOSE i \in Slots : x.slot[i] = "free"
             y == [x EXCEPT !.slot[i] = "armed", !.timer = i]
  <2>1. armed(x) = y
    BY <1>1 DEF armed, startTimerLocked
  <2>2. i \in Slots /\ x.slot[i] = "free"
    BY Zenon
  <2> HIDE DEF i
  <2>3. /\ x \in HandleType /\ \A j \in Slots : x.slot[j] # "armed"
    BY <1>1, WriteBufferAssumption DEF HandleOK, OneArmed, Slots
  <2>4. i \in 0 .. MaxTimers /\ i # 0
    BY <2>2, WriteBufferAssumption DEF Slots
  <2>5. /\ [x.slot EXCEPT ![i] = "armed"] \in [Slots -> {"free", "armed", "fired", "lock", "spent"}]
        /\ y = [x EXCEPT !.slot = [x.slot EXCEPT ![i] = "armed"], !.timer = i]
    BY <2>2, <2>3 DEF HandleType
  <2>6. y \in HandleType /\ y.timer = i /\ y.slot = [x.slot EXCEPT ![i] = "armed"]
        /\ y.buf = x.buf /\ y.sent = x.sent
    BY <2>3, <2>4, <2>5 DEF HandleType
  <2> HIDE DEF y
  <2>7. TimerLive(y) /\ OneArmed(y)
    BY <2>2, <2>3, <2>6 DEF TimerLive, OneArmed, HandleType
  <2>8. QED
    BY <2>1, <2>6, <2>7 DEF HandleOK
<1>2. CASE ~(x.buf # <<>> /\ MaxDelay /\ x.timer = 0)
  BY <1>2 DEF armed
<1>3. QED
  BY <1>1, <1>2

\* The end of a callback arms nothing and touches no byte.
LEMMA DoneFacts ==
  ASSUME NEW x, HandleOK(x), NEW i \in Slots
  PROVE  HandleOK(Done(x, i)) /\ Flushes(x, Done(x, i))
<1> DEFINE new == IF x.timer = i THEN "spent" ELSE "free"
           y == [x EXCEPT !.slot = [x.slot EXCEPT ![i] = new]]
<1>1. x \in HandleType /\ TimerLive(x) /\ OneArmed(x) /\ Len(x.sent) \in Nat
  BY DEF HandleOK, HandleType
<1>2. Done(x, i) = y
  BY <1>1 DEF Done, HandleType
<1>3. /\ y \in HandleType /\ y.timer = x.timer /\ y.buf = x.buf /\ y.sent = x.sent
      /\ y.slot = [x.slot EXCEPT ![i] = new]
  BY <1>1 DEF HandleType
<1> HIDE DEF y
<1>4. TimerLive(y)
  BY <1>1, <1>3, WriteBufferAssumption DEF TimerLive, HandleType, Slots
<1>5. /\ OneArmed(y) /\ \A k \in Slots : y.slot[k] = "armed" => x.slot[k] = "armed"
      /\ \A k \in Slots : x.slot[k] = "free" => y.slot[k] = "free"
  <2>1. OneArmed(y) /\ \A k \in Slots : y.slot[k] = "armed" => x.slot[k] = "armed"
    BY <1>1, <1>3 DEF OneArmed, HandleType
  <2>2. x.timer = i => x.slot[i] # "free"
    BY <1>1, WriteBufferAssumption DEF TimerLive, Slots
  <2>3. \A k \in Slots : x.slot[k] = "free" => y.slot[k] = "free"
    BY <1>1, <1>3, <2>2 DEF HandleType
  <2>4. QED
    BY <2>1, <2>3
<1>6. QED
  BY <1>1, <1>2, <1>3, <1>4, <1>5 DEF HandleOK, Flushes

\* A callback moves on.
LEMMA MovesFacts ==
  ASSUME NEW x, HandleOK(x), NEW i \in Slots, x.slot[i] # "free", NEW l \in {"fired", "lock"}
  PROVE  HandleOK([x EXCEPT !.slot[i] = l]) /\ Flushes(x, [x EXCEPT !.slot[i] = l])
<1> DEFINE y == [x EXCEPT !.slot = [x.slot EXCEPT ![i] = l]]
<1>1. x \in HandleType /\ TimerLive(x) /\ OneArmed(x) /\ Len(x.sent) \in Nat
  BY DEF HandleOK, HandleType
<1>2. [x EXCEPT !.slot[i] = l] = y
  BY <1>1 DEF HandleType
<1>3. /\ y \in HandleType /\ y.timer = x.timer /\ y.buf = x.buf /\ y.sent = x.sent
      /\ y.slot = [x.slot EXCEPT ![i] = l]
  BY <1>1 DEF HandleType
<1> HIDE DEF y
<1>4. TimerLive(y) /\ OneArmed(y)
  BY <1>1, <1>3, WriteBufferAssumption DEF TimerLive, OneArmed, HandleType, Slots
<1>5. \A k \in Slots : /\ y.slot[k] = "armed" => x.slot[k] = "armed"
                       /\ x.slot[k] = "free" => y.slot[k] = "free"
  BY <1>1, <1>3 DEF HandleType
<1>6. HandleOK(y) /\ Flushes(x, y)
  BY <1>1, <1>3, <1>4, <1>5 DEF HandleOK, Flushes
<1>7. QED
  BY <1>2, <1>6

\* Two such changes in a row are one.
LEMMA FlushesTwice ==
  ASSUME NEW x, NEW y, NEW z, HandleOK(x), HandleOK(y), HandleOK(z), Flushes(x, y), Flushes(y, z)
  PROVE  Flushes(x, z)
<1>1. Len(x.sent) \in Nat /\ Len(y.sent) \in Nat /\ Len(z.sent) \in Nat
  BY DEF HandleOK, HandleType
<1>2. QED
  BY <1>1 DEF Flushes

-----------------------------------------------------------------------------
\* The parts of the invariant.
LEMMA Parts ==
  ASSUME BufferInv
  PROVE  /\ HandleOK(h) /\ NothingLost /\ CloseFlushes /\ QuietAfterClose /\ Pending
         /\ closed \in BOOLEAN /\ accepted \in Seq(Byte) /\ fails \in 0 .. MaxFailures
         /\ pc \in [Threads -> {"idle", "write", "flush", "close"}] /\ arg \in [Threads -> Seq(Byte)]
         /\ closing \in {"no", "yes", "flushed", "failed"} /\ due \in 0 .. MaxBytes
         /\ Len(accepted) \in Nat /\ Len(h.sent) \in Nat
  BY DEF BufferInv, BufferExact, TypeOK, HandleOK, HandleType, TimerLive

LEMMA InitBufferInv == Init => BufferInv
<1> SUFFICES ASSUME Init PROVE BufferInv
  OBVIOUS
<1>1. h = [buf |-> <<>>, sent |-> <<>>, timer |-> 0, slot |-> [i \in Slots |-> "free"]]
  BY DEF Init
<1>2. /\ <<>> \in Seq(Byte) /\ <<>> \o <<>> = <<>> /\ Len(<<>>) = 0
      /\ 0 \in 0 .. MaxTimers /\ 0 \in 0 .. MaxBytes /\ 0 \in 0 .. MaxFailures
  BY WriteBufferAssumption
<1>3. TypeOK
  <2>1. HandleOK(h)
    BY <1>1, <1>2 DEF HandleOK, HandleType, TimerLive, OneArmed
  <2>2. QED
    BY <1>2, <2>1 DEF Init, TypeOK, HandleOK, HandleType, TimerLive
<1>4. NothingLost /\ CloseFlushes /\ QuietAfterClose /\ OneArmed(h)
  BY <1>1, <1>2 DEF Init, NothingLost, CloseFlushes, QuietAfterClose, OneArmed
<1>5. Pending
  BY <1>2, WriteBufferAssumption DEF Init, Pending
<1>6. QED
  BY <1>3, <1>4, <1>5 DEF BufferInv, BufferExact

\* A step under h.mu, or of a callback, that flushes or not and accepts nothing.
LEMMA FlushKeeps ==
  ASSUME BufferInv, HandleOK(h'), Flushes(h, h'), UNCHANGED <<closed, accepted, due, closing>>,
         fails' \in 0 .. MaxFailures,
         UNCHANGED <<pc, arg>> \/ \E t \in Threads : Return(t)
  PROVE  BufferInv'
<1>1. /\ NothingLost /\ CloseFlushes /\ QuietAfterClose /\ Pending
      /\ pc \in [Threads -> {"idle", "write", "flush", "close"}] /\ arg \in [Threads -> Seq(Byte)]
      /\ closing \in {"no", "yes", "flushed", "failed"} /\ due \in 0 .. MaxBytes
      /\ closed \in BOOLEAN /\ accepted \in Seq(Byte) /\ Len(h.sent) \in Nat /\ Len(h'.sent) \in Nat
  BY Parts DEF HandleOK, HandleType
<1>2. /\ pc' \in [Threads -> {"idle", "write", "flush", "close"}] /\ arg' \in [Threads -> Seq(Byte)]
      /\ \A u \in Threads : pc'[u] = "write" => pc[u] = "write" /\ arg'[u] = arg[u]
  <2>1. CASE UNCHANGED <<pc, arg>>
    BY <1>1, <2>1
  <2>2. ASSUME NEW t \in Threads, Return(t)
        PROVE  /\ pc' \in [Threads -> {"idle", "write", "flush", "close"}]
               /\ arg' \in [Threads -> Seq(Byte)]
               /\ \A u \in Threads : pc'[u] = "write" => pc[u] = "write" /\ arg'[u] = arg[u]
    BY <1>1, <2>2 DEF Return
  <2>3. QED
    BY <2>1, <2>2
<1>3. TypeOK'
  BY <1>1, <1>2 DEF TypeOK, HandleOK, HandleType, TimerLive
<1>4. NothingLost' /\ CloseFlushes' /\ QuietAfterClose'
  <2>1. /\ \A i \in Slots : h'.slot[i] = "armed" => h.slot[i] = "armed"
        /\ h'.sent \o h'.buf = h.sent \o h.buf
        /\ Len(h'.sent) >= Len(h.sent)
    BY DEF Flushes
  <2>2. NothingLost'
    BY <1>1, <2>1 DEF NothingLost
  <2>3. CloseFlushes'
    BY <1>1, <2>1, WriteBufferAssumption DEF CloseFlushes
  <2>4. QuietAfterClose'
    BY <1>1, <2>1 DEF QuietAfterClose
  <2>5. QED
    BY <2>2, <2>3, <2>4
<1>5. Pending'
  BY <1>1, <1>2 DEF Pending
<1>6. QED
  BY <1>3, <1>4, <1>5 DEF BufferInv, BufferExact, HandleOK

\* Write, Flush and Close begin.
LEMMA CallKeeps ==
  ASSUME BufferInv, NEW t \in Threads,
         CallFlush(t) \/ CallClose(t) \/ \E p \in Payload : CallWrite(t, p)
  PROVE  BufferInv'
<1>1. /\ HandleOK(h) /\ NothingLost /\ CloseFlushes /\ QuietAfterClose /\ Pending
      /\ pc \in [Threads -> {"idle", "write", "flush", "close"}] /\ arg \in [Threads -> Seq(Byte)]
      /\ closing \in {"no", "yes", "flushed", "failed"} /\ due \in 0 .. MaxBytes
      /\ closed \in BOOLEAN /\ accepted \in Seq(Byte) /\ Len(accepted) \in Nat
  BY Parts
<1>2. PICK l \in {"write", "flush", "close"}, p \in Seq(Byte) : Call(t, l, p) /\ (l = "write" => Len(p) > 0)
  <2>1. \A p \in Payload : p \in Seq(Byte) /\ Len(p) > 0
    <3>1. \A b, c \in Byte : /\ <<b>> \in Seq(Byte) /\ Len(<<b>>) = 1
                             /\ <<b, c>> \in Seq(Byte) /\ Len(<<b, c>>) = 2
      OBVIOUS
    <3>2. \A p \in Payload : \/ \E b \in Byte : p = <<b>>
                             \/ \E b, c \in Byte : p = <<b, c>>
      BY DEF Payload
    <3>3. QED
      BY <3>1, <3>2
  <2>2. <<>> \in Seq(Byte)
    OBVIOUS
  <2>3. QED
    BY <2>1, <2>2 DEF CallFlush, CallClose, CallWrite
<1>3. /\ pc' \in [Threads -> {"idle", "write", "flush", "close"}] /\ arg' \in [Threads -> Seq(Byte)]
      /\ \A u \in Threads : pc'[u] = "write" => Len(arg'[u]) > 0
      /\ UNCHANGED <<h, accepted, fails>>
  BY <1>1, <1>2 DEF Call, Pending
<1>4. CASE UNCHANGED <<closed, closing, due>>
  BY <1>3, <1>4
  DEF BufferInv, BufferExact, TypeOK, NothingLost, CloseFlushes, QuietAfterClose, Pending, OneArmed
<1>5. CASE closed' = TRUE /\ closing' = "yes" /\ due' = Len(accepted)
  <2>1. Len(accepted) \in 0 .. MaxBytes
    BY <1>1, WriteBufferAssumption DEF Pending
  <2>2. QED
    BY <1>1, <1>3, <1>5, <2>1
    DEF BufferInv, BufferExact, TypeOK, NothingLost, CloseFlushes, QuietAfterClose, Pending, OneArmed
<1>6. QED
  BY <1>4, <1>5 DEF CallFlush, CallClose, CallWrite

\* Close ends with nothing armed, and if it reports no error with nothing left.
LEMMA CloseKeeps ==
  ASSUME BufferInv, NEW t \in Threads, Close(t)
  PROVE  BufferInv'
<1>1. /\ HandleOK(h) /\ NothingLost /\ Pending
      /\ pc \in [Threads -> {"idle", "write", "flush", "close"}] /\ arg \in [Threads -> Seq(Byte)]
      /\ due \in 0 .. MaxBytes /\ fails \in 0 .. MaxFailures /\ Len(accepted) \in Nat
      /\ closed \in BOOLEAN /\ accepted \in Seq(Byte)
      /\ UNCHANGED <<closed, accepted, due>>
  BY Parts DEF Close
<1>2. /\ pc' \in [Threads -> {"idle", "write", "flush", "close"}] /\ arg' \in [Threads -> Seq(Byte)]
      /\ \A u \in Threads : pc'[u] = "write" => pc[u] = "write" /\ arg'[u] = arg[u]
  BY <1>1 DEF Close, Return
<1>3. /\ HandleOK(h') /\ NothingLost' /\ \A i \in Slots : h'.slot[i] # "armed"
      /\ closing' \in {"flushed", "failed"} /\ fails' \in 0 .. MaxFailures
      /\ closing' = "flushed" => h'.buf = <<>>
  <2>1. CASE h' = stopTimerLocked(flushAllLocked(h)) /\ closing' = "flushed" /\ UNCHANGED fails
    <3> DEFINE y == flushAllLocked(h)
    <3>1. HandleOK(y) /\ Flushes(h, y) /\ y.buf = <<>>
      BY <1>1, AllFacts
    <3> HIDE DEF y
    <3>2. /\ HandleOK(stopTimerLocked(y)) /\ stopTimerLocked(y).buf = y.buf
          /\ stopTimerLocked(y).sent = y.sent
          /\ \A i \in Slots : stopTimerLocked(y).slot[i] # "armed"
      BY <3>1, StopFacts
    <3>3. h' = stopTimerLocked(y)
      BY <2>1 DEF y
    <3>4. QED
      BY <1>1, <2>1, <3>1, <3>2, <3>3 DEF NothingLost, Flushes
  <2>2. CASE Fail /\ h' = stopTimerLocked(h) /\ closing' = "failed"
    <3>1. fails' \in 0 .. MaxFailures
      BY <1>1, <2>2, WriteBufferAssumption DEF Fail
    <3>2. /\ HandleOK(stopTimerLocked(h)) /\ stopTimerLocked(h).buf = h.buf
          /\ stopTimerLocked(h).sent = h.sent
          /\ \A i \in Slots : stopTimerLocked(h).slot[i] # "armed"
      BY <1>1, StopFacts
    <3>3. QED
      BY <1>1, <2>2, <3>1, <3>2 DEF NothingLost
  <2>3. QED
    BY <2>1, <2>2 DEF Close
<1>4. TypeOK'
  BY <1>1, <1>2, <1>3 DEF TypeOK, HandleOK, HandleType, TimerLive
<1>5. CloseFlushes'
  <2>1. ASSUME closing' = "flushed" PROVE h'.sent = accepted'
    <3>1. h'.sent \o <<>> = h'.sent
      BY <1>3, ConcatEmptySeq DEF HandleOK, HandleType
    <3>2. QED
      BY <1>3, <2>1, <3>1 DEF NothingLost
  <2>2. QED
    BY <1>1, <2>1 DEF CloseFlushes, Pending
<1>6. QuietAfterClose' /\ Pending'
  BY <1>1, <1>2, <1>3 DEF QuietAfterClose, Pending
<1>7. QED
  BY <1>3, <1>4, <1>5, <1>6 DEF BufferInv, BufferExact, HandleOK

\* Write keeps every byte it accepted, whether its flushes fail or not.
LEMMA WriteKeeps ==
  ASSUME BufferInv, NEW t \in Threads, Write(t)
  PROVE  BufferInv'
<1> DEFINE x0 == [h EXCEPT !.buf = @ \o arg[t]]
           n == IF FlushOnNewline THEN newline(x0.buf) ELSE 0
           x1 == IF n > 0 THEN flushPrefixLocked(x0, n) ELSE x0
           full == Len(x1.buf) >= MaxSize
           x2 == IF full THEN flushAllLocked(x1) ELSE x1
<1>1. /\ HandleOK(h) /\ NothingLost /\ CloseFlushes /\ Pending
      /\ pc \in [Threads -> {"idle", "write", "flush", "close"}] /\ arg \in [Threads -> Seq(Byte)]
      /\ closing \in {"no", "yes", "flushed", "failed"}
      /\ due \in 0 .. MaxBytes /\ fails \in 0 .. MaxFailures /\ Len(accepted) \in Nat
      /\ closed \in BOOLEAN /\ accepted \in Seq(Byte) /\ arg[t] \in Seq(Byte)
      /\ h.buf \in Seq(Byte) /\ h.sent \in Seq(Byte) /\ Len(h.sent) \in Nat
  BY Parts DEF HandleOK, HandleType
<1>2. /\ UNCHANGED <<closed, closing, due>> /\ accepted' = accepted \o arg[t]
      /\ Len(accepted) + Len(arg[t]) <= MaxBytes /\ Len(arg[t]) > 0
      /\ \E i \in Slots : h.slot[i] = "free"
      /\ Return(t)
      /\ \/ Fail /\ h' = x0
         \/ Fail /\ h' = x1
         \/ h' = armed(x2) /\ UNCHANGED fails
  BY <1>1 DEF Write, Pending
<1>3. /\ HandleOK(x0) /\ x0.sent \o x0.buf = accepted' /\ x0.sent = h.sent /\ x0.slot = h.slot
  <2>1. h.buf \o arg[t] \in Seq(Byte)
    BY <1>1, ConcatProperties
  <2>2. h \in HandleType /\ TimerLive(h) /\ OneArmed(h)
    BY <1>1 DEF HandleOK
  <2>3. /\ x0 \in HandleType /\ x0.sent = h.sent /\ x0.slot = h.slot /\ x0.timer = h.timer
        /\ x0.buf = h.buf \o arg[t]
    BY <2>1, <2>2 DEF HandleType
  <2>4. h.sent \o (h.buf \o arg[t]) = (h.sent \o h.buf) \o arg[t]
    BY <1>1, Associative
  <2> HIDE DEF x0
  <2>5. QED
    BY <1>1, <1>2, <2>2, <2>3, <2>4 DEF HandleOK, TimerLive, OneArmed, NothingLost
<1> HIDE DEF x0
<1>4. Flushes(x0, x0)
  BY <1>1, <1>3 DEF Flushes
<1>5. HandleOK(x1) /\ Flushes(x0, x1)
  <2>1. n \in 0 .. Len(x0.buf)
    <3>1. x0.buf \in Seq(Byte) /\ Len(x0.buf) \in Nat
      BY <1>3 DEF HandleOK, HandleType
    <3>2. QED
      BY <3>1, NewlineFacts
  <2> HIDE DEF n
  <2>2. QED
    BY <1>3, <1>4, <2>1, PrefixFacts
<1> HIDE DEF n, x1
<1>6. HandleOK(x2) /\ Flushes(x0, x2)
  <2>1. CASE full
    BY <1>3, <1>5, <2>1, AllFacts, FlushesTwice
  <2>2. CASE ~full
    BY <1>5, <2>2
  <2>3. QED
    BY <2>1, <2>2
<1> HIDE DEF full, x2
<1>7. /\ HandleOK(h') /\ fails' \in 0 .. MaxFailures
      /\ h'.sent \o h'.buf = accepted' /\ Len(h'.sent) >= Len(h.sent)
  <2>1. Fail => fails' \in 0 .. MaxFailures
    BY <1>1, WriteBufferAssumption DEF Fail
  <2>2. \E i \in Slots : x2.slot[i] = "free"
    BY <1>2, <1>3, <1>6 DEF Flushes
  <2>3. /\ HandleOK(armed(x2)) /\ armed(x2).buf = x2.buf /\ armed(x2).sent = x2.sent
    BY <1>6, <2>2, ArmedFacts
  <2>4. \A y : Flushes(x0, y) => y.sent \o y.buf = accepted' /\ Len(y.sent) >= Len(h.sent)
    BY <1>3 DEF Flushes
  <2>5. CASE Fail /\ h' = x0
    BY <1>3, <1>4, <2>1, <2>4, <2>5
  <2>6. CASE Fail /\ h' = x1
    BY <1>5, <2>1, <2>4, <2>6
  <2>7. CASE h' = armed(x2) /\ UNCHANGED fails
    BY <1>1, <1>6, <2>3, <2>4, <2>7
  <2>8. QED
    BY <1>2, <2>5, <2>6, <2>7
<1>8. /\ accepted' \in Seq(Byte) /\ Len(accepted') = Len(accepted) + Len(arg[t]) /\ Len(arg[t]) \in Nat
  BY <1>1, <1>2, ConcatProperties, LenProperties
<1>9. /\ pc' \in [Threads -> {"idle", "write", "flush", "close"}] /\ arg' \in [Threads -> Seq(Byte)]
      /\ \A u \in Threads : pc'[u] = "write" => pc[u] = "write" /\ arg'[u] = arg[u]
  BY <1>1, <1>2 DEF Return
<1>10. TypeOK'
  BY <1>1, <1>2, <1>7, <1>8, <1>9 DEF TypeOK, HandleOK, HandleType, TimerLive
<1>11. CloseFlushes'
  <2>1. Len(h'.sent) \in Nat
    BY <1>7 DEF HandleOK, HandleType
  <2>2. QED
    BY <1>1, <1>2, <1>7, <2>1 DEF CloseFlushes
<1>12. QuietAfterClose' /\ Pending'
  BY <1>1, <1>2, <1>8, <1>9, WriteBufferAssumption DEF QuietAfterClose, Pending
<1>13. QED
  BY <1>7, <1>10, <1>11, <1>12 DEF BufferInv, BufferExact, HandleOK, NothingLost

\* The timers' callbacks, and Flush.
LEMMA TimerKeeps ==
  ASSUME BufferInv, NEW i \in Slots, TimerStep(i)
  PROVE  BufferInv'
<1>1. HandleOK(h) /\ fails \in 0 .. MaxFailures
  BY Parts
<1>2. UNCHANGED <<closed, accepted, due, closing, pc, arg>>
  BY DEF TimerStep, Fire, FireCheck, FireFlush
<1>3. Fail => fails' \in 0 .. MaxFailures
  BY <1>1, WriteBufferAssumption DEF Fail
<1>4. CASE Fire(i)
  <2>1. h.slot[i] # "free" /\ h' = [h EXCEPT !.slot[i] = "fired"] /\ fails' = fails
    BY <1>4 DEF Fire
  <2>2. HandleOK(h') /\ Flushes(h, h')
    BY <1>1, <2>1, MovesFacts
  <2>3. QED
    BY <1>1, <1>2, <2>1, <2>2, FlushKeeps
<1>5. CASE FireCheck(i)
  <2>1. h.slot[i] # "free" /\ fails' = fails
    BY <1>5 DEF FireCheck
  <2>2. CASE h' = Done(h, i)
    BY <1>1, <1>2, <2>1, <2>2, DoneFacts, FlushKeeps
  <2>3. CASE h' = [h EXCEPT !.slot[i] = "lock"]
    <3>1. HandleOK(h') /\ Flushes(h, h')
      BY <1>1, <2>1, <2>3, MovesFacts
    <3>2. QED
      BY <1>1, <1>2, <2>1, <3>1, FlushKeeps
  <2>4. QED
    BY <1>5, <2>2, <2>3 DEF FireCheck
<1>6. CASE FireFlush(i)
  <2>1. CASE h' = Done(flushAllLocked(h), i) /\ UNCHANGED fails
    <3> DEFINE y == flushAllLocked(h)
    <3>1. HandleOK(y) /\ Flushes(h, y)
      BY <1>1, AllFacts
    <3> HIDE DEF y
    <3>2. HandleOK(Done(y, i)) /\ Flushes(y, Done(y, i))
      BY <3>1, DoneFacts
    <3>3. h' = Done(y, i)
      BY <2>1 DEF y
    <3>4. HandleOK(h') /\ Flushes(h, h')
      BY <1>1, <3>1, <3>2, <3>3, FlushesTwice
    <3>5. QED
      BY <1>1, <1>2, <2>1, <3>4, FlushKeeps
  <2>2. CASE Fail /\ h' = Done(h, i)
    BY <1>1, <1>2, <1>3, <2>2, DoneFacts, FlushKeeps
  <2>3. QED
    BY <1>6, <2>1, <2>2 DEF FireFlush
<1>7. QED
  BY <1>4, <1>5, <1>6 DEF TimerStep

LEMMA FlushStepKeeps ==
  ASSUME BufferInv, NEW t \in Threads, Flush(t)
  PROVE  BufferInv'
<1>1. HandleOK(h) /\ fails \in 0 .. MaxFailures /\ Len(h.sent) \in Nat
  BY Parts
<1>2. UNCHANGED <<closed, accepted, due, closing>> /\ Return(t)
  BY DEF Flush
<1>3. CASE h' = flushAllLocked(h) /\ UNCHANGED fails
  BY <1>1, <1>2, <1>3, AllFacts, FlushKeeps
<1>4. CASE Fail /\ UNCHANGED h
  <2>1. fails' \in 0 .. MaxFailures
    BY <1>1, <1>4, WriteBufferAssumption DEF Fail
  <2>2. HandleOK(h') /\ Flushes(h, h')
    BY <1>1, <1>4 DEF Flushes
  <2>3. QED
    BY <1>2, <2>1, <2>2, FlushKeeps
<1>5. QED
  BY <1>3, <1>4 DEF Flush

-----------------------------------------------------------------------------
LEMMA NextBufferInv == BufferInv /\ [Next]_vars => BufferInv'
<1> SUFFICES ASSUME BufferInv, [Next]_vars PROVE BufferInv'
  OBVIOUS
<1>1. CASE UNCHANGED vars
  BY <1>1 DEF vars, BufferInv, BufferExact, TypeOK, NothingLost, CloseFlushes, QuietAfterClose,
     Pending, OneArmed
<1>2. ASSUME NEW t \in Threads, CallFlush(t) \/ CallClose(t) \/ \E p \in Payload : CallWrite(t, p)
      PROVE  BufferInv'
  BY <1>2, CallKeeps
<1>3. ASSUME NEW t \in Threads, ThreadStep(t)
      PROVE  BufferInv'
  BY <1>3, WriteKeeps, FlushStepKeeps, CloseKeeps DEF ThreadStep
<1>4. ASSUME NEW i \in Slots, TimerStep(i)
      PROVE  BufferInv'
  BY <1>4, TimerKeeps
<1>5. QED
  BY <1>1, <1>2, <1>3, <1>4 DEF Next

\* Whatever threads, timers and failures of fs.Write do, what fs.Write got followed by
\* what is buffered is what Write accepted; a Close without error has flushed what was
\* accepted before it; and after it only a Write that overlapped it has armed a timer.
THEOREM BufferIsExact == Spec => []BufferExact
<1>1. BufferInv => BufferExact
  BY DEF BufferInv
<1>2. QED
  BY <1>1, InitBufferInv, NextBufferInv, PTL DEF Spec
=============================================================================
