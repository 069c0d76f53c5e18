----------------------------- MODULE WriteBuffer -----------------------------
(***************************************************************************)
(* Buffered writes of one handle (core/handles.go): Write, Flush, Close    *)
(* and the delay timer.  h.mu is held for a whole Write, Flush or Close,   *)
(* the call of fs.Write included, but h.closed is checked before it is     *)
(* taken.  A timer is a slot: armed until its callback got past the test   *)
(* of its stop channel, fired until it has checked h.closed, lock until it *)
(* has flushed under h.mu, and spent when it failed and h.timer still      *)
(* points to it.                                                           *)
(***************************************************************************)
EXTENDS Naturals, Sequences

CONSTANTS Threads,        \* goroutines that use the handle
          MaxSize,        \* policy.MaxSize
          FlushOnNewline, \* policy.FlushOnNewline
          MaxDelay,       \* policy.MaxDelay > 0
          MaxBytes,       \* bound: bytes written to the handle
          MaxTimers,      \* bound: timers alive at once
          MaxFailures     \* bound: fs.Write calls that fail

ASSUME WriteBufferAssumption ==
  /\ MaxSize \in Nat \ {0} /\ MaxBytes \in Nat /\ MaxTimers \in Nat /\ MaxFailures \in Nat
  /\ FlushOnNewline \in BOOLEAN /\ MaxDelay \in BOOLEAN

Byte == {"a", "\n"}
Slots == 1 .. MaxTimers
Payload == { <<b>> : b \in Byte } \cup { <<b, c>> : b, c \in Byte }

VARIABLES h,        \* the Handle: buf, timer (0 is nil), the timers' slots, and
                    \* sent, all that fs.Write was given
          closed,   \* h.closed
          accepted, \* all that Write appended to the buffer
          fails,    \* failures of fs.Write
          pc,       \* idle, write, flush, close
          arg,      \* the payload of the Write in progress
          closing,  \* Close: no, yes, flushed or failed (its result)
          due       \* how many bytes had been accepted when Close was called

vars == <<h, closed, accepted, fails, pc, arg, closing, due>>

Init == /\ h = [buf |-> <<>>, sent |-> <<>>, timer |-> 0, slot |-> [i \in Slots |-> "free"]]
        /\ closed = FALSE /\ accepted = <<>> /\ fails = 0
        /\ pc = [t \in Threads |-> "idle"]
        /\ arg = [t \in Threads |-> <<>>]
        /\ closing = "no" /\ due = 0

-----------------------------------------------------------------------------
\* stopTimerLocked: an armed timer never runs; a callback past its stop channel does.
stopTimerLocked(x) ==
  IF x.timer = 0 THEN x
  ELSE [x EXCEPT !.slot[x.timer] = IF @ \in {"armed", "spent"} THEN "free" ELSE @,
                 !.timer = 0]

\* startTimerLocked, in the first free slot.
startTimerLocked(x) ==
  LET i == CHOOSE i \in Slots : x.slot[i] = "free" IN
  [x EXCEPT !.slot[i] = "armed", !.timer = i]

\* A flush of a prefix that forgets the rest.
flushPrefixLocked_DropsRest(x, n) ==
  stopTimerLocked([x EXCEPT !.sent = @ \o SubSeq(x.buf, 1, n), !.buf = <<>>])

\* flushPrefixLocked when fs.Write succeeds.
flushPrefixLocked(x, n) ==
  LET y == [x EXCEPT !.sent = @ \o SubSeq(x.buf, 1, n),
                     !.buf = SubSeq(x.buf, n + 1, Len(x.buf))] IN
  IF y.buf = <<>> THEN stopTimerLocked(y) ELSE y

\* flushAllLocked when fs.Write succeeds, or is not needed.
flushAllLocked(x) ==
  IF x.buf = <<>> THEN stopTimerLocked(x) ELSE flushPrefixLocked(x, Len(x.buf))

\* bytes.LastIndexByte(h.buf, '\n') + 1
newline(b) == LET at == { i \in 1 .. Len(b) : b[i] = "\n" } IN
              IF at = {} THEN 0 ELSE CHOOSE i \in at : \A j \in at : j <= i

\* A timer armed only by a Write that flushed nothing.
armed_NoFlush(x) == IF x.buf # <<>> /\ MaxDelay /\ x.timer = 0 /\ x.sent = h.sent
                    THEN startTimerLocked(x) ELSE x

\* The end of Write: arm the timer if bytes stay behind and there is none.
armed(x) == IF x.buf # <<>> /\ MaxDelay /\ x.timer = 0 THEN startTimerLocked(x) ELSE x

Fail == fails < MaxFailures /\ fails' = fails + 1

-----------------------------------------------------------------------------
\* Write, Flush and Close look at h.closed: EBUSY if it is set.
Call(t, l, p) ==
  /\ pc[t] = "idle" /\ ~closed
  /\ pc' = [pc EXCEPT ![t] = l]
  /\ arg' = [arg EXCEPT ![t] = p]
  /\ UNCHANGED <<h, accepted, fails>>

CallWrite(t, p) == /\ Len(accepted) + Len(p) <= MaxBytes
                   /\ Call(t, "write", p) /\ UNCHANGED <<closed, closing, due>>
CallFlush(t) == Call(t, "flush", <<>>) /\ UNCHANGED <<closed, closing, due>>
CallClose(t) == /\ Call(t, "close", <<>>)
                /\ closed' = TRUE /\ closing' = "yes" /\ due' = Len(accepted)

Return(t) == /\ pc' = [pc EXCEPT ![t] = "idle"]
             /\ arg' = [arg EXCEPT ![t] = <<>>]

\* Write under h.mu: append, flush up to the last newline, flush all at MaxSize,
\* arm the timer.  A failing flush ends the Write; its bytes stay in the buffer.
Write(t) ==
  LET x0 == [h EXCEPT !.buf = @ \o arg[t]]
      n == IF FlushOnNewline THEN newline(x0.buf) ELSE 0
      x1 == IF n > 0 THEN flushPrefixLocked(x0, n) ELSE x0
      full == Len(x1.buf) >= MaxSize
      x2 == IF full THEN flushAllLocked(x1) ELSE x1 IN
  /\ pc[t] = "write"
  /\ Len(accepted) + Len(arg[t]) <= MaxBytes
  /\ \E i \in Slots : h.slot[i] = "free"
  /\ accepted' = accepted \o arg[t]
  /\ \/ n > 0 /\ Fail /\ h' = x0
     \/ full /\ Fail /\ h' = x1
     \/ h' = armed(x2) /\ UNCHANGED fails
  /\ Return(t)
  /\ UNCHANGED <<closed, closing, due>>

\* Flush under h.mu.
Flush(t) ==
  /\ pc[t] = "flush"
  /\ \/ h' = flushAllLocked(h) /\ UNCHANGED fails
     \/ h.buf # <<>> /\ Fail /\ UNCHANGED h
  /\ Return(t)
  /\ UNCHANGED <<closed, accepted, closing, due>>

\* Close under h.mu: flush, then stop the timer, whether the flush failed or not.
Close(t) ==
  /\ pc[t] = "close"
  /\ \/ h' = stopTimerLocked(flushAllLocked(h)) /\ closing' = "flushed" /\ UNCHANGED fails
     \/ h.buf # <<>> /\ Fail /\ h' = stopTimerLocked(h) /\ closing' = "failed"
  /\ Return(t)
  /\ UNCHANGED <<closed, accepted, due>>

-----------------------------------------------------------------------------
\* The delay is over; the callback gets past the test of its stop channel ...
Fire(i) ==
  /\ h.slot[i] = "armed"
  /\ h' = [h EXCEPT !.slot[i] = "fired"]
  /\ UNCHANGED <<closed, accepted, fails, pc, arg, closing, due>>

\* The callback of timer i ends.
Done(x, i) == [x EXCEPT !.slot[i] = IF x.timer = i THEN "spent" ELSE "free"]

\* ... calls Flush, which looks at h.closed ...
FireCheck(i) ==
  /\ h.slot[i] = "fired"
  /\ h' = IF closed THEN Done(h, i) ELSE [h EXCEPT !.slot[i] = "lock"]
  /\ UNCHANGED <<closed, accepted, fails, pc, arg, closing, due>>

\* ... and flushes under h.mu; the error is discarded.
FireFlush(i) ==
  /\ h.slot[i] = "lock"
  /\ \/ h' = Done(flushAllLocked(h), i) /\ UNCHANGED fails
     \/ h.buf # <<>> /\ Fail /\ h' = Done(h, i)
  /\ UNCHANGED <<closed, accepted, pc, arg, closing, due>>

-----------------------------------------------------------------------------
ThreadStep(t) == Write(t) \/ Flush(t) \/ Close(t)
TimerStep(i) == Fire(i) \/ FireCheck(i) \/ FireFlush(i)

Next == \/ \E t \in Threads : \/ \E p \in Payload : CallWrite(t, p)
                              \/ CallFlush(t) \/ CallClose(t) \/ ThreadStep(t)
        \/ \E i \in Slots : TimerStep(i)

Spec == Init /\ [][Next]_vars

\* Calls in progress are scheduled, and timers go off.
FairSpec == /\ Spec
            /\ \A t \in Threads : WF_vars(ThreadStep(t))
            /\ \A i \in Slots : WF_vars(TimerStep(i))

-----------------------------------------------------------------------------
\* Types, and h.timer never points to a timer that was stopped or ended.
TypeOK == /\ h \in [buf : Seq(Byte), sent : Seq(Byte), timer : 0 .. MaxTimers,
                    slot : [Slots -> {"free", "armed", "fired", "lock", "spent"}]]
          /\ h.timer # 0 => h.slot[h.timer] # "free"
          /\ closed \in BOOLEAN /\ accepted \in Seq(Byte) /\ fails \in 0 .. MaxFailures
          /\ pc \in [Threads -> {"idle", "write", "flush", "close"}]
          /\ arg \in [Threads -> Seq(Byte)]
          /\ closing \in {"no", "yes", "flushed", "failed"} /\ due \in 0 .. MaxBytes

\* No byte is lost, doubled or overtaken in the buffer: what fs.Write got,
\* followed by what is still buffered, is what Write accepted.
NothingLost == h.sent \o h.buf = accepted

\* "flushed on size, delay, or newline": buffered bytes get flushed, unless the
\* handle is closed or fs.Write fails.
DelayFlushes == MaxDelay /\ h.buf # <<>> ~> h.buf = <<>> \/ closed \/ fails > 0

\* "Close releases the handle, flushing any buffered writes": once Close reported
\* no error, fs.Write has got all that Writes had accepted when it was called.
CloseFlushes == closing = "flushed" => Len(h.sent) >= due

\* Once Close returned no timer is left armed on the dead handle, unless a Write
\* that overlapped the Close armed it.
QuietAfterClose ==
  closing \in {"flushed", "failed"} /\ Len(accepted) = due => \A i \in Slots : h.slot[i] # "armed"

\* The buffer and its timers: nothing is lost between Write and fs.Write, and what
\* Close leaves is flushed and quiet.
BufferExact == TypeOK /\ NothingLost /\ CloseFlushes /\ QuietAfterClose
=============================================================================
