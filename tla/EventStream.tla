----------------------------- MODULE EventStream -----------------------------
(***************************************************************************)
(* Events from the FileSystem to a WebSocket client: the event bus         *)
(* (core/events.go), and the subscriptions of one connection with their    *)
(* channels and forwarding goroutines (adapter/websocket/websocket.go).    *)
(* emit copies the listeners under eb.mu and calls them after releasing    *)
(* it; the reader of the connection unregisters a listener and closes its  *)
(* channel in two steps.  Connections share the bus only, so the others    *)
(* are left out.  Heartbeats and replies change nothing here.              *)
(***************************************************************************)
EXTENDS Naturals, Sequences, FiniteSets

CONSTANTS Emitters,  \* goroutines that mount, unmount, rename and write
          SubIDs,    \* the client's names for its subscriptions
          EventPaths, \* paths of events
          Filters,   \* for every prefix in use, the paths that have it
          ChanCap,   \* capacity of a subscription's channel (16)
          MaxIds,    \* bound: listeners ever registered
          MaxEvents  \* bound: events ever emitted

ASSUME EventStreamAssumption ==
  /\ SubIDs # {} /\ Filters \subseteq SUBSET EventPaths
  /\ ChanCap \in Nat \ {0} /\ MaxIds \in Nat /\ MaxEvents \in Nat

Ids == 1 .. MaxIds

VARIABLES subs,     \* eb.subs: ids of the registered listeners
          seq,      \* eb.seq
          filter,   \* the prefix of every listener
          log,      \* the events emitted so far: path and emitter
          todo,     \* listeners an emit has copied and not called yet, with its event
          table,    \* the reader's map from sub_id to listener and channel, 0 if absent
          rpc,      \* the reader: loop, close, register, teardown, gone
          arg,      \* the message it works on: op, sub_id and prefix
          up,       \* the connection takes writes
          chan,     \* the channel of every listener: none, open, closed
          ch,       \* the events in it
          fwd,      \* its forwarding goroutine: none, run, done
          received, \* the events the client got from it
          since,    \* how many events had been emitted when the listener was registered
          lossy,    \* listeners that dropped an event on a full channel
          panicked  \* a goroutine sent on a closed channel: the process dies

bus == <<subs, seq, filter, since>>
conn == <<table, rpc, arg, up>>
fvars == <<fwd, received>>
eventsVars == <<bus, log, todo, conn, chan, ch, fvars, lossy, panicked>>

NoArg == [op |-> "none", sub |-> CHOOSE s \in SubIDs : TRUE, filter |-> {}]

EventsInit == /\ subs = {} /\ seq = 0 /\ log = <<>> /\ lossy = {} /\ panicked = FALSE
              /\ filter = [i \in Ids |-> {}] /\ since = [i \in Ids |-> 0]
              /\ todo = [t \in Emitters |-> {}]
              /\ table = [s \in SubIDs |-> 0] /\ rpc = "loop" /\ arg = NoArg /\ up = TRUE
              /\ chan = [i \in Ids |-> "none"] /\ ch = [i \in Ids |-> <<>>]
              /\ fwd = [i \in Ids |-> "none"]
              /\ received = [i \in Ids |-> <<>>]

-----------------------------------------------------------------------------
\* An emit that does not wait for its listeners.
Emit_Async(t, p) ==
  /\ Len(log) < MaxEvents
  /\ log' = Append(log, [path |-> p, by |-> t])
  /\ todo' = [todo EXCEPT ![t] = @ \cup ({Len(log')} \X subs)]
  /\ UNCHANGED <<bus, conn, chan, ch, fvars, lossy, panicked>>

\* emit copies the listeners under eb.mu ...
Emit(t, p) ==
  /\ todo[t] = {} /\ Len(log) < MaxEvents
  /\ log' = Append(log, [path |-> p, by |-> t])
  /\ todo' = [todo EXCEPT ![t] = {Len(log')} \X subs]
  /\ UNCHANGED <<bus, conn, chan, ch, fvars, lossy, panicked>>

\* ... skips those with another prefix ...
Skip(t, n, i) == /\ log[n].path \notin filter[i] /\ todo' = [todo EXCEPT ![t] = @ \ {<<n, i>>}]
                 /\ UNCHANGED <<ch, lossy, panicked>>

Fits(i) == Len(ch[i]) < ChanCap

\* ... and calls the others in any order: the event enters the channel, or is
\* dropped if it is full; a send on a closed channel panics.
Send(t, n, i) ==
  /\ log[n].path \in filter[i]
  /\ todo' = [todo EXCEPT ![t] = @ \ {<<n, i>>}]
  /\ \/ chan[i] = "closed" /\ panicked' = TRUE /\ UNCHANGED <<ch, lossy>>
     \/ chan[i] = "open" /\ Fits(i) /\ ch' = [ch EXCEPT ![i] = Append(@, n)]
        /\ UNCHANGED <<lossy, panicked>>
     \/ chan[i] = "open" /\ ~Fits(i) /\ lossy' = lossy \cup {i}
        /\ UNCHANGED <<ch, panicked>>

Call(t) == /\ \E e \in todo[t] : Skip(t, e[1], e[2]) \/ Send(t, e[1], e[2])
           /\ UNCHANGED <<bus, log, conn, chan, fvars>>

\* events.clear, called by Shutdown.
ClearSubs == /\ subs # {} /\ subs' = {}
             /\ UNCHANGED <<seq, filter, since, log, todo, conn, chan, ch, fvars, lossy, panicked>>

-----------------------------------------------------------------------------
\* A replacement that leaves the old listener registered.
Unsub_Not(s) == subs

\* sub.unsub()
Unsub(s) == subs \ {table[s]}

\* The reader gets a subscribe message: the listener of an older subscription with
\* that sub_id is unregistered.
Subscribe(s, f) ==
  /\ rpc = "loop" /\ seq < MaxIds
  /\ arg' = [op |-> "subscribe", sub |-> s, filter |-> f]
  /\ IF table[s] = 0 THEN rpc' = "register" /\ UNCHANGED subs
                     ELSE rpc' = "close" /\ subs' = Unsub(s)
  /\ UNCHANGED <<seq, filter, since, log, todo, table, up, chan, ch, fvars, lossy, panicked>>

\* It gets an unsubscribe message for a known sub_id (for others it only replies).
Unsubscribe(s) ==
  /\ rpc = "loop" /\ table[s] # 0
  /\ arg' = [op |-> "unsubscribe", sub |-> s, filter |-> {}]
  /\ rpc' = "close" /\ subs' = Unsub(s)
  /\ UNCHANGED <<seq, filter, since, log, todo, table, up, chan, ch, fvars, lossy, panicked>>

\* A subscription whose channel stays open.
Closed_Not(i) == chan

\* close(sub.ch)
Closed(i) == [chan EXCEPT ![i] = "closed"]

\* After unsub the reader closes the channel; a subscribe goes on to register.
CloseChannel ==
  /\ rpc = "close"
  /\ chan' = Closed(table[arg.sub])
  /\ IF arg.op = "subscribe"
     THEN rpc' = "register" /\ UNCHANGED <<table, arg>>
     ELSE /\ rpc' = IF arg.op = "unsubscribe" THEN "loop" ELSE "teardown"
          /\ table' = [table EXCEPT ![arg.sub] = 0]
          /\ arg' = NoArg
  /\ UNCHANGED <<bus, log, todo, up, ch, fvars, lossy, panicked>>

\* RegisterNotifier, with a new channel; then the forwarding goroutine is started.
Register ==
  /\ rpc = "register"
  /\ seq' = seq + 1
  /\ subs' = subs \cup {seq'}
  /\ filter' = [filter EXCEPT ![seq'] = arg.filter]
  /\ since' = [since EXCEPT ![seq'] = Len(log)]
  /\ chan' = [chan EXCEPT ![seq'] = "open"]
  /\ fwd' = [fwd EXCEPT ![seq'] = "run"]
  /\ table' = [table EXCEPT ![arg.sub] = seq']
  /\ rpc' = "loop" /\ arg' = NoArg
  /\ UNCHANGED <<log, todo, up, ch, received, lossy, panicked>>

\* The peer goes away, or a write misses its deadline: no later write succeeds.
PeerGone == /\ up /\ up' = FALSE
            /\ UNCHANGED <<bus, log, todo, table, rpc, arg, chan, ch, fvars, lossy, panicked>>

\* ReadJSON fails, or the reply cannot be written: handleWS returns and its deferred
\* calls run.
Disconnect ==
  /\ rpc = "loop" /\ rpc' = "teardown"
  /\ UNCHANGED <<bus, log, todo, table, arg, up, chan, ch, fvars, lossy, panicked>>

\* The deferred loop unregisters the subscriptions one by one ...
Teardown(s) ==
  /\ rpc = "teardown" /\ table[s] # 0
  /\ arg' = [op |-> "teardown", sub |-> s, filter |-> {}]
  /\ rpc' = "close" /\ subs' = Unsub(s)
  /\ UNCHANGED <<seq, filter, since, log, todo, table, up, chan, ch, fvars, lossy, panicked>>

\* ... and the connection is closed.
CloseConn ==
  /\ rpc = "teardown" /\ \A s \in SubIDs : table[s] = 0
  /\ rpc' = "gone" /\ up' = FALSE
  /\ UNCHANGED <<bus, log, todo, table, arg, chan, ch, fvars, lossy, panicked>>

-----------------------------------------------------------------------------
\* The forwarding goroutine takes an event and writes it: "for e := range ch".  A
\* write that takes long is a step that comes late; its deadline bounds it, and its
\* error is ignored.
Forward(i) ==
  /\ fwd[i] = "run" /\ ch[i] # <<>>
  /\ ch' = [ch EXCEPT ![i] = Tail(@)]
  /\ received' = IF up THEN [received EXCEPT ![i] = Append(@, Head(ch[i]))] ELSE received
  /\ UNCHANGED <<bus, log, todo, conn, chan, fwd, lossy, panicked>>

\* The channel is closed and drained.
FwdEnds(i) ==
  /\ fwd[i] = "run" /\ ch[i] = <<>> /\ chan[i] = "closed"
  /\ fwd' = [fwd EXCEPT ![i] = "done"]
  /\ UNCHANGED <<bus, log, todo, conn, chan, ch, received, lossy, panicked>>

-----------------------------------------------------------------------------
ReaderStep == CloseChannel \/ Register \/ CloseConn \/ \E s \in SubIDs : Teardown(s)
FwdStep(i) == Forward(i) \/ FwdEnds(i)

AnyStep == \/ \E t \in Emitters : Call(t) \/ \E p \in EventPaths : Emit(t, p)
           \/ \E s \in SubIDs : Unsubscribe(s) \/ \E f \in Filters : Subscribe(s, f)
           \/ \E i \in Ids : FwdStep(i)
           \/ ReaderStep \/ ClearSubs \/ PeerGone \/ Disconnect

\* A panic ends the process.
EventsNext == ~panicked /\ AnyStep

EventsSpec == EventsInit /\ [][EventsNext]_eventsVars

\* Goroutines are scheduled.  A connection that takes no writes ends the reader: its
\* next reply fails, or nothing arrives before the read deadline, which only messages
\* and pongs renew.  (A peer that sent nothing but "pong" messages would keep it.)
FairEventsSpec == /\ EventsSpec
                  /\ WF_eventsVars(~panicked /\ ReaderStep) /\ WF_eventsVars(~panicked /\ ~up /\ Disconnect)
                  /\ \A i \in Ids : WF_eventsVars(~panicked /\ FwdStep(i))
                  /\ \A t \in Emitters : WF_eventsVars(~panicked /\ Call(t))

-----------------------------------------------------------------------------
EventsTyped == /\ subs \subseteq 1 .. seq /\ seq \in 0 .. MaxIds
               /\ filter \in [Ids -> SUBSET EventPaths]
               /\ log \in Seq([path : EventPaths, by : Emitters])
               /\ todo \in [Emitters -> SUBSET ((1 .. Len(log)) \X (1 .. seq))]
               /\ table \in [SubIDs -> 0 .. seq]
               /\ rpc \in {"loop", "close", "register", "teardown", "gone"}
               /\ arg \in [op : {"none", "subscribe", "unsubscribe", "teardown"}, sub : SubIDs,
                           filter : SUBSET EventPaths]
               /\ up \in BOOLEAN /\ panicked \in BOOLEAN /\ lossy \subseteq 1 .. seq
               /\ \A i \in Ids : /\ chan[i] \in {"none", "open", "closed"}
                                 /\ ch[i] \in Seq(1 .. Len(log)) /\ Len(ch[i]) <= ChanCap
                                 /\ fwd[i] \in {"none", "run", "done"}
                                 /\ fwd[i] = "none" <=> chan[i] = "none"
                                 /\ received[i] \in Seq(1 .. Len(log))

\* A replaced, cancelled or abandoned subscription leaves no listener on the bus and
\* no channel open: the reader's map leads to all there are, and a forwarding goroutine
\* was started with each channel.
NothingLeaks ==
  /\ EventsTyped
  /\ \A i \in Ids : i \in subs \/ chan[i] = "open" => \E s \in SubIDs : table[s] = i

\* The events of one goroutine reach a subscription in the order they were emitted,
\* and none of them twice, however full its channel gets.
InOrder ==
  \A i \in Ids : LET got == received[i] IN
    \A m, n \in DOMAIN got : m < n /\ log[got[m]].by = log[got[n]].by => got[m] < got[n]

\* Nothing is on its way to the client of listener i.
Settled(i) == ch[i] = <<>> /\ \A t \in Emitters : todo[t] = {}

\* A subscription gets the events under its prefix that were emitted since it was
\* registered, all of them if its channel was never full, and no others.
GetsItsEvents ==
  \A i \in subs : up /\ Settled(i) =>
    LET got == { received[i][n] : n \in DOMAIN received[i] }
        due == { n \in since[i] + 1 .. Len(log) : log[n].path \in filter[i] }
    IN got \subseteq due /\ (i \notin lossy => got = due)

\* What a subscription is sent is what was emitted for it, in order.
Delivery == InOrder /\ GetsItsEvents

\* "terminate the forwarding goroutine": it ends once its subscription is replaced or
\* cancelled, and when the client goes away every goroutine of the connection ends.
GoroutinesEnd ==
  /\ \A i \in Ids : chan[i] = "closed" ~> fwd[i] = "done" \/ panicked
  /\ ~up ~> panicked \/ (rpc = "gone" /\ \A i \in Ids : fwd[i] \in {"none", "done"})

\* "no events after unregister": a listener is not called once it was unregistered
\* and its channel is closed.
NoSendAfterUnsubscribe == ~panicked
=============================================================================
