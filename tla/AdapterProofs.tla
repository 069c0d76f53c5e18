---------------------------- MODULE AdapterProofs ----------------------------
(***************************************************************************)
(* What the adapters promise, for every number of clients, goroutines,     *)
(* paths and requests, and every order of their steps.                     *)
(*                                                                         *)
(* EventStream: subscriptions leak nothing, and what a subscription is     *)
(* sent is what was emitted for it, in order.  NothingLeaks is not         *)
(* inductive: LeakInv adds that the reader's map holds every listener once *)
(* and what the reader has done of the message it works on.  Delivery is   *)
(* not either: FlowInv says of the events that are in a channel, or that   *)
(* an emit has still to deliver, what Delivery says of those received.     *)
(*                                                                         *)
(* FuseInodes: the inode table and its LRU list.  FuseInv adds to          *)
(* InodesAgree what every handler knows between two of its steps of the    *)
(* tree and the table, until another goroutine changes them.               *)
(*                                                                         *)
(* WebDAV: the property cache, the limiters, every handler alone, and the  *)
(* reload.  DavInv says for every step of a handler which requests come to *)
(* it, what it owes the cache, what it has seen that is still so, and, as  *)
(* long as nobody interfered, what it has made of the tree.                *)
(***************************************************************************)
EXTENDS EventStream, WebDAV, FuseInodes, SequenceTheorems, FiniteSetTheorems, TLAPS

\* Types, as far as EventsTyped leaves them out, and by what they change with.
BusTypes == /\ seq \in 0 .. MaxIds /\ subs \subseteq 1 .. seq /\ lossy \subseteq 1 .. seq
            /\ filter \in [Ids -> SUBSET EventPaths]
LogTypes == /\ log \in Seq([path : EventPaths, by : Emitters])
            /\ todo \in [Emitters -> SUBSET ((1 .. Len(log)) \X (1 .. seq))]
            /\ since \in [Ids -> 0 .. Len(log)]
            /\ ch \in [Ids -> Seq(1 .. Len(log))] /\ received \in [Ids -> Seq(1 .. Len(log))]
            /\ \A i \in Ids : Len(ch[i]) <= ChanCap
ConnTypes == /\ table \in [SubIDs -> 0 .. seq]
             /\ rpc \in {"loop", "close", "register", "teardown", "gone"}
             /\ arg \in [op : {"none", "subscribe", "unsubscribe", "teardown"}, sub : SubIDs,
                         filter : SUBSET EventPaths]
             /\ up \in BOOLEAN /\ panicked \in BOOLEAN
ChanTypes == /\ chan \in [Ids -> {"none", "open", "closed"}]
             /\ fwd \in [Ids -> {"none", "run", "done"}]
             /\ \A i \in Ids : fwd[i] = "none" <=> chan[i] = "none"
Types == BusTypes /\ LogTypes /\ ConnTypes /\ ChanTypes

\* The reader's map leads to every listener and every open channel, ...
Leads == \A i \in Ids : i \in subs \/ chan[i] = "open" => \E s \in SubIDs : table[s] = i

\* ... and to none of them twice.
Distinct == \A r, s \in SubIDs : table[r] = table[s] /\ table[r] # 0 => r = s

\* A listener has its channel from RegisterNotifier on.
Fresh == \A i \in Ids : /\ i <= seq => chan[i] # "none"
                        /\ i > seq => chan[i] = "none" /\ ch[i] = <<>> /\ received[i] = <<>>

\* A listener is unregistered before its channel is closed, and that before its place
\* in the map is taken.
Reader == /\ \A i \in subs : chan[i] = "open"
          /\ rpc = "close" => table[arg.sub] # 0 /\ table[arg.sub] \notin subs
          /\ rpc = "register" => \/ table[arg.sub] = 0
                                 \/ table[arg.sub] \notin subs /\ chan[table[arg.sub]] = "closed"
          /\ rpc = "register" \/ (rpc = "close" /\ arg.op = "subscribe") => seq < MaxIds

LeakInv == Types /\ Leads /\ Distinct /\ Fresh /\ Reader

\* Event n is in the sequence s, and s has the events of each goroutine in their order.
In(s, n) == \E k \in 1 .. Len(s) : s[k] = n
Sorted(s) == \A j, k \in 1 .. Len(s) : j < k /\ log[s[j]].by = log[s[k]].by => s[j] < s[k]

\* An emit delivers one event at a time, its goroutine's last.
OneEvent == \A t \in Emitters : \A d, e \in todo[t] : d[1] = e[1] /\ log[d[1]].by = t

\* The events of a goroutine are received before those that are in the channel, and these
\* enter it before the one it delivers.
Ordered == \A i \in Ids :
  /\ Sorted(received[i]) /\ Sorted(ch[i])
  /\ \A m, n \in 1 .. Len(log) :
       In(received[i], m) /\ In(ch[i], n) /\ log[m].by = log[n].by => m < n
  /\ \A t \in Emitters, n \in 1 .. Len(log) :
       <<n, i>> \in todo[t] =>
         \A m \in 1 .. Len(log) : (In(received[i], m) \/ In(ch[i], m)) /\ log[m].by = t => m < n

\* Event n was emitted for listener i.
Wanted(i, n) == since[i] < n /\ log[n].path \in filter[i]

\* Only such events are on their way to a listener, and all of them if it dropped none.
OnlyDue == /\ \A i \in Ids, n \in 1 .. Len(log) : In(received[i], n) \/ In(ch[i], n) => Wanted(i, n)
           /\ \A t \in Emitters : \A i \in Ids, n \in 1 .. Len(log) : <<n, i>> \in todo[t] => since[i] < n
AllDue == \A i \in subs : up /\ i \notin lossy =>
            \A n \in 1 .. Len(log) : Wanted(i, n) =>
              In(received[i], n) \/ In(ch[i], n) \/ \E t \in Emitters : <<n, i>> \in todo[t]

FlowInv == LeakInv /\ OneEvent /\ Ordered /\ OnlyDue /\ AllDue

-----------------------------------------------------------------------------
LEMMA LeakInvIsStronger == LeakInv => NothingLeaks
<1> SUFFICES ASSUME LeakInv PROVE NothingLeaks
  OBVIOUS
<1>1. EventsTyped
  BY DEF LeakInv, Types, BusTypes, LogTypes, ConnTypes, ChanTypes, EventsTyped
<1>2. QED
  BY <1>1 DEF LeakInv, Leads, NothingLeaks

LEMMA NoArgType == NoArg \in [op : {"none", "subscribe", "unsubscribe", "teardown"}, sub : SubIDs,
                              filter : SUBSET EventPaths]
<1>1. (CHOOSE s \in SubIDs : TRUE) \in SubIDs
  BY EventStreamAssumption, Zenon
<1>2. QED
  BY <1>1 DEF NoArg

LEMMA InitLeakInv == EventsInit => LeakInv
<1> SUFFICES ASSUME EventsInit PROVE LeakInv
  OBVIOUS
<1>1. /\ <<>> \in Seq([path : EventPaths, by : Emitters]) /\ <<>> \in Seq(1 .. Len(log)) /\ Len(<<>>) = 0
      /\ 0 \in 0 .. MaxIds /\ 0 \in 0 .. 0 /\ 0 <= ChanCap
  BY EventStreamAssumption
<1>2. BusTypes
  BY <1>1 DEF EventsInit, BusTypes
<1>3. LogTypes
  BY <1>1 DEF EventsInit, LogTypes
<1>4. ConnTypes
  BY <1>1, NoArgType DEF EventsInit, ConnTypes
<1>5. ChanTypes
  BY DEF EventsInit, ChanTypes
<1>6. Leads /\ Distinct /\ Fresh /\ Reader
  BY EventStreamAssumption DEF EventsInit, Leads, Distinct, Fresh, Reader, Ids
<1>7. QED
  BY <1>2, <1>3, <1>4, <1>5, <1>6 DEF LeakInv, Types

\* A sequence of events stays one when more are emitted.
LEMMA SeqGrows ==
  ASSUME NEW m \in Nat, NEW n \in Nat, m <= n
  PROVE  Seq(1 .. m) \subseteq Seq(1 .. n)
<1> SUFFICES ASSUME NEW s \in Seq(1 .. m) PROVE s \in Seq(1 .. n)
  OBVIOUS
<1>1. \A k \in 1 .. Len(s) : s[k] \in 1 .. n
  BY ElementOfSeq
<1>2. QED
  BY <1>1

\* The first of a sequence, and the others.
LEMMA TailFacts ==
  ASSUME NEW S, NEW s \in Seq(S), s # <<>>
  PROVE  /\ Len(s) \in Nat /\ Len(s) > 0 /\ Head(s) \in S /\ Head(s) = s[1]
         /\ Tail(s) \in Seq(S) /\ Len(Tail(s)) = Len(s) - 1
         /\ \A k \in 1 .. Len(s) - 1 : Tail(s)[k] = s[k + 1]
<1>1. Len(s) \in Nat /\ Len(s) > 0
  BY EmptySeq
<1>2. Head(s) \in S /\ Tail(s) \in Seq(S)
  BY HeadTailProperties
<1>3. QED
  BY <1>1, <1>2

\* What emit and its calls of listeners leave alone.
LEMMA OthersKeep ==
  ASSUME LeakInv, UNCHANGED <<subs, seq, table, rpc, arg, chan>>,
         BusTypes', LogTypes', ConnTypes', ChanTypes',
         \A i \in Ids : i > seq => ch'[i] = <<>> /\ received'[i] = <<>>
  PROVE  LeakInv'
  BY DEF LeakInv, Types, Leads, Distinct, Fresh, Reader

-----------------------------------------------------------------------------
\* The steps of emitters and forwarding goroutines, and those of the connection that
\* touch no listener.
LEMMA EmitLeak ==
  ASSUME LeakInv, NEW t \in Emitters, NEW p \in EventPaths, Emit(t, p)
  PROVE  LeakInv'
<1>1. /\ log \in Seq([path : EventPaths, by : Emitters]) /\ Len(log) \in Nat
      /\ todo \in [Emitters -> SUBSET ((1 .. Len(log)) \X (1 .. seq))]
      /\ since \in [Ids -> 0 .. Len(log)]
      /\ ch \in [Ids -> Seq(1 .. Len(log))] /\ received \in [Ids -> Seq(1 .. Len(log))]
      /\ subs \subseteq 1 .. seq
  BY DEF LeakInv, Types, LogTypes, BusTypes
<1>2. /\ log' = Append(log, [path |-> p, by |-> t])
      /\ todo' = [todo EXCEPT ![t] = {Len(log')} \X subs]
      /\ UNCHANGED <<bus, conn, chan, ch, fvars, lossy, panicked>>
  BY DEF Emit
<1>3. log' \in Seq([path : EventPaths, by : Emitters]) /\ Len(log') = Len(log) + 1
  BY <1>1, <1>2, AppendProperties
<1>4. Seq(1 .. Len(log)) \subseteq Seq(1 .. Len(log')) /\ 0 .. Len(log) \subseteq 0 .. Len(log')
  BY <1>1, <1>3, SeqGrows
<1>5. todo' \in [Emitters -> SUBSET ((1 .. Len(log')) \X (1 .. seq))]
  <2> DEFINE old == (1 .. Len(log)) \X (1 .. seq)
             new == (1 .. Len(log')) \X (1 .. seq)
             calls == {Len(log')} \X subs
  <2>1. calls \subseteq new
    <3>1. Len(log') \in 1 .. Len(log')
      BY <1>1, <1>3
    <3>2. QED
      BY <1>1, <3>1
  <2>2. old \subseteq new
    BY <1>1, <1>3
  <2>3. todo \in [Emitters -> SUBSET old] /\ todo' = [todo EXCEPT ![t] = calls]
    BY <1>1, <1>2
  <2> HIDE DEF old, new, calls
  <2>4. todo' \in [Emitters -> SUBSET new]
    BY <2>1, <2>2, <2>3
  <2>5. QED
    BY <2>4 DEF new
<1>6. LogTypes'
  BY <1>1, <1>2, <1>3, <1>4, <1>5 DEF bus, fvars, LogTypes, LeakInv, Types
<1>7. QED
  BY <1>2, <1>6, OthersKeep DEF bus, conn, fvars, LeakInv, Types, BusTypes, ConnTypes, ChanTypes, Fresh

LEMMA CallLeak ==
  ASSUME LeakInv, NEW t \in Emitters, Call(t)
  PROVE  LeakInv'
<1>1. /\ todo \in [Emitters -> SUBSET ((1 .. Len(log)) \X (1 .. seq))] /\ seq \in 0 .. MaxIds
      /\ ch \in [Ids -> Seq(1 .. Len(log))] /\ \A i \in Ids : Len(ch[i]) <= ChanCap
  BY DEF LeakInv, Types, LogTypes, BusTypes
<1>2. UNCHANGED <<bus, log, conn, chan, fvars>>
  BY DEF Call
<1>3. PICK e \in todo[t] : Skip(t, e[1], e[2]) \/ Send(t, e[1], e[2])
  BY DEF Call
<1> DEFINE n == e[1]
           i == e[2]
<1>4. n \in 1 .. Len(log) /\ i \in 1 .. seq /\ i \in Ids
  BY <1>1, <1>3, EventStreamAssumption DEF Ids
<1>5. Skip(t, n, i) \/ Send(t, n, i)
  BY <1>3
<1> HIDE DEF n, i
<1>6. /\ todo' \in [Emitters -> SUBSET ((1 .. Len(log)) \X (1 .. seq))]
      /\ lossy' \subseteq 1 .. seq /\ panicked' \in BOOLEAN
  BY <1>1, <1>4, <1>5 DEF Skip, Send, LeakInv, Types, BusTypes, ConnTypes
<1>7. /\ ch' \in [Ids -> Seq(1 .. Len(log))] /\ \A j \in Ids : Len(ch'[j]) <= ChanCap
      /\ \A j \in Ids : j > seq => ch'[j] = ch[j]
  <2>1. CASE ch' = ch
    BY <1>1, <2>1
  <2>2. CASE Fits(i) /\ ch' = [ch EXCEPT ![i] = Append(@, n)]
    <3>1. Append(ch[i], n) \in Seq(1 .. Len(log)) /\ Len(Append(ch[i], n)) = Len(ch[i]) + 1
          /\ Len(ch[i]) \in Nat
      BY <1>1, <1>4, AppendProperties
    <3>2. QED
      BY <1>1, <1>4, <2>2, <3>1, EventStreamAssumption DEF Fits
  <2>3. QED
    BY <1>5, <2>1, <2>2 DEF Skip, Send
<1>8. QED
  BY <1>2, <1>6, <1>7, OthersKeep
  DEF bus, conn, fvars, LeakInv, Types, BusTypes, LogTypes, ConnTypes, ChanTypes, Fresh

LEMMA ForwardLeak ==
  ASSUME LeakInv, NEW i \in Ids, FwdStep(i)
  PROVE  LeakInv'
<1>1. /\ ch \in [Ids -> Seq(1 .. Len(log))] /\ \A j \in Ids : Len(ch[j]) <= ChanCap
      /\ received \in [Ids -> Seq(1 .. Len(log))] /\ fwd \in [Ids -> {"none", "run", "done"}]
      /\ \A j \in Ids : fwd[j] = "none" <=> chan[j] = "none"
      /\ i > seq => ch[i] = <<>> /\ chan[i] = "none" /\ seq \in Nat
  BY DEF LeakInv, Types, LogTypes, ChanTypes, BusTypes, Fresh
<1>2. CASE Forward(i)
  <2>1. /\ Tail(ch[i]) \in Seq(1 .. Len(log)) /\ Len(Tail(ch[i])) <= ChanCap
        /\ Append(received[i], Head(ch[i])) \in Seq(1 .. Len(log))
    <3>1. ch[i] \in Seq(1 .. Len(log)) /\ ch[i] # <<>> /\ Len(ch[i]) <= ChanCap
      BY <1>1, <1>2 DEF Forward
    <3>2. /\ Head(ch[i]) \in 1 .. Len(log) /\ Tail(ch[i]) \in Seq(1 .. Len(log))
          /\ Len(Tail(ch[i])) = Len(ch[i]) - 1 /\ Len(ch[i]) \in Nat
      BY <3>1, TailFacts
    <3>3. received[i] \in Seq(1 .. Len(log))
      BY <1>1
    <3>4. Append(received[i], Head(ch[i])) \in Seq(1 .. Len(log))
      BY <3>2, <3>3, AppendProperties
    <3>5. QED
      BY <3>1, <3>2, <3>4, EventStreamAssumption
  <2>2. /\ ch' \in [Ids -> Seq(1 .. Len(log))] /\ \A j \in Ids : Len(ch'[j]) <= ChanCap
        /\ received' \in [Ids -> Seq(1 .. Len(log))]
    BY <1>1, <1>2, <2>1 DEF Forward
  <2>3. \A j \in Ids : j > seq => ch'[j] = ch[j] /\ received'[j] = received[j]
    BY <1>1, <1>2 DEF Forward
  <2>4. UNCHANGED <<bus, log, todo, conn, chan, fwd, lossy, panicked>>
    BY <1>2 DEF Forward
  <2>5. QED
    BY <2>2, <2>3, <2>4, OthersKeep
    DEF bus, conn, LeakInv, Types, BusTypes, LogTypes, ConnTypes, ChanTypes, Fresh
<1>3. CASE FwdEnds(i)
  <2>1. ChanTypes'
    BY <1>1, <1>3 DEF FwdEnds, LeakInv, Types, ChanTypes
  <2>2. UNCHANGED <<bus, log, todo, conn, chan, ch, received, lossy, panicked>>
    BY <1>3 DEF FwdEnds
  <2>3. QED
    BY <2>1, <2>2, OthersKeep DEF bus, conn, LeakInv, Types, BusTypes, LogTypes, ConnTypes, Fresh
<1>4. QED
  BY <1>2, <1>3 DEF FwdStep

LEMMA QuietLeak ==
  ASSUME LeakInv, ClearSubs \/ PeerGone \/ Disconnect \/ CloseConn
  PROVE  LeakInv'
<1>1. UNCHANGED <<seq, filter, since, log, todo, table, arg, chan, ch, fvars, lossy, panicked>>
      /\ subs' \subseteq subs /\ up' \in BOOLEAN
      /\ rpc' \in {rpc, "teardown", "gone"}
  BY DEF ClearSubs, PeerGone, Disconnect, CloseConn, conn, bus, LeakInv, Types, ConnTypes
<1>2. Types'
  BY <1>1 DEF fvars, LeakInv, Types, BusTypes, LogTypes, ConnTypes, ChanTypes
<1>3. QED
  BY <1>1, <1>2 DEF fvars, LeakInv, Leads, Distinct, Fresh, Reader

-----------------------------------------------------------------------------
\* The reader takes a message, or a subscription to tear down: the old listener leaves
\* the bus, while the map still leads to its channel.
LEMMA MessageLeak ==
  ASSUME LeakInv, NEW s \in SubIDs,
         (\E f \in Filters : Subscribe(s, f)) \/ Unsubscribe(s) \/ Teardown(s)
  PROVE  LeakInv'
<1>1. /\ table \in [SubIDs -> 0 .. seq] /\ Filters \subseteq SUBSET EventPaths /\ subs \subseteq 1 .. seq
  BY EventStreamAssumption DEF LeakInv, Types, ConnTypes, BusTypes
<1>2. /\ UNCHANGED <<seq, filter, since, log, todo, table, up, chan, ch, fvars, lossy, panicked>>
      /\ arg'.sub = s /\ arg'.op \in {"subscribe", "unsubscribe", "teardown"}
      /\ arg' \in [op : {"none", "subscribe", "unsubscribe", "teardown"}, sub : SubIDs,
                   filter : SUBSET EventPaths]
      /\ arg'.op = "subscribe" => seq < MaxIds
      /\ \/ table[s] = 0 /\ rpc' = "register" /\ subs' = subs /\ seq < MaxIds
         \/ table[s] # 0 /\ rpc' = "close" /\ subs' = subs \ {table[s]}
  BY <1>1 DEF Subscribe, Unsubscribe, Teardown, Unsub
<1>3. Types'
  BY <1>2 DEF fvars, LeakInv, Types, BusTypes, LogTypes, ConnTypes, ChanTypes
<1>4. Leads' /\ Distinct' /\ Fresh'
  BY <1>2 DEF fvars, LeakInv, Leads, Distinct, Fresh
<1>5. Reader'
  BY <1>2 DEF fvars, LeakInv, Reader
<1>6. QED
  BY <1>3, <1>4, <1>5 DEF LeakInv

LEMMA CloseLeak ==
  ASSUME LeakInv, CloseChannel
  PROVE  LeakInv'
<1> DEFINE s == arg.sub
           c == table[s]
<1>1. /\ UNCHANGED <<bus, log, todo, up, ch, fvars, lossy, panicked>>
      /\ chan' = [chan EXCEPT ![c] = "closed"]
      /\ \/ rpc' = "register" /\ arg.op = "subscribe" /\ UNCHANGED <<table, arg>>
         \/ /\ rpc' \in {"loop", "teardown"} /\ table' = [table EXCEPT ![s] = 0]
            /\ arg' = NoArg
  BY DEF CloseChannel, Closed
<1>2. /\ s \in SubIDs /\ c \in Ids /\ c <= seq /\ c \notin subs /\ c # 0
      /\ chan[c] # "none" /\ seq \in 0 .. MaxIds
      /\ chan \in [Ids -> {"none", "open", "closed"}] /\ table \in [SubIDs -> 0 .. seq]
      /\ rpc = "close"
  <2>1. rpc = "close" /\ s \in SubIDs /\ c # 0 /\ c \notin subs
        /\ seq \in 0 .. MaxIds
        /\ chan \in [Ids -> {"none", "open", "closed"}] /\ table \in [SubIDs -> 0 .. seq]
    BY DEF CloseChannel, LeakInv, Types, ConnTypes, ChanTypes, BusTypes, Reader
  <2>2. c \in Ids /\ c <= seq
    BY <2>1, EventStreamAssumption DEF Ids
  <2>3. QED
    BY <2>1, <2>2 DEF LeakInv, Fresh
<1> HIDE DEF c
<1>3. /\ chan' \in [Ids -> {"none", "open", "closed"}]
      /\ \A i \in Ids : (chan'[i] = "none" <=> chan[i] = "none") /\ (i # c => chan'[i] = chan[i])
      /\ chan'[c] = "closed"
  BY <1>1, <1>2
<1>4. Types'
  <2>1. BusTypes' /\ LogTypes'
    BY <1>1 DEF bus, fvars, LeakInv, Types, BusTypes, LogTypes
  <2>2. ChanTypes'
    BY <1>1, <1>3 DEF fvars, LeakInv, Types, ChanTypes
  <2>3. ConnTypes'
    <3>1. 0 \in 0 .. seq
      BY <1>2
    <3>2. QED
      BY <1>1, <1>2, <3>1, NoArgType DEF bus, LeakInv, Types, ConnTypes
  <2>4. QED
    BY <2>1, <2>2, <2>3 DEF Types
<1>5. Fresh'
  BY <1>1, <1>3 DEF bus, fvars, LeakInv, Fresh
<1>6. Leads'
  <2>1. ASSUME NEW i \in Ids, i \in subs \/ chan'[i] = "open"
        PROVE  \E r \in SubIDs : table'[r] = i
    <3>1. i # c /\ (i \in subs \/ chan[i] = "open")
      BY <1>2, <1>3, <2>1
    <3>2. PICK r \in SubIDs : table[r] = i
      BY <3>1 DEF LeakInv, Leads
    <3>3. r # s
      BY <3>1, <3>2 DEF c
    <3>4. table'[r] = i
      BY <1>1, <1>2, <3>2, <3>3
    <3>5. QED
      BY <3>4
  <2>2. QED
    BY <1>1, <2>1 DEF bus, Leads
<1>7. Distinct'
  BY <1>1, <1>2 DEF LeakInv, Distinct
<1>8. Reader'
  BY <1>1, <1>2, <1>3 DEF bus, c, LeakInv, Reader
<1>9. QED
  BY <1>4, <1>5, <1>6, <1>7, <1>8 DEF LeakInv

\* The new listener takes the place of one that has left the bus and is closed.
LEMMA RegisterLeak ==
  ASSUME LeakInv, Register
  PROVE  LeakInv'
<1> DEFINE s == arg.sub
<1>1. /\ rpc = "register" /\ seq' = seq + 1 /\ subs' = subs \cup {seq'}
      /\ filter' = [filter EXCEPT ![seq'] = arg.filter]
      /\ since' = [since EXCEPT ![seq'] = Len(log)]
      /\ chan' = [chan EXCEPT ![seq'] = "open"]
      /\ fwd' = [fwd EXCEPT ![seq'] = "run"]
      /\ table' = [table EXCEPT ![s] = seq']
      /\ rpc' = "loop" /\ arg' = NoArg
      /\ UNCHANGED <<log, todo, up, ch, received, lossy, panicked>>
  BY DEF Register
<1>2. Types
  BY DEF LeakInv
<1>3. /\ seq \in Nat /\ seq + 1 \in Ids /\ seq + 1 \in 0 .. MaxIds /\ s \in SubIDs
      /\ 1 .. seq \subseteq 1 .. seq + 1 /\ 0 .. seq \subseteq 0 .. seq + 1 /\ seq + 1 \in 1 .. seq + 1
      /\ table[s] = 0 \/ (table[s] \notin subs /\ chan[table[s]] = "closed")
      /\ \A r \in SubIDs : table[r] \in 0 .. seq
  <2>1. seq \in 0 .. MaxIds /\ seq < MaxIds /\ s \in SubIDs /\ table \in [SubIDs -> 0 .. seq]
    BY <1>1, <1>2 DEF LeakInv, Types, BusTypes, ConnTypes, Reader
  <2>2. table[s] = 0 \/ (table[s] \notin subs /\ chan[table[s]] = "closed")
    BY <1>1 DEF LeakInv, Reader
  <2>3. QED
    BY <2>1, <2>2, EventStreamAssumption DEF Ids
<1>4. BusTypes'
  <2>1. arg.filter \in SUBSET EventPaths
    BY <1>2 DEF Types, ConnTypes
  <2>2. QED
    BY <1>1, <1>2, <1>3, <2>1 DEF Types, BusTypes
<1>5. LogTypes'
  <2>1. (1 .. Len(log)) \X (1 .. seq) \subseteq (1 .. Len(log)) \X (1 .. seq + 1)
    BY <1>3
  <2>2. Len(log) \in 0 .. Len(log)
    BY <1>2 DEF Types, LogTypes
  <2>3. since' \in [Ids -> 0 .. Len(log)]
    BY <1>1, <1>2, <1>3, <2>2 DEF Types, LogTypes
  <2>4. todo \in [Emitters -> SUBSET ((1 .. Len(log)) \X (1 .. seq + 1))]
    <3> DEFINE old == (1 .. Len(log)) \X (1 .. seq)
               new == (1 .. Len(log)) \X (1 .. seq + 1)
    <3>1. todo \in [Emitters -> SUBSET old] /\ old \subseteq new
      BY <1>2, <2>1 DEF Types, LogTypes
    <3> HIDE DEF old, new
    <3>2. todo \in [Emitters -> SUBSET new]
      BY <3>1
    <3>3. QED
      BY <3>2 DEF new
  <2>5. QED
    BY <1>1, <1>2, <2>3, <2>4 DEF Types, LogTypes
<1>6. ConnTypes'
  BY <1>1, <1>2, <1>3, NoArgType DEF Types, ConnTypes
<1>7. ChanTypes'
  BY <1>1, <1>2, <1>3 DEF Types, ChanTypes
<1>8. Leads'
  <2>1. ASSUME NEW i \in Ids, i # seq + 1, i \in subs \/ chan[i] = "open"
        PROVE  \E r \in SubIDs : table'[r] = i
    <3>1. PICK r \in SubIDs : table[r] = i
      BY <2>1 DEF LeakInv, Leads
    <3>2. r # s
      BY <1>3, <2>1, <3>1, EventStreamAssumption DEF Ids
    <3>3. table'[r] = i
      BY <1>1, <1>2, <3>1, <3>2 DEF Types, ConnTypes
    <3>4. QED
      BY <3>3
  <2>2. table'[s] = seq + 1
    BY <1>1, <1>2, <1>3 DEF Types, ConnTypes
  <2>3. \A i \in Ids : i # seq + 1 => chan'[i] = chan[i]
    BY <1>1, <1>2 DEF Types, ChanTypes
  <2>4. QED
    BY <1>1, <1>3, <2>1, <2>2, <2>3 DEF Leads
<1>9. Distinct'
  <2>1. \A r \in SubIDs : table'[r] = (IF r = s THEN seq + 1 ELSE table[r]) /\ table[r] # seq + 1
    BY <1>1, <1>2, <1>3 DEF Types, ConnTypes
  <2>2. QED
    BY <2>1 DEF LeakInv, Distinct
<1>10. Fresh'
  BY <1>1, <1>2, <1>3 DEF LeakInv, Types, ChanTypes, Fresh, Ids
<1>11. Reader'
  <2>1. \A i \in subs : i # seq + 1 /\ i \in Ids
    BY <1>2, <1>3, EventStreamAssumption DEF Types, BusTypes, Ids
  <2>2. QED
    BY <1>1, <1>2, <1>3, <2>1 DEF LeakInv, Types, ChanTypes, Reader
<1>12. QED
  BY <1>4, <1>5, <1>6, <1>7, <1>8, <1>9, <1>10, <1>11 DEF LeakInv, Types

LEMMA NextLeakInv == LeakInv /\ [EventsNext]_eventsVars => LeakInv'
<1> SUFFICES ASSUME LeakInv, [EventsNext]_eventsVars PROVE LeakInv'
  OBVIOUS
<1>1. CASE UNCHANGED eventsVars
  <2>1. UNCHANGED <<subs, seq, filter, since, log, todo, table, rpc, arg, up, chan, ch, fwd, received,
                    lossy, panicked>>
    BY <1>1 DEF eventsVars, bus, conn, fvars
  <2>2. BusTypes' /\ LogTypes' /\ ConnTypes' /\ ChanTypes'
    BY <2>1 DEF LeakInv, Types, BusTypes, LogTypes, ConnTypes, ChanTypes
  <2>3. QED
    BY <2>1, <2>2, OthersKeep DEF LeakInv, Fresh
<1>2. CASE AnyStep
  <2>1. ASSUME NEW t \in Emitters, NEW p \in EventPaths, Emit(t, p) PROVE LeakInv'
    BY <2>1, EmitLeak
  <2>2. ASSUME NEW t \in Emitters, Call(t) PROVE LeakInv'
    BY <2>2, CallLeak
  <2>3. ASSUME NEW s \in SubIDs, NEW f \in Filters, Subscribe(s, f) PROVE LeakInv'
    BY <2>3, MessageLeak
  <2>4. ASSUME NEW s \in SubIDs, Unsubscribe(s) \/ Teardown(s) PROVE LeakInv'
    BY <2>4, MessageLeak
  <2>5. ASSUME NEW i \in Ids, FwdStep(i) PROVE LeakInv'
    BY <2>5, ForwardLeak
  <2>6. CASE ClearSubs \/ PeerGone \/ Disconnect \/ CloseConn
    BY <2>6, QuietLeak
  <2>7. CASE CloseChannel \/ Register
    BY <2>7, CloseLeak, RegisterLeak
  <2>8. QED
    BY <1>2, <2>1, <2>2, <2>3, <2>4, <2>5, <2>6, <2>7 DEF AnyStep, ReaderStep
<1>3. QED
  BY <1>1, <1>2 DEF EventsNext

\* However emits, subscribes, replacements, unsubscribes and the end of the connection
\* interleave, no listener stays on the bus and no channel stays open that the reader's
\* map does not lead to.
THEOREM NoLeaks == EventsSpec => []NothingLeaks
<1>1. QED
  BY LeakInvIsStronger, InitLeakInv, NextLeakInv, PTL DEF EventsSpec

-----------------------------------------------------------------------------
\* What a sequence of events holds after one more, and without the first.
LEMMA InAppend ==
  ASSUME NEW N \in Nat, NEW s \in Seq(1 .. N), NEW n \in 1 .. N
  PROVE  \A m : In(Append(s, n), m) <=> In(s, m) \/ m = n
<1>1. /\ Len(s) \in Nat /\ Len(Append(s, n)) = Len(s) + 1
      /\ \A k \in 1 .. Len(s) : Append(s, n)[k] = s[k]
      /\ Append(s, n)[Len(s) + 1] = n
  BY AppendProperties
<1>2. QED
  BY <1>1 DEF In

LEMMA InTail ==
  ASSUME NEW N \in Nat, NEW s \in Seq(1 .. N), s # <<>>
  PROVE  \A m : In(s, m) <=> In(Tail(s), m) \/ m = Head(s)
<1>1. /\ Len(s) \in Nat /\ Len(s) > 0 /\ Head(s) = s[1] /\ Len(Tail(s)) = Len(s) - 1
      /\ \A k \in 1 .. Len(s) - 1 : Tail(s)[k] = s[k + 1]
  BY TailFacts
<1>2. ASSUME NEW m, In(s, m), m # Head(s)
      PROVE  In(Tail(s), m)
  <2>1. PICK k \in 1 .. Len(s) : s[k] = m
    BY <1>2 DEF In
  <2>2. k - 1 \in 1 .. Len(s) - 1 /\ (k - 1) + 1 = k
    BY <1>1, <1>2, <2>1
  <2>3. Tail(s)[k - 1] = m
    BY <1>1, <2>1, <2>2
  <2>4. QED
    BY <1>1, <2>2, <2>3 DEF In
<1>3. ASSUME NEW m, In(Tail(s), m)
      PROVE  In(s, m)
  <2>1. PICK k \in 1 .. Len(s) - 1 : s[k + 1] = m
    BY <1>1, <1>3 DEF In
  <2>2. QED
    BY <1>1, <2>1 DEF In
<1>4. In(s, Head(s))
  BY <1>1 DEF In
<1>5. QED
  BY <1>2, <1>3, <1>4

LEMMA SortedAppend ==
  ASSUME NEW N \in Nat, NEW s \in Seq(1 .. N), NEW n \in 1 .. N, Sorted(s),
         \A m \in 1 .. N : In(s, m) /\ log[m].by = log[n].by => m < n
  PROVE  Sorted(Append(s, n))
<1>1. /\ Len(s) \in Nat /\ Len(Append(s, n)) = Len(s) + 1
      /\ \A k \in 1 .. Len(s) : Append(s, n)[k] = s[k] /\ s[k] \in 1 .. N /\ In(s, s[k])
      /\ Append(s, n)[Len(s) + 1] = n
  BY AppendProperties, ElementOfSeq DEF In
<1> DEFINE a == Append(s, n)
<1> HIDE DEF a
<1>2. ASSUME NEW j \in 1 .. Len(s) + 1, NEW k \in 1 .. Len(s) + 1, j < k, log[a[j]].by = log[a[k]].by
      PROVE  a[j] < a[k]
  <2>1. j \in 1 .. Len(s) /\ a[j] = s[j]
    BY <1>1, <1>2 DEF a
  <2>2. CASE k \in 1 .. Len(s)
    <3>1. a[k] = s[k]
      BY <1>1, <2>2 DEF a
    <3>2. QED
      BY <1>2, <2>1, <2>2, <3>1 DEF Sorted
  <2>3. CASE k = Len(s) + 1
    <3>1. a[k] = n
      BY <1>1, <2>3 DEF a
    <3>2. QED
      BY <1>1, <1>2, <2>1, <3>1
  <2>4. QED
    BY <1>1, <2>2, <2>3
<1>3. QED
  BY <1>1, <1>2 DEF Sorted, a

LEMMA SortedTail ==
  ASSUME NEW N \in Nat, NEW s \in Seq(1 .. N), s # <<>>, Sorted(s)
  PROVE  /\ Sorted(Tail(s))
         /\ \A m \in 1 .. N : In(Tail(s), m) /\ log[m].by = log[Head(s)].by => Head(s) < m
<1> DEFINE q == Tail(s)
<1>1. /\ Len(s) \in Nat /\ Len(s) > 0 /\ Head(s) = s[1] /\ Len(q) = Len(s) - 1
      /\ \A k \in 1 .. Len(s) - 1 : q[k] = s[k + 1]
  BY TailFacts
<1> HIDE DEF q
<1>2. \A k \in 1 .. Len(s) - 1 : k + 1 \in 1 .. Len(s) /\ 1 < k + 1
  BY <1>1
<1>3. Sorted(q)
  <2>1. ASSUME NEW j \in 1 .. Len(s) - 1, NEW k \in 1 .. Len(s) - 1, j < k, log[q[j]].by = log[q[k]].by
        PROVE  q[j] < q[k]
    <3>1. j + 1 < k + 1
      BY <1>1, <2>1
    <3>2. QED
      BY <1>1, <1>2, <2>1, <3>1 DEF Sorted
  <2>2. QED
    BY <1>1, <2>1 DEF Sorted
<1>4. ASSUME NEW m \in 1 .. N, In(q, m), log[m].by = log[Head(s)].by
      PROVE  Head(s) < m
  <2>1. PICK k \in 1 .. Len(s) - 1 : s[k + 1] = m
    BY <1>1, <1>4 DEF In
  <2>2. 1 \in 1 .. Len(s) /\ k + 1 \in 1 .. Len(s) /\ 1 < k + 1
    BY <1>1, <1>2, <2>1
  <2>3. log[s[1]].by = log[s[k + 1]].by => s[1] < s[k + 1]
    BY <2>2 DEF Sorted
  <2>4. QED
    BY <1>1, <1>4, <2>1, <2>3
<1>5. QED
  BY <1>3, <1>4 DEF q

-----------------------------------------------------------------------------
LEMMA FlowIsDelivery == FlowInv => Delivery
<1> SUFFICES ASSUME FlowInv PROVE Delivery
  OBVIOUS
<1>1. /\ received \in [Ids -> Seq(1 .. Len(log))] /\ Len(log) \in Nat /\ subs \subseteq Ids
      /\ since \in [Ids -> 0 .. Len(log)]
  BY EventStreamAssumption DEF FlowInv, LeakInv, Types, BusTypes, LogTypes, Ids
<1>2. \A i \in Ids : DOMAIN received[i] = 1 .. Len(received[i])
  BY <1>1
<1>3. InOrder
  BY <1>2 DEF FlowInv, Ordered, Sorted, InOrder
<1>4. ASSUME NEW i \in subs, up, Settled(i)
      PROVE  LET got == { received[i][n] : n \in DOMAIN received[i] }
                 due == { n \in since[i] + 1 .. Len(log) : log[n].path \in filter[i] }
             IN got \subseteq due /\ (i \notin lossy => got = due)
  <2> DEFINE got == { received[i][n] : n \in DOMAIN received[i] }
             due == { n \in since[i] + 1 .. Len(log) : log[n].path \in filter[i] }
  <2>1. i \in Ids /\ since[i] \in Nat /\ received[i] \in Seq(1 .. Len(log))
    BY <1>1
  <2>2. \A n : n \in got <=> In(received[i], n)
    BY <1>2, <2>1 DEF In
  <2>3. \A n : In(received[i], n) => n \in 1 .. Len(log)
    BY <2>1, ElementOfSeq DEF In
  <2>4. \A n : n \in due <=> n \in 1 .. Len(log) /\ Wanted(i, n)
    BY <1>1, <2>1 DEF Wanted
  <2>5. \A n : ~In(ch[i], n) /\ \A t \in Emitters : <<n, i>> \notin todo[t]
    BY <1>4 DEF Settled, In
  <2> HIDE DEF got, due
  <2>6. got \subseteq due
    BY <2>1, <2>2, <2>3, <2>4 DEF FlowInv, OnlyDue
  <2>7. i \notin lossy => due \subseteq got
    BY <1>4, <2>2, <2>4, <2>5 DEF FlowInv, AllDue
  <2>8. QED
    BY <2>6, <2>7 DEF got, due
<1>5. QED
  BY <1>3, <1>4 DEF Delivery, GetsItsEvents

LEMMA InitFlowInv == EventsInit => FlowInv
<1> SUFFICES ASSUME EventsInit PROVE FlowInv
  OBVIOUS
<1>1. /\ \A i \in Ids : ch[i] = <<>> /\ received[i] = <<>>
      /\ \A t \in Emitters : todo[t] = {}
      /\ subs = {} /\ \A n : ~In(<<>>, n)
  BY DEF EventsInit, In
<1>2. \A i \in Ids : Sorted(ch[i]) /\ Sorted(received[i])
  BY <1>1 DEF Sorted
<1>3. QED
  BY <1>1, <1>2, InitLeakInv DEF FlowInv, OneEvent, Ordered, OnlyDue, AllDue

\* AnyStep that move no event and register no listener.
LEMMA StillFlows ==
  ASSUME FlowInv, LeakInv', UNCHANGED <<log, todo, ch, received, since, filter, lossy>>,
         subs' \subseteq subs, up' => up
  PROVE  FlowInv'
<1>1. OneEvent' /\ OnlyDue'
  BY DEF FlowInv, OneEvent, OnlyDue, In, Wanted
<1>2. Ordered'
  BY DEF FlowInv, Ordered, In, Sorted
<1>3. AllDue'
  BY DEF FlowInv, AllDue, In, Wanted
<1>4. QED
  BY <1>1, <1>2, <1>3 DEF FlowInv

\* A new listener has no events yet, and is owed those that come.
LEMMA RegisterFlows ==
  ASSUME FlowInv, Register
  PROVE  FlowInv'
<1>1. LeakInv'
  BY RegisterLeak DEF FlowInv
<1>2. /\ UNCHANGED <<log, todo, ch, received, lossy, up>> /\ subs' = subs \cup {seq + 1}
      /\ filter' = [filter EXCEPT ![seq + 1] = arg.filter]
      /\ since' = [since EXCEPT ![seq + 1] = Len(log)]
  BY DEF Register
<1>3. /\ seq \in Nat /\ Len(log) \in Nat /\ since \in [Ids -> 0 .. Len(log)] /\ filter \in [Ids -> SUBSET EventPaths]
      /\ todo \in [Emitters -> SUBSET ((1 .. Len(log)) \X (1 .. seq))] /\ subs \subseteq 1 .. seq
      /\ seq + 1 \in Ids => ch[seq + 1] = <<>> /\ received[seq + 1] = <<>>
  BY DEF FlowInv, LeakInv, Types, BusTypes, LogTypes, Fresh
<1>4. seq + 1 \in Ids
  BY <1>1, <1>3, EventStreamAssumption DEF LeakInv, Types, BusTypes, Register, Ids
<1>5. \A i \in Ids : i # seq + 1 => since'[i] = since[i] /\ filter'[i] = filter[i]
  BY <1>2, <1>3
<1>6. since'[seq + 1] = Len(log)
  BY <1>2, <1>3, <1>4
<1>7. \A n : ~In(ch[seq + 1], n) /\ ~In(received[seq + 1], n)
  BY <1>3, <1>4 DEF In
<1>8. \A t \in Emitters : \A n : <<n, seq + 1>> \notin todo[t]
  BY <1>3
<1>9. OneEvent'
  BY <1>2 DEF FlowInv, OneEvent
<1>10. Ordered'
  BY <1>2 DEF FlowInv, Ordered, In, Sorted
<1>11. OnlyDue'
  <2>1. \A i \in Ids, n \in 1 .. Len(log) : In(received[i], n) \/ In(ch[i], n) => Wanted(i, n)'
    BY <1>2, <1>5, <1>7 DEF FlowInv, OnlyDue, Wanted
  <2>2. \A t \in Emitters : \A i \in Ids, n \in 1 .. Len(log) : <<n, i>> \in todo[t] => since'[i] < n
    BY <1>5, <1>8 DEF FlowInv, OnlyDue
  <2>3. QED
    BY <1>2, <2>1, <2>2 DEF OnlyDue, In
<1>12. AllDue'
  <2>1. ASSUME NEW i \in subs', (up /\ i \notin lossy)', NEW n \in 1 .. Len(log), Wanted(i, n)'
        PROVE  In(received[i], n) \/ In(ch[i], n) \/ \E t \in Emitters : <<n, i>> \in todo[t]
    <3>1. i # seq + 1
      BY <1>2, <1>3, <1>6, <2>1 DEF Wanted
    <3>2. i \in subs /\ i \in Ids
      BY <1>2, <1>3, <1>4, <2>1, <3>1, EventStreamAssumption DEF Ids
    <3>3. Wanted(i, n)
      BY <1>2, <1>5, <2>1, <3>1, <3>2 DEF Wanted
    <3>4. QED
      BY <1>2, <2>1, <3>2, <3>3 DEF FlowInv, AllDue
  <2>2. QED
    BY <1>2, <2>1 DEF AllDue, In
<1>13. QED
  BY <1>1, <1>9, <1>10, <1>11, <1>12 DEF FlowInv

-----------------------------------------------------------------------------
\* The events of a sequence have been emitted.
LEMMA InIsEvent ==
  ASSUME NEW N \in Nat, NEW s \in Seq(1 .. N), NEW n, In(s, n)
  PROVE  n \in 1 .. N
  BY ElementOfSeq DEF In

\* A new event is later than all that are on their way, and owed to the listeners that
\* are registered.
LEMMA EmitFlows ==
  ASSUME FlowInv, NEW t \in Emitters, NEW p \in EventPaths, Emit(t, p)
  PROVE  FlowInv'
<1> DEFINE N == Len(log)
<1>1. LeakInv'
  BY EmitLeak DEF FlowInv
<1>2. /\ log \in Seq([path : EventPaths, by : Emitters]) /\ N \in Nat
      /\ todo \in [Emitters -> SUBSET ((1 .. N) \X (1 .. seq))]
      /\ since \in [Ids -> 0 .. N]
      /\ ch \in [Ids -> Seq(1 .. N)] /\ received \in [Ids -> Seq(1 .. N)]
      /\ subs \subseteq Ids
  BY EventStreamAssumption DEF FlowInv, LeakInv, Types, LogTypes, BusTypes, Ids
<1>3. /\ todo[t] = {} /\ log' = Append(log, [path |-> p, by |-> t])
      /\ todo' = [todo EXCEPT ![t] = {Len(log')} \X subs]
      /\ UNCHANGED <<ch, received, since, filter, lossy, subs, up>>
  BY DEF Emit, bus, conn, fvars
<1>4. Len(log') = N + 1 /\ (\A n \in 1 .. N : log'[n] = log[n]) /\ log'[N + 1].by = t
  BY <1>2, <1>3, AppendProperties
<1>5. /\ \A u \in Emitters : \A n, i : u # t => (<<n, i>> \in todo'[u] <=> <<n, i>> \in todo[u])
      /\ \A n : \A i : <<n, i>> \in todo'[t] <=> n = N + 1 /\ i \in subs
  BY <1>2, <1>3, <1>4
<1>6. \A i \in Ids : \A n : In(received[i], n) \/ In(ch[i], n) => n \in 1 .. N
  BY <1>2, InIsEvent
<1>7. \A u \in Emitters : \A d \in todo[u] : d[1] \in 1 .. N
  BY <1>2
<1> HIDE DEF N
<1>8. OneEvent'
  <2>1. \A d \in todo'[t] : d[1] = N + 1
    BY <1>2, <1>3, <1>4
  <2>2. \A u \in Emitters : u # t => todo'[u] = todo[u]
    BY <1>2, <1>3
  <2>3. QED
    BY <1>4, <1>7, <2>1, <2>2 DEF FlowInv, OneEvent
<1>9. \A i \in Ids : Sorted(received[i])' /\ Sorted(ch[i])'
  <2>1. ASSUME NEW s \in Seq(1 .. N), Sorted(s), NEW j \in 1 .. Len(s), NEW k \in 1 .. Len(s),
               j < k, log'[s[j]].by = log'[s[k]].by
        PROVE  s[j] < s[k]
    <3>1. s[j] \in 1 .. N /\ s[k] \in 1 .. N
      BY <2>1, ElementOfSeq
    <3>2. log[s[j]].by = log[s[k]].by
      BY <1>4, <2>1, <3>1
    <3>3. QED
      BY <2>1, <3>2 DEF Sorted
  <2>2. \A i \in Ids : Sorted(received[i]) /\ Sorted(ch[i])
    BY DEF FlowInv, Ordered
  <2>3. QED
    BY <1>2, <1>3, <2>1, <2>2 DEF Sorted
<1>10. Ordered'
  <2>1. ASSUME NEW i \in Ids, NEW m, NEW n, In(received[i], m), In(ch[i], n), log'[m].by = log'[n].by
        PROVE  m < n
    <3>1. m \in 1 .. N /\ n \in 1 .. N
      BY <1>6, <2>1
    <3>2. QED
      BY <1>4, <2>1, <3>1 DEF FlowInv, Ordered, N
  <2>2. ASSUME NEW i \in Ids, NEW u \in Emitters, NEW n \in 1 .. N + 1, <<n, i>> \in todo'[u],
               NEW m, In(received[i], m) \/ In(ch[i], m), log'[m].by = u
        PROVE  m < n
    <3>1. m \in 1 .. N
      BY <1>6, <2>2
    <3>2. CASE u = t
      BY <1>2, <1>5, <2>2, <3>1, <3>2
    <3>3. CASE u # t
      <4>1. <<n, i>> \in todo[u] /\ n \in 1 .. N
        BY <1>2, <1>5, <2>2, <3>3
      <4>2. QED
        BY <1>4, <2>2, <3>1, <4>1 DEF FlowInv, Ordered, N
    <3>4. QED
      BY <3>2, <3>3
  <2>3. \A i \in Ids : \A m : (In(received[i], m)' <=> In(received[i], m)) /\ (In(ch[i], m)' <=> In(ch[i], m))
    BY <1>3 DEF In
  <2>4. QED
    BY <1>4, <1>9, <2>1, <2>2, <2>3 DEF Ordered
<1>11. \A i \in Ids, n \in 1 .. N : Wanted(i, n)' <=> Wanted(i, n)
  BY <1>3, <1>4 DEF Wanted
<1>12. OnlyDue'
  <2>1. \A i \in Ids : \A n : In(received[i], n) \/ In(ch[i], n) => Wanted(i, n)'
    BY <1>6, <1>11 DEF FlowInv, OnlyDue, N
  <2>2. ASSUME NEW u \in Emitters, NEW i \in Ids, NEW n \in 1 .. N + 1, <<n, i>> \in todo'[u]
        PROVE  since[i] < n
    <3>1. CASE u = t
      BY <1>2, <1>5, <2>2, <3>1
    <3>2. CASE u # t
      <4>1. <<n, i>> \in todo[u] /\ n \in 1 .. N
        BY <1>2, <1>5, <2>2, <3>2
      <4>2. QED
        BY <2>2, <4>1 DEF FlowInv, OnlyDue, N
    <3>3. QED
      BY <3>1, <3>2
  <2>3. QED
    BY <1>3, <1>4, <2>1, <2>2 DEF OnlyDue, In
<1>13. AllDue'
  <2>1. ASSUME NEW i \in subs, up, i \notin lossy, NEW n \in 1 .. N + 1, Wanted(i, n)'
        PROVE  In(received[i], n) \/ In(ch[i], n) \/ \E u \in Emitters : <<n, i>> \in todo'[u]
    <3>1. CASE n = N + 1
      BY <1>5, <2>1, <3>1
    <3>2. CASE n \in 1 .. N
      <4>1. Wanted(i, n)
        BY <1>2, <1>11, <2>1, <3>2
      <4>2. In(received[i], n) \/ In(ch[i], n) \/ \E u \in Emitters : <<n, i>> \in todo[u]
        BY <2>1, <3>2, <4>1 DEF FlowInv, AllDue, N
      <4>3. \A u \in Emitters : <<n, i>> \in todo[u] => u # t
        BY <1>3
      <4>4. QED
        BY <1>5, <4>2, <4>3
    <3>3. n = N + 1 \/ n \in 1 .. N
      <4>1. N \in Nat
        BY <1>2
      <4>2. QED
        BY <4>1
    <3>4. QED
      BY <3>1, <3>2, <3>3
  <2>2. QED
    BY <1>3, <1>4, <2>1 DEF AllDue, In
<1>14. QED
  BY <1>1, <1>8, <1>10, <1>12, <1>13 DEF FlowInv

\* A call of a listener puts the event in its channel, after those of its goroutine, or
\* finds the channel full, closed, or not interested.
LEMMA CallFlows ==
  ASSUME FlowInv, NEW t \in Emitters, Call(t)
  PROVE  FlowInv'
<1> DEFINE N == Len(log)
<1>1. LeakInv'
  BY CallLeak DEF FlowInv
<1>2. /\ N \in Nat /\ todo \in [Emitters -> SUBSET ((1 .. N) \X (1 .. seq))]
      /\ ch \in [Ids -> Seq(1 .. N)] /\ received \in [Ids -> Seq(1 .. N)] /\ seq \in 0 .. MaxIds
      /\ subs \subseteq Ids /\ \A i \in subs : chan[i] = "open"
  BY EventStreamAssumption DEF FlowInv, LeakInv, Types, LogTypes, BusTypes, Reader, Ids
<1>3. UNCHANGED <<log, received, since, filter, subs, up>>
  BY DEF Call, bus, conn, fvars
<1>4. PICK e \in todo[t] : Skip(t, e[1], e[2]) \/ Send(t, e[1], e[2])
  BY DEF Call
<1> DEFINE n == e[1]
           i == e[2]
<1>5. /\ n \in 1 .. N /\ i \in Ids /\ <<n, i>> \in todo[t] /\ log[n].by = t
      /\ \A m, j : <<m, j>> \in todo[t] => m = n
  <2>1. e \in (1 .. N) \X (1 .. seq)
    BY <1>2, <1>4
  <2>2. n \in 1 .. N /\ i \in Ids /\ e = <<n, i>>
    BY <1>2, <2>1, EventStreamAssumption DEF Ids
  <2>3. QED
    BY <1>4, <2>2 DEF FlowInv, OneEvent
<1>6. Skip(t, n, i) \/ Send(t, n, i)
  BY <1>4
<1> HIDE DEF n, i, N
<1>7. /\ \A u \in Emitters : todo'[u] \subseteq todo[u]
      /\ \A u \in Emitters : \A m, j : <<m, j>> \in todo[u] /\ (m # n \/ j # i) => <<m, j>> \in todo'[u]
  <2>1. todo' = [todo EXCEPT ![t] = @ \ {<<n, i>>}]
    BY <1>6 DEF Skip, Send
  <2>2. QED
    BY <1>2, <2>1
<1>8. OneEvent'
  BY <1>3, <1>7 DEF FlowInv, OneEvent
<1>9. /\ \A u \in Emitters : \A j \in Ids, m \in 1 .. N : <<m, j>> \in todo'[u] => since[j] < m
      /\ \A j \in Ids, m \in 1 .. N : Wanted(j, m)' <=> Wanted(j, m)
  BY <1>3, <1>7 DEF FlowInv, OnlyDue, Wanted, N
<1>10. CASE ch' = ch /\ (i \notin subs \/ log[n].path \notin filter[i] \/ i \in lossy') /\ lossy \subseteq lossy'
  <2>1. OnlyDue'
    <3>1. \A j \in Ids, m \in 1 .. N : In(received[j], m) \/ In(ch[j], m) => Wanted(j, m)'
      BY <1>9 DEF FlowInv, OnlyDue, N
    <3>2. QED
      BY <1>3, <1>9, <1>10, <3>1 DEF OnlyDue, In, N
  <2>2. Ordered'
    <3>1. log' = log /\ ch' = ch /\ received' = received
      BY <1>3, <1>10
    <3>2. \A j \in Ids : Sorted(received[j])' /\ Sorted(ch[j])'
      BY <3>1 DEF FlowInv, Ordered, Sorted
    <3>3. \A j \in Ids : \A m : (In(received[j], m)' <=> In(received[j], m)) /\ (In(ch[j], m)' <=> In(ch[j], m))
      BY <3>1 DEF In
    <3>4. QED
      BY <1>7, <3>1, <3>2, <3>3 DEF FlowInv, Ordered
  <2>3. AllDue'
    <3>1. ASSUME NEW j \in subs, up, j \notin lossy', NEW m \in 1 .. N, Wanted(j, m)
          PROVE  In(received[j], m) \/ In(ch[j], m) \/ \E u \in Emitters : <<m, j>> \in todo'[u]
      <4>1. m # n \/ j # i
        BY <1>10, <3>1 DEF Wanted
      <4>2. In(received[j], m) \/ In(ch[j], m) \/ \E u \in Emitters : <<m, j>> \in todo[u]
        BY <1>10, <3>1 DEF FlowInv, AllDue, N
      <4>3. QED
        BY <1>7, <4>1, <4>2
    <3>2. QED
      BY <1>2, <1>3, <1>9, <1>10, <3>1 DEF AllDue, In, N
  <2>4. QED
    BY <1>1, <1>8, <2>1, <2>2, <2>3 DEF FlowInv
<1>11. CASE /\ log[n].path \in filter[i] /\ ch' = [ch EXCEPT ![i] = Append(@, n)] /\ lossy' = lossy
            /\ todo' = [todo EXCEPT ![t] = @ \ {<<n, i>>}]
  <2>1. /\ ch[i] \in Seq(1 .. N) /\ ch'[i] = Append(ch[i], n)
        /\ \A j \in Ids : j # i => ch'[j] = ch[j]
    BY <1>2, <1>5, <1>11
  <2>2. \A m : In(ch'[i], m) <=> In(ch[i], m) \/ m = n
    <3>1. \A m : In(Append(ch[i], n), m) <=> In(ch[i], m) \/ m = n
      BY <1>2, <1>5, <2>1, InAppend
    <3>2. QED
      BY <2>1, <3>1
  <2>3. \A m \in 1 .. N : (In(received[i], m) \/ In(ch[i], m)) /\ log[m].by = log[n].by => m < n
    BY <1>5 DEF FlowInv, Ordered, N
  <2>4. Sorted(Append(ch[i], n))
    <3>1. Sorted(ch[i])
      BY <1>5 DEF FlowInv, Ordered
    <3>2. QED
      BY <1>2, <1>5, <2>1, <2>3, <3>1, SortedAppend
  <2>5. Ordered'
    <3>1. \A j \in Ids : Sorted(received[j])' /\ Sorted(ch[j])'
      BY <1>3, <2>1, <2>4 DEF FlowInv, Ordered, Sorted
    <3>2. ASSUME NEW j \in Ids, NEW m \in 1 .. N, NEW k \in 1 .. N,
                 In(received[j], m), In(ch'[j], k), log[m].by = log[k].by
          PROVE  m < k
      BY <1>5, <2>1, <2>2, <2>3, <3>2 DEF FlowInv, Ordered, N
    <3>3. ASSUME NEW j \in Ids, NEW u \in Emitters, NEW k \in 1 .. N, <<k, j>> \in todo'[u],
                 NEW m \in 1 .. N, In(received[j], m) \/ In(ch'[j], m), log[m].by = u
          PROVE  m < k
      <4>1. <<k, j>> \in todo[u]
        BY <1>7, <3>3
      <4>2. CASE In(received[j], m) \/ In(ch[j], m)
        BY <3>3, <4>1, <4>2 DEF FlowInv, Ordered, N
      <4>3. CASE j = i /\ m = n
        <5>1. u = t /\ k = n
          BY <1>5, <3>3, <4>1, <4>3
        <5>2. <<n, i>> \notin todo'[t]
          BY <1>2, <1>11
        <5>3. QED
          BY <3>3, <4>3, <5>1, <5>2
      <4>4. QED
        BY <2>1, <2>2, <3>3, <4>2, <4>3
    <3>4. QED
      BY <1>3, <3>1, <3>2, <3>3 DEF Ordered, In, N
  <2>6. OnlyDue'
    <3>1. Wanted(i, n)
      BY <1>5, <1>11 DEF FlowInv, OnlyDue, Wanted, N
    <3>2. \A j \in Ids, m \in 1 .. N : In(received[j], m) \/ In(ch'[j], m) => Wanted(j, m)
      BY <2>1, <2>2, <3>1 DEF FlowInv, OnlyDue, N
    <3>3. QED
      BY <1>3, <1>9, <3>2 DEF OnlyDue, In, N
  <2>7. AllDue'
    <3>1. ASSUME NEW j \in subs, up, j \notin lossy, NEW m \in 1 .. N, Wanted(j, m)
          PROVE  In(received[j], m) \/ In(ch'[j], m) \/ \E u \in Emitters : <<m, j>> \in todo'[u]
      <4>1. In(received[j], m) \/ In(ch[j], m) \/ \E u \in Emitters : <<m, j>> \in todo[u]
        BY <3>1 DEF FlowInv, AllDue, N
      <4>2. CASE m = n /\ j = i
        BY <2>2, <4>2
      <4>3. CASE m # n \/ j # i
        BY <1>2, <1>7, <2>1, <2>2, <4>1, <4>3
      <4>4. QED
        BY <4>2, <4>3
    <3>2. QED
      BY <1>2, <1>3, <1>9, <1>11, <3>1 DEF AllDue, In, N
  <2>8. QED
    BY <1>1, <1>8, <2>5, <2>6, <2>7 DEF FlowInv
<1>12. QED
  BY <1>2, <1>5, <1>6, <1>10, <1>11 DEF Skip, Send

\* The first of a channel's events is received, or lost with the connection.
LEMMA ForwardFlows ==
  ASSUME FlowInv, NEW i \in Ids, Forward(i)
  PROVE  FlowInv'
<1> DEFINE N == Len(log)
           n == Head(ch[i])
<1>1. LeakInv'
  BY ForwardLeak DEF FlowInv, FwdStep
<1>2. /\ N \in Nat /\ ch \in [Ids -> Seq(1 .. N)] /\ received \in [Ids -> Seq(1 .. N)] /\ subs \subseteq Ids
  BY EventStreamAssumption DEF FlowInv, LeakInv, Types, LogTypes, BusTypes, Ids
<1>3. /\ UNCHANGED <<log, todo, since, filter, subs, up, lossy>>
      /\ ch' = [ch EXCEPT ![i] = Tail(@)] /\ ch[i] # <<>>
      /\ received' = IF up THEN [received EXCEPT ![i] = Append(@, n)] ELSE received
  BY DEF Forward, bus, conn
<1>4. ch[i] \in Seq(1 .. N) /\ received[i] \in Seq(1 .. N)
  BY <1>2
<1>5. n \in 1 .. N
  BY <1>3, <1>4, TailFacts
<1>6. /\ ch'[i] = Tail(ch[i]) /\ \A j \in Ids : j # i => ch'[j] = ch[j] /\ received'[j] = received[j]
      /\ up => received'[i] = Append(received[i], n)
      /\ ~up => received'[i] = received[i]
  BY <1>2, <1>3
<1> HIDE DEF N, n
<1>7. \A m : In(ch[i], m) <=> In(ch'[i], m) \/ m = n
  BY <1>2, <1>3, <1>4, <1>6, InTail DEF n
<1>8. \A m : In(received'[i], m) <=> In(received[i], m) \/ (up /\ m = n)
  <2>1. \A m : In(Append(received[i], n), m) <=> In(received[i], m) \/ m = n
    BY <1>2, <1>4, <1>5, InAppend
  <2>2. QED
    BY <1>6, <2>1
<1>9. /\ Sorted(Tail(ch[i]))
      /\ \A m \in 1 .. N : In(ch'[i], m) /\ log[m].by = log[n].by => n < m
  <2>1. Sorted(ch[i])
    BY DEF FlowInv, Ordered
  <2>2. QED
    BY <1>2, <1>3, <1>4, <1>6, <2>1, SortedTail DEF n
<1>10. Sorted(Append(received[i], n))
  <2>1. Sorted(received[i])
    BY DEF FlowInv, Ordered
  <2>2. \A m \in 1 .. N : In(received[i], m) /\ log[m].by = log[n].by => m < n
    BY <1>5, <1>7 DEF FlowInv, Ordered, N
  <2>3. QED
    BY <1>2, <1>4, <1>5, <2>1, <2>2, SortedAppend
<1>11. OneEvent'
  BY <1>3 DEF FlowInv, OneEvent
<1>12. Ordered'
  <2>1. \A j \in Ids : Sorted(received[j])' /\ Sorted(ch[j])'
    <3>1. \A j \in Ids : Sorted(received'[j]) /\ Sorted(ch'[j])
      <4>1. \A j \in Ids : Sorted(received[j]) /\ Sorted(ch[j])
        BY DEF FlowInv, Ordered
      <4>2. Sorted(received'[i]) /\ Sorted(ch'[i])
        BY <1>6, <1>9, <1>10, <4>1
      <4>3. ASSUME NEW j \in Ids, j # i PROVE Sorted(received'[j]) /\ Sorted(ch'[j])
        BY <1>6, <4>1, <4>3
      <4>4. QED
        BY <4>2, <4>3
    <3>2. log' = log
      BY <1>3
    <3>3. QED
      BY <3>1, <3>2 DEF Sorted
  <2>2. ASSUME NEW j \in Ids, NEW m \in 1 .. N, NEW k \in 1 .. N,
               In(received'[j], m), In(ch'[j], k), log[m].by = log[k].by
        PROVE  m < k
    BY <1>6, <1>7, <1>8, <1>9, <2>2 DEF FlowInv, Ordered, N
  <2>3. ASSUME NEW j \in Ids, NEW u \in Emitters, NEW k \in 1 .. N, <<k, j>> \in todo[u],
               NEW m \in 1 .. N, In(received'[j], m) \/ In(ch'[j], m), log[m].by = u
        PROVE  m < k
    <3>1. In(received[j], m) \/ In(ch[j], m)
      BY <1>6, <1>7, <1>8, <2>3
    <3>2. QED
      BY <2>3, <3>1 DEF FlowInv, Ordered, N
  <2>4. QED
    BY <1>3, <2>1, <2>2, <2>3 DEF Ordered, In, N
<1>13. OnlyDue'
  <2>1. \A j \in Ids, m \in 1 .. N : In(received'[j], m) \/ In(ch'[j], m) => Wanted(j, m)
    BY <1>6, <1>7, <1>8 DEF FlowInv, OnlyDue, N
  <2>2. QED
    BY <1>3, <2>1 DEF FlowInv, OnlyDue, In, Wanted, N
<1>14. AllDue'
  <2>1. ASSUME NEW j \in subs, up, j \notin lossy, NEW m \in 1 .. N, Wanted(j, m)
        PROVE  In(received'[j], m) \/ In(ch'[j], m) \/ \E u \in Emitters : <<m, j>> \in todo[u]
    <3>1. In(received[j], m) \/ In(ch[j], m) \/ \E u \in Emitters : <<m, j>> \in todo[u]
      BY <2>1 DEF FlowInv, AllDue, N
    <3>2. QED
      BY <1>2, <1>6, <1>7, <1>8, <2>1, <3>1
  <2>2. QED
    BY <1>3, <2>1 DEF AllDue, In, Wanted, N
<1>15. QED
  BY <1>1, <1>11, <1>12, <1>13, <1>14 DEF FlowInv

LEMMA NextFlowInv == FlowInv /\ [EventsNext]_eventsVars => FlowInv'
<1> SUFFICES ASSUME FlowInv, [EventsNext]_eventsVars PROVE FlowInv'
  OBVIOUS
<1>1. LeakInv'
  BY NextLeakInv DEF FlowInv
<1>2. CASE UNCHANGED eventsVars
  BY <1>1, <1>2, StillFlows DEF eventsVars, bus, conn, fvars
<1>3. CASE AnyStep
  <2>1. ASSUME NEW t \in Emitters, NEW p \in EventPaths, Emit(t, p) PROVE FlowInv'
    BY <2>1, EmitFlows
  <2>2. ASSUME NEW t \in Emitters, Call(t) PROVE FlowInv'
    BY <2>2, CallFlows
  <2>3. ASSUME NEW i \in Ids, Forward(i) PROVE FlowInv'
    BY <2>3, ForwardFlows
  <2>4. CASE Register
    BY <2>4, RegisterFlows
  <2>5. ASSUME NEW s \in SubIDs, NEW f \in Filters, Subscribe(s, f) PROVE FlowInv'
    BY <1>1, <2>5, StillFlows DEF Subscribe, Unsub, fvars
  <2>6. ASSUME NEW s \in SubIDs, Unsubscribe(s) \/ Teardown(s) PROVE FlowInv'
    BY <1>1, <2>6, StillFlows DEF Unsubscribe, Teardown, Unsub, fvars
  <2>7. ASSUME NEW i \in Ids, FwdEnds(i) PROVE FlowInv'
    BY <1>1, <2>7, StillFlows DEF FwdEnds, bus, conn
  <2>8. CASE CloseChannel \/ ClearSubs \/ PeerGone \/ Disconnect \/ CloseConn
    BY <1>1, <2>8, StillFlows DEF CloseChannel, ClearSubs, PeerGone, Disconnect, CloseConn, bus, conn, fvars
  <2>9. QED
    BY <1>3, <2>1, <2>2, <2>3, <2>4, <2>5, <2>6, <2>7, <2>8 DEF AnyStep, ReaderStep, FwdStep
<1>4. QED
  BY <1>2, <1>3 DEF EventsNext

\* A subscription gets the events of each goroutine in the order they were emitted, none
\* twice and only those under its prefix since it was registered; and once they are
\* delivered all of those, if its channel was never full.
THEOREM EventsAreDelivered == EventsSpec => []Delivery
<1>1. QED
  BY FlowIsDelivery, InitFlowInv, NextFlowInv, PTL DEF EventsSpec

-----------------------------------------------------------------------------
\* What Mount, Unmount and Rename make of a tree: the entries of other paths stay, and
\* so do the nodes.
LEMMA MountFacts ==
  ASSUME NEW t \in Trees, NEW p \in Paths, NEW e \in Entry
  PROVE  /\ Mount(t, p, e) \in Trees /\ t.nodes \subseteq Mount(t, p, e).nodes
         /\ Mount(t, p, e).mount = [t.mount EXCEPT ![p] = e] /\ Mounted(Mount(t, p, e), p)
  BY PathsAssumption DEF Mount, Trees, Mounted

LEMMA UnmountFacts ==
  ASSUME NEW t \in Trees, NEW p \in Paths
  PROVE  /\ Unmount(t, p) \in Trees /\ Unmount(t, p).nodes = t.nodes
         /\ Unmount(t, p).mount = [t.mount EXCEPT ![p] = None] /\ ~Mounted(Unmount(t, p), p)
  BY DEF Unmount, Trees, Mounted

LEMMA RenameFacts ==
  ASSUME NEW t \in Trees, NEW p \in Paths, NEW q \in Paths, Mounted(t, p)
  PROVE  /\ Rename(t, p, q) \in Trees /\ t.nodes \subseteq Rename(t, p, q).nodes
         /\ \A r \in Paths \ {p, q} : Rename(t, p, q).mount[r] = t.mount[r]
<1>1. t.mount[p] \in Entry
  BY DEF Trees, Mounted
<1> DEFINE u == Unmount(t, p)
<1>2. u \in Trees /\ u.nodes = t.nodes /\ u.mount = [t.mount EXCEPT ![p] = None]
  BY UnmountFacts
<1>3. /\ Mount(u, q, t.mount[p]) \in Trees /\ u.nodes \subseteq Mount(u, q, t.mount[p]).nodes
      /\ Mount(u, q, t.mount[p]).mount = [u.mount EXCEPT ![q] = t.mount[p]]
  BY <1>1, <1>2, MountFacts
<1>4. QED
  BY <1>1, <1>2, <1>3 DEF Rename, Trees

\* A Stat that found something finds the same as long as the path's own mount stays.
LEMMA StatKept ==
  ASSUME NEW t \in Trees, NEW u \in Trees, NEW p \in Paths, t.nodes \subseteq u.nodes,
         u.mount[p] = t.mount[p], Stat(t, p).err = None
  PROVE  Stat(u, p) = Stat(t, p)
<1>1. Found(t, p)
  BY PathsAssumption DEF Stat, Answer, Errors
<1>2. Found(u, p)
  BY <1>1 DEF Found, Mounted, Children
<1>3. QED
  BY <1>1, <1>2 DEF Stat, Mounted

\* A mounted path is of its entry's kind.
LEMMA StatMounted ==
  ASSUME NEW t \in Trees, NEW p \in Paths, Mounted(t, p)
  PROVE  Stat(t, p) = Answer(None, t.mount[p]) /\ t.mount[p] \in Entry /\ Found(t, p)
  BY DEF Stat, Found, Mounted, Trees

\* The kind that Stat tells is one.
LEMMA StatKind ==
  ASSUME NEW t \in Trees, NEW p \in Paths
  PROVE  Stat(t, p).value \in Entry /\ Stat(t, p).err \in {None, "ENOENT"}
  BY DEF Stat, Answer, NoEntry, IntermediateDir, Entry, Kinds, Trees, Mounted

\* Above is reflexive and transitive, and the paths above a path are its beginnings.
LEMMA AboveRefl ==
  ASSUME NEW p \in Paths PROVE Above(p, p)
<1>1. p \in Seq(STRING)
  BY PathsAssumption
<1>2. SubSeq(p, 1, Len(p)) = p /\ Len(p) \in Nat
  BY <1>1
<1>3. QED
  BY <1>2 DEF Above

\* Above, name by name.
LEMMA AboveEach ==
  ASSUME NEW p \in Paths, NEW q \in Paths
  PROVE  Above(p, q) <=> Len(p) <= Len(q) /\ \A i \in 1 .. Len(p) : q[i] = p[i]
<1>1. p \in Seq(STRING) /\ q \in Seq(STRING) /\ Len(p) \in Nat /\ Len(q) \in Nat
  BY PathsAssumption
<1>2. CASE Len(p) <= Len(q)
  <2> DEFINE s == SubSeq(q, 1, Len(p))
  <2>1. s \in Seq(STRING) /\ Len(s) = Len(p) /\ \A i \in 1 .. Len(p) : s[i] = q[i]
    BY <1>1, <1>2
  <2> HIDE DEF s
  <2>2. s = p <=> \A i \in 1 .. Len(p) : s[i] = p[i]
    BY <1>1, <2>1, SeqEqual
  <2>3. QED
    BY <1>2, <2>1, <2>2 DEF Above, s
<1>3. QED
  BY <1>2 DEF Above

LEMMA AboveTrans ==
  ASSUME NEW p \in Paths, NEW q \in Paths, NEW r \in Paths, Above(p, q), Above(q, r) PROVE Above(p, r)
<1>1. Len(p) \in Nat /\ Len(q) \in Nat /\ Len(r) \in Nat
  BY PathsAssumption
<1>2. Len(p) <= Len(q) /\ Len(q) <= Len(r) /\ (\A i \in 1 .. Len(p) : q[i] = p[i]) /\ \A i \in 1 .. Len(q) : r[i] = q[i]
  BY AboveEach
<1>3. Len(p) <= Len(r) /\ \A i \in 1 .. Len(p) : i \in 1 .. Len(q)
  BY <1>1, <1>2
<1>4. QED
  BY <1>2, <1>3, AboveEach

\* The tree u is the tree t but for the mount at p, and is well formed as t was.
ChangedAt(t, u, p) == /\ u \in Trees /\ WellFormed(u) /\ t.nodes \subseteq u.nodes
                      /\ \A r \in Paths \ {p} : u.mount[r] = t.mount[r]

\* What Mount, Unmount and writeBlob change.
LEMMA MountChanges ==
  ASSUME NEW t \in Trees, WellFormed(t), NEW p \in Paths, NEW e \in Entry
  PROVE  ChangedAt(t, Mount(t, p, e), p) /\ Mount(t, p, e).mount[p] = e
<1> DEFINE u == Mount(t, p, e)
<1>1. u \in Trees /\ t.nodes \subseteq u.nodes /\ u.mount = [t.mount EXCEPT ![p] = e]
  BY MountFacts
<1>2. u.nodes = t.nodes \cup { q \in Paths : Above(q, p) }
  BY DEF Mount
<1>3. u.mount[p] = e /\ \A r \in Paths \ {p} : u.mount[r] = t.mount[r]
  BY <1>1 DEF Trees
<1> HIDE DEF u
<1>4. \A q \in Paths : u.mount[q] # None => q \in u.nodes
  BY <1>1, <1>2, <1>3, AboveRefl DEF WellFormed
<1>5. ASSUME NEW q \in Paths, NEW r \in u.nodes, Above(q, r) PROVE q \in u.nodes
  <2>1. r \in Paths
    BY <1>1 DEF Trees
  <2>2. CASE r \in t.nodes
    BY <1>2, <1>5, <2>2 DEF WellFormed
  <2>3. CASE Above(r, p)
    BY <1>2, <1>5, <2>1, <2>3, AboveTrans
  <2>4. QED
    BY <1>2, <2>2, <2>3
<1>6. WellFormed(u)
  BY <1>1, <1>4, <1>5 DEF WellFormed
<1>7. QED
  BY <1>1, <1>3, <1>6 DEF ChangedAt, u

LEMMA UnmountChanges ==
  ASSUME NEW t \in Trees, WellFormed(t), NEW p \in Paths
  PROVE  ChangedAt(t, Unmount(t, p), p) /\ Unmount(t, p).mount[p] = None /\ Unmount(t, p).nodes = t.nodes
<1> DEFINE u == Unmount(t, p)
<1>1. u \in Trees /\ u.nodes = t.nodes /\ u.mount = [t.mount EXCEPT ![p] = None]
  BY UnmountFacts
<1> HIDE DEF u
<1>2. u.mount[p] = None /\ \A r \in Paths \ {p} : u.mount[r] = t.mount[r]
  BY <1>1 DEF Trees
<1>3. WellFormed(u)
  BY <1>1, <1>2 DEF WellFormed
<1>4. QED
  BY <1>1, <1>2, <1>3 DEF ChangedAt, u

LEMMA WrittenChanges ==
  ASSUME NEW t \in Trees, WellFormed(t), NEW p \in Paths, Mounted(t, p), NEW d \in Data \cup {Empty}
  PROVE  /\ ChangedAt(t, Written(t, p, d), p)
         /\ Written(t, p, d).mount[p] = [t.mount[p] EXCEPT !.data = d]
<1> DEFINE e == [t.mount[p] EXCEPT !.data = d]
           u == Written(t, p, d)
<1>1. t.mount \in [Paths -> Entry \cup {None}] /\ t.mount[p] \in Entry
  BY DEF Trees, Mounted
<1>2. e \in Entry
  BY <1>1 DEF Entry
<1>3. u = [t EXCEPT !.mount = [t.mount EXCEPT ![p] = e]]
  BY DEF Written
<1> HIDE DEF u, e
<1>4. u.nodes = t.nodes /\ u.mount = [t.mount EXCEPT ![p] = e] /\ u \in Trees
  BY <1>1, <1>2, <1>3 DEF Trees
<1>5. u.mount[p] = e /\ \A r \in Paths \ {p} : u.mount[r] = t.mount[r]
  BY <1>1, <1>4
<1>6. WellFormed(u)
  BY <1>4, <1>5 DEF WellFormed, Mounted
<1>7. QED
  BY <1>4, <1>5, <1>6 DEF ChangedAt, u, e

\* What Read tells, and that it stays with what Stat tells.
LEMMA ReadFacts ==
  ASSUME NEW t \in Trees, NEW p \in Paths
  PROVE  /\ Read(t, p).value \in Data \cup {Empty} /\ Read(t, p).err \in Errors \cup {None}
         /\ Read(t, p) = Answer(Read(t, p).err, Read(t, p).value)
         /\ Read(t, p).err = None <=> Mounted(t, p) /\ t.mount[p].kind # "dir"
         /\ Mounted(t, p) /\ t.mount[p].kind # "dir" => Read(t, p).value = t.mount[p].data
         /\ Stat(t, p).err # None \/ Stat(t, p).value.kind = "dir" => Read(t, p).value = Empty
<1>1. t.mount[p] \in Entry \cup {None} /\ (Mounted(t, p) => t.mount[p] \in Entry /\ Found(t, p))
  BY DEF Trees, Mounted, Found
<1>2. None # "ENOENT" /\ None # "ENOTDIR" /\ None # "EISDIR"
  BY PathsAssumption DEF Errors
<1>3. CASE ~Mounted(t, p)
  BY <1>2, <1>3 DEF Read, Answer, Errors
<1>4. CASE Mounted(t, p) /\ t.mount[p].kind = "dir"
  BY <1>1, <1>2, <1>4 DEF Read, Answer, Errors
<1>5. CASE Mounted(t, p) /\ t.mount[p].kind # "dir"
  <2>1. Stat(t, p) = Answer(None, t.mount[p])
    BY <1>1, <1>5 DEF Stat
  <2>2. Read(t, p) = Answer(None, t.mount[p].data) /\ t.mount[p].data \in Data \cup {Empty}
    BY <1>1, <1>5 DEF Read, Entry
  <2>3. QED
    BY <1>5, <2>1, <2>2 DEF Answer
<1>6. QED
  BY <1>3, <1>4, <1>5

\* What Stat tells.
LEMMA StatFacts ==
  ASSUME NEW t \in Trees, NEW p \in Paths
  PROVE  /\ Stat(t, p).value \in Entry /\ Stat(t, p).err \in {None, "ENOENT"} /\ None # "ENOENT"
         /\ Stat(t, p) = Answer(Stat(t, p).err, Stat(t, p).value)
         /\ Stat(t, p).err = None <=> Found(t, p)
         /\ Mounted(t, p) => Stat(t, p).value = t.mount[p] /\ Found(t, p)
         /\ ~Mounted(t, p) => Stat(t, p).value = IntermediateDir
<1>1. t.mount[p] \in Entry \cup {None} /\ (Mounted(t, p) => t.mount[p] \in Entry /\ Found(t, p))
  BY DEF Trees, Mounted, Found
<1>2. None # "ENOENT"
  BY PathsAssumption DEF Errors
<1>3. IntermediateDir \in Entry
  BY DEF IntermediateDir, Entry, Kinds
<1>4. CASE Mounted(t, p)
  BY <1>1, <1>2, <1>4 DEF Stat, Answer
<1>5. CASE ~Mounted(t, p)
  BY <1>2, <1>3, <1>5 DEF Stat, Answer, NoEntry
<1>6. QED
  BY <1>4, <1>5

\* What is told of a path that was found stays as long as its own mount does.
LEMMA PropsKept ==
  ASSUME NEW t \in Trees, NEW u \in Trees, NEW p \in Paths, t.nodes \subseteq u.nodes,
         u.mount[p] = t.mount[p], Stat(t, p).err = None
  PROVE  Props(u, p) = Props(t, p)
<1>1. Stat(u, p) = Stat(t, p)
  BY StatKept
<1>2. Found(t, p) /\ Found(u, p)
  BY <1>1, StatFacts
<1>3. Read(u, p) = Read(t, p)
  BY <1>2 DEF Read, Mounted
<1>4. QED
  BY <1>1, <1>3 DEF Props

\* Why Mount refuses an entry depends on the mounts alone; what is taken is refused.
LEMMA MountErrorFacts ==
  ASSUME NEW t, NEW p, NEW e
  PROVE  /\ MountError(t, p, e) \in {"EINVAL", "ENOSPC", "EEXIST", None}
         /\ MountError(t, p, e) = None => ~Mounted(t, p)
         /\ MountError(t, p, e) = "EEXIST" => Mounted(t, p)
         /\ \A u : u.mount = t.mount => MountError(u, p, e) = MountError(t, p, e)
<1>1. None \notin {"EINVAL", "ENOSPC", "EEXIST"}
  BY PathsAssumption DEF Errors
<1>2. ASSUME NEW u, u.mount = t.mount PROVE MountError(u, p, e) = MountError(t, p, e)
  <2>1. (\A q : Mounted(u, q) <=> Mounted(t, q))
    BY <1>2 DEF Mounted
  <2>2. { q \in Paths : Mounted(u, q) } = { q \in Paths : Mounted(t, q) }
    BY <2>1
  <2>3. QED
    BY <2>1, <2>2 DEF MountError
<1>3. QED
  BY <1>1, <1>2 DEF MountError

-----------------------------------------------------------------------------
\* The labels of a handler, and its state.  Those that a request begins at have the names
\* of the operations.
FuseOps == {"lookup", "create", "mkdir", "symlink", "unlink", "rename", "mount", "unmount"}
FuseLabels == FuseOps \cup {"idle", "hit", "stat", "insert", "open", "restat", "new", "rollback",
                            "removed", "reply"}
FuseJobs == [pc : FuseLabels, op : Ops \cup {NoOp}, kind : Kinds, changed : BOOLEAN, stale : BOOLEAN,
             ino : Nat, code : {"", "ok", "error"} \cup Errors]
JobTyped(t) == /\ job[t] \in FuseJobs /\ job[t].ino <= made
               /\ job[t].pc # "idle" => job[t].op \in Ops
               /\ job[t].pc \in FuseOps => job[t].op.op = job[t].pc
InTable == { p \in Paths : inodes[p] # None }
TableTyped == /\ made \in Nat /\ odd \subseteq Paths /\ lru \in Seq(Paths)
              /\ inodes \in [Paths -> Inode \cup {None}] /\ IsFiniteSet(InTable)

\* The list has paths of the table, each once, and at most inodeCap of them.
LruOnce == \A i, k \in 1 .. Len(lru) : lru[i] = lru[k] => i = k
LruInTable == \A i \in 1 .. Len(lru) : inodes[lru[i]] # None /\ AtRoot(lru[i])
LruBounded == Len(lru) <= InodeCap
LruInv == LruOnce /\ LruInTable /\ LruBounded

\* The path has the kind that the handler knows of, until another changes it there.
IsOfKind(p, k) == Stat(tree, p).err = None /\ Stat(tree, p).value.kind = k
Seen(t) == job[t].pc \in {"insert", "open", "restat", "new"} /\ ~job[t].stale
             => IsOfKind(job[t].op.path, job[t].kind)

\* Nothing came into the table for a path since a Lookup missed it; what is there since
\* a Mount is odd.
Missed(t) == ~job[t].changed =>
  /\ job[t].pc \in {"stat", "insert"} => inodes[job[t].op.path] = None
  /\ job[t].pc \in {"open", "restat", "new"} => inodes[job[t].op.path] = None \/ job[t].op.path \in odd

\* What a failed Create, Mkdir or Symlink has taken back is gone.
Undone(t) == job[t].pc = "removed" /\ job[t].op.op \in {"create", "mkdir", "symlink"} /\ ~job[t].changed
               => ~Mounted(tree, job[t].op.path)

\* What a handler knows.
Knows(t) == JobTyped(t) /\ Seen(t) /\ Missed(t) /\ Undone(t)

FuseInv == /\ tree \in Trees /\ TableTyped /\ LruInv /\ InodesAgree
           /\ job \in [Threads -> FuseJobs] /\ \A t \in Threads : Knows(t)

-----------------------------------------------------------------------------
\* The list without p: shorter by one if p was in it, with the other paths, each once.
LEMMA WithoutFacts ==
  ASSUME lru \in Seq(Paths), LruOnce, NEW p \in Paths
  PROVE  /\ Without(p) \in Seq(Paths)
         /\ Len(Without(p)) = IF InLru(p) THEN Len(lru) - 1 ELSE Len(lru)
         /\ \A i \in 1 .. Len(Without(p)) : Without(p)[i] # p /\ \E k \in 1 .. Len(lru) : Without(p)[i] = lru[k]
         /\ \A i, k \in 1 .. Len(Without(p)) : Without(p)[i] = Without(p)[k] => i = k
<1>1. CASE ~InLru(p)
  BY <1>1 DEF Without, InLru, LruOnce
<1>2. CASE InLru(p)
  <2> DEFINE n == LruPos(p)
             A == SubSeq(lru, 1, n - 1)
             B == SubSeq(lru, n + 1, Len(lru))
  <2>1. n \in 1 .. Len(lru) /\ lru[n] = p /\ Len(lru) \in Nat
    BY <1>2 DEF InLru, LruPos
  <2> HIDE DEF n
  <2>2. /\ A \in Seq(Paths) /\ Len(A) = n - 1 /\ \A i \in 1 .. n - 1 : A[i] = lru[i]
        /\ B \in Seq(Paths) /\ Len(B) = Len(lru) - n /\ \A i \in 1 .. Len(lru) - n : B[i] = lru[n + i]
    BY <2>1
  <2> HIDE DEF A, B
  <2>3. /\ A \o B \in Seq(Paths) /\ Len(A \o B) = Len(lru) - 1
        /\ \A i \in 1 .. Len(lru) - 1 : (A \o B)[i] = IF i < n THEN lru[i] ELSE lru[i + 1]
    <3>1. /\ A \o B \in Seq(Paths) /\ Len(A \o B) = Len(A) + Len(B)
          /\ \A i \in 1 .. Len(A) + Len(B) : (A \o B)[i] = IF i <= Len(A) THEN A[i] ELSE B[i - Len(A)]
      BY <2>2, ConcatProperties
    <3>2. QED
      BY <2>1, <2>2, <3>1
  <2>4. Without(p) = A \o B
    BY <1>2 DEF Without, A, B, n
  <2> DEFINE W == A \o B
  <2> HIDE DEF W
  <2>5. ASSUME NEW i \in 1 .. Len(lru) - 1
        PROVE  W[i] # p /\ \E k \in 1 .. Len(lru) : W[i] = lru[k]
    <3>1. CASE i < n
      BY <2>1, <2>3, <2>5, <3>1 DEF LruOnce, W
    <3>2. CASE ~(i < n)
      BY <2>1, <2>3, <2>5, <3>2 DEF LruOnce, W
    <3>3. QED
      BY <3>1, <3>2
  <2>6. ASSUME NEW i \in 1 .. Len(lru) - 1, NEW k \in 1 .. Len(lru) - 1, W[i] = W[k] PROVE i = k
    <3> DEFINE a == IF i < n THEN i ELSE i + 1
               b == IF k < n THEN k ELSE k + 1
    <3>1. a \in 1 .. Len(lru) /\ b \in 1 .. Len(lru) /\ (a = b => i = k)
      BY <2>1
    <3>2. lru[a] = lru[b]
      BY <2>3, <2>6 DEF W
    <3>3. QED
      BY <3>1, <3>2 DEF LruOnce
  <2>7. QED
    BY <1>2, <2>3, <2>4, <2>5, <2>6 DEF W
<1>3. QED
  BY <1>1, <1>2

\* p in front of a list that does not have it.
LEMMA InFront ==
  ASSUME NEW s \in Seq(Paths), NEW p \in Paths, \A i \in 1 .. Len(s) : s[i] # p,
         \A i, k \in 1 .. Len(s) : s[i] = s[k] => i = k
  PROVE  /\ <<p>> \o s \in Seq(Paths) /\ Len(<<p>> \o s) = Len(s) + 1
         /\ \A i \in 1 .. Len(s) + 1 : (<<p>> \o s)[i] = IF i = 1 THEN p ELSE s[i - 1]
         /\ \A i, k \in 1 .. Len(s) + 1 : (<<p>> \o s)[i] = (<<p>> \o s)[k] => i = k
<1>1. /\ <<p>> \o s \in Seq(Paths) /\ Len(<<p>> \o s) = Len(s) + 1 /\ Len(s) \in Nat
      /\ \A i \in 1 .. Len(s) + 1 : (<<p>> \o s)[i] = IF i = 1 THEN p ELSE s[i - 1]
  BY ConcatProperties
<1> DEFINE f == <<p>> \o s
<1> HIDE DEF f
<1>2. ASSUME NEW i \in 1 .. Len(s) + 1, NEW k \in 1 .. Len(s) + 1, f[i] = f[k] PROVE i = k
  <2>1. (i = 1 \/ i - 1 \in 1 .. Len(s)) /\ (k = 1 \/ k - 1 \in 1 .. Len(s))
    BY <1>1
  <2>2. f[i] = (IF i = 1 THEN p ELSE s[i - 1]) /\ f[k] = IF k = 1 THEN p ELSE s[k - 1]
    BY <1>1 DEF f
  <2>3. i # 1 /\ k # 1 => i - 1 = k - 1
    BY <1>2, <2>1, <2>2
  <2>4. i = 1 <=> k = 1
    BY <1>2, <2>1, <2>2
  <2>5. i \in Int /\ k \in Int
    BY <1>1
  <2>6. QED
    BY <2>3, <2>4, <2>5
<1>3. QED
  BY <1>1, <1>2 DEF f

\* lruMoveToFront keeps what the list is.
LEMMA ToFrontFacts ==
  ASSUME lru \in Seq(Paths), LruInv, NEW p \in Paths, UNCHANGED inodes, lru' = ToFront(p)
  PROVE  lru' \in Seq(Paths) /\ LruInv'
<1>1. CASE ~InLru(p)
  <2>1. lru' = lru
    BY <1>1 DEF ToFront
  <2>2. QED
    BY <2>1 DEF LruInv, LruOnce, LruInTable, LruBounded
<1>2. CASE InLru(p)
  <2> DEFINE s == Without(p)
  <2>1. /\ s \in Seq(Paths) /\ Len(s) = Len(lru) - 1 /\ \A i, k \in 1 .. Len(s) : s[i] = s[k] => i = k
        /\ \A i \in 1 .. Len(s) : s[i] # p /\ \E k \in 1 .. Len(lru) : s[i] = lru[k]
    BY <1>2, WithoutFacts DEF LruInv
  <2>2. lru' = <<p>> \o s
    BY <1>2 DEF ToFront
  <2> HIDE DEF s
  <2>3. /\ lru' \in Seq(Paths) /\ Len(lru') = Len(lru)
        /\ \A i \in 1 .. Len(lru) : lru'[i] = IF i = 1 THEN p ELSE s[i - 1]
        /\ \A i, k \in 1 .. Len(lru) : lru'[i] = lru'[k] => i = k
    <3>1. Len(s) + 1 = Len(lru)
      BY <2>1
    <3>2. QED
      BY <2>1, <2>2, <3>1, InFront
  <2>4. \A i \in 1 .. Len(lru) : i # 1 => i - 1 \in 1 .. Len(s)
    BY <2>1
  <2>5. \A i \in 1 .. Len(lru) : \E k \in 1 .. Len(lru) : lru'[i] = lru[k]
    BY <1>2, <2>1, <2>3, <2>4 DEF InLru
  <2>6. LruInTable'
    BY <2>3, <2>5 DEF LruInv, LruInTable, AtRoot
  <2>7. QED
    BY <2>3, <2>6 DEF LruInv, LruOnce, LruBounded
<1>3. QED
  BY <1>1, <1>2

\* A list of different paths of the table is not longer than the table.
LEMMA ListFits ==
  ASSUME NEW S, IsFiniteSet(S), NEW s \in Seq(S), \A i, k \in 1 .. Len(s) : s[i] = s[k] => i = k
  PROVE  Len(s) <= Cardinality(S) /\ Cardinality(S) \in Nat
<1>1. Cardinality(S) \in Nat /\ Len(s) \in Nat
  BY FS_CardinalityType
<1>2. IsFiniteSet(1 .. Len(s)) /\ Cardinality(1 .. Len(s)) = Len(s)
  <2>1. \A n \in Nat : IsFiniteSet(1 .. n) /\ Cardinality(1 .. n) = IF 1 > n THEN 0 ELSE n - 1 + 1
    BY FS_Interval
  <2>2. \A n \in Nat : (IF 1 > n THEN 0 ELSE n - 1 + 1) = n
    OBVIOUS
  <2>3. QED
    BY <1>1, <2>1, <2>2
<1>3. ASSUME Cardinality(S) < Len(s) PROVE FALSE
  <2>1. s \in [1 .. Len(s) -> S]
    OBVIOUS
  <2>2. \E i, k \in 1 .. Len(s) : i # k /\ s[i] = s[k]
    BY <1>2, <1>3, <2>1, FS_PigeonHole
  <2>3. QED
    BY <2>2
<1>4. QED
  BY <1>1, <1>3

\* evictOldest leaves a list of paths that are in the table, within inodeCap, and takes
\* out of the table no others than the ones it takes out of the list.
LEMMA EvictedFacts ==
  ASSUME NEW tb, NEW l \in Seq(Paths), IsFiniteSet({ p \in Paths : tb[p] # None }),
         \A i, k \in 1 .. Len(l) : l[i] = l[k] => i = k,
         \A i \in 1 .. Len(l) : tb[l[i]] # None /\ AtRoot(l[i])
  PROVE  LET e == Evicted(tb, l) IN
         /\ e.l \in Seq(Paths) /\ Len(e.l) <= InodeCap
         /\ \A i, k \in 1 .. Len(e.l) : e.l[i] = e.l[k] => i = k
         /\ \A i \in 1 .. Len(e.l) : e.tb[e.l[i]] # None /\ AtRoot(e.l[i])
         /\ e.tb \in [Paths -> { tb[p] : p \in Paths } \cup {None}]
         /\ \A p \in Paths : e.tb[p] \in {tb[p], None}
<1> DEFINE S == { p \in Paths : tb[p] # None }
           size == Cardinality(S)
           n == IF size <= InodeCap THEN 0 ELSE IF size - InodeCap > Len(l) THEN Len(l) ELSE size - InodeCap
           gone == { l[i] : i \in Len(l) - n + 1 .. Len(l) }
           m == Len(l) - n
           rest == SubSeq(l, 1, m)
           left == [p \in Paths |-> IF p \in gone THEN None ELSE tb[p]]
<1>1. Evicted(tb, l) = [tb |-> left, l |-> rest]
  BY DEF Evicted
<1>2. size \in Nat /\ Len(l) <= size /\ Len(l) \in Nat /\ InodeCap \in Nat
  <2>1. l \in Seq(S)
    <3>1. \A i \in 1 .. Len(l) : l[i] \in S
      BY ElementOfSeq
    <3>2. QED
      BY <3>1
  <2>2. QED
    BY <2>1, ListFits, FuseAssumption
<1>3. n \in 0 .. Len(l) /\ m \in 0 .. Len(l) /\ m <= InodeCap
  BY <1>2
<1> HIDE DEF n, size
<1>4. rest \in Seq(Paths) /\ Len(rest) = m /\ \A i \in 1 .. m : rest[i] = l[i]
  BY <1>2, <1>3
<1>5. \A i \in 1 .. m : l[i] \notin gone
  BY <1>2, <1>3
<1>6. \A i \in 1 .. m : l[i] \in Paths /\ i \in 1 .. Len(l)
  BY <1>2, <1>3, ElementOfSeq
<1> HIDE DEF rest, gone, m
<1>7. \A i \in 1 .. Len(rest) : left[rest[i]] # None /\ AtRoot(rest[i])
  BY <1>4, <1>5, <1>6 DEF AtRoot
<1>8. \A i, k \in 1 .. Len(rest) : rest[i] = rest[k] => i = k
  BY <1>4, <1>6
<1>9. left \in [Paths -> { tb[p] : p \in Paths } \cup {None}] /\ \A p \in Paths : left[p] \in {tb[p], None}
  OBVIOUS
<1> HIDE DEF left
<1>10. QED
  BY <1>1, <1>3, <1>4, <1>7, <1>8, <1>9

-----------------------------------------------------------------------------
\* The requests of the FUSE adapter are on paths other than the root.
LEMMA OpFacts ==
  /\ \A o \in Ops : /\ o.op \in FuseOps /\ o.path \in Paths /\ o.path # <<>>
                    /\ o.op = "rename" => o.to \in Paths
  /\ \A o \in Ops \cup {NoOp} : o.path \in Paths
  BY FuseAssumption, PathsAssumption DEF FuseOps, NoOp

\* The invariant holds at the start.
LEMMA InitFuseInv == FuseInit => FuseInv
<1> SUFFICES ASSUME FuseInit PROVE FuseInv
  OBVIOUS
<1>1. FuseIdle \in FuseJobs
  BY DEF FuseIdle, FuseJobs, FuseLabels, Kinds
<1>2. tree \in Trees /\ job \in [Threads -> FuseJobs]
  BY <1>1, FuseAssumption DEF FuseInit
<1>3. TableTyped
  <2>1. InTable = {}
    BY DEF FuseInit, InTable
  <2>2. QED
    BY <2>1, FS_EmptySet DEF FuseInit, TableTyped, Inode
<1>4. LruInv /\ InodesAgree
  BY FuseAssumption DEF FuseInit, LruInv, LruOnce, LruInTable, LruBounded, InodesAgree
<1>5. ASSUME NEW t \in Threads PROVE Knows(t)
  <2>1. job[t].pc = "idle" /\ job[t].ino = 0 /\ job[t] \in FuseJobs /\ made = 0
    BY <1>1 DEF FuseInit, FuseIdle
  <2>2. QED
    BY <2>1 DEF Knows, JobTyped, Seen, Missed, Undone, FuseOps
<1>6. QED
  BY <1>2, <1>3, <1>4, <1>5 DEF FuseInv

\* Every inode stays one when more are made.
LEMMA InodeGrows ==
  ASSUME made \in Nat, made' \in Nat, made <= made' PROVE Inode \subseteq Inode'
  BY DEF Inode

\* A step of t that changes neither the tree nor the table: the list may be in another
\* order.
LEMMA LookKeeps ==
  ASSUME FuseInv, NEW t \in Threads, NEW j \in FuseJobs, job' = [job EXCEPT ![t] = j],
         UNCHANGED <<tree, inodes, made, odd>>, lru' \in Seq(Paths), LruInv',
         job[t].pc # "removed", Knows(t)'
  PROVE  FuseInv'
<1>1. TableTyped'
  BY DEF FuseInv, TableTyped, Inode, InTable
<1>2. InodesAgree'
  BY DEF FuseInv, InodesAgree
<1>3. ASSUME NEW u \in Threads PROVE Knows(u)'
  <2>1. CASE u = t
    BY <2>1
  <2>2. CASE u # t
    <3>1. job'[u] = job[u] /\ Knows(u)
      BY <2>2 DEF FuseInv
    <3>2. QED
      BY <3>1 DEF Knows, JobTyped, Seen, Missed, Undone, IsOfKind
  <2>3. QED
    BY <2>1, <2>2
<1>4. QED
  BY <1>1, <1>2, <1>3 DEF FuseInv

\* What is left of the other handlers by a step that changes the tree at ps.
LEMMA TreeJobs ==
  ASSUME job \in [Threads -> FuseJobs], NEW t \in Threads, NEW ps, NEW j \in FuseJobs,
         job' = Jobs(t, ps, TRUE, j)
  PROVE  /\ job' \in [Threads -> FuseJobs] /\ job'[t] = j
         /\ \A u \in Threads \ {t} :
              /\ job'[u].pc = job[u].pc /\ job'[u].op = job[u].op /\ job'[u].kind = job[u].kind
              /\ job'[u].ino = job[u].ino /\ job'[u] \in FuseJobs
              /\ ~job'[u].changed => ~job[u].changed /\ job[u].op.path \notin ps
              /\ ~job'[u].stale => ~job[u].stale /\ job[u].op.path \notin ps
  BY DEF Jobs, FuseJobs

\* A step of t that changes the tree, but only at the paths in ps.
LEMMA TreeKeeps ==
  ASSUME FuseInv, NEW t \in Threads, NEW j \in FuseJobs, NEW ps \in SUBSET Paths,
         job' = Jobs(t, ps, TRUE, j), UNCHANGED <<inodes, lru, made>>,
         tree' \in Trees, tree.nodes \subseteq tree'.nodes,
         \A r \in Paths \ ps : tree'.mount[r] = tree.mount[r],
         odd \subseteq odd', odd' \subseteq Paths,
         \A p \in ps : inodes[p] # None => p \in odd' \/ (j.pc = "removed" /\ j.op.path = p),
         job[t].pc # "removed", Knows(t)'
  PROVE  FuseInv'
<1>1. TableTyped' /\ LruInv'
  BY DEF FuseInv, TableTyped, Inode, InTable, LruInv, LruOnce, LruInTable, LruBounded, AtRoot
<1>2. /\ job' \in [Threads -> FuseJobs] /\ job'[t] = j
      /\ \A u \in Threads \ {t} :
           /\ job'[u].pc = job[u].pc /\ job'[u].op = job[u].op /\ job'[u].kind = job[u].kind
           /\ job'[u].ino = job[u].ino /\ job'[u] \in FuseJobs
           /\ ~job'[u].changed => ~job[u].changed /\ job[u].op.path \notin ps
           /\ ~job'[u].stale => ~job[u].stale /\ job[u].op.path \notin ps
  BY TreeJobs DEF FuseInv
<1>3. \A p \in Paths \ ps : \A k : IsOfKind(p, k) => IsOfKind(p, k)'
  BY StatKept DEF IsOfKind, FuseInv
<1>4. InodesAgree'
  <2> SUFFICES ASSUME NEW p \in Paths, inodes[p] # None
               PROVE  IsOfKind(p, inodes[p].kind)' \/ p \in odd'
                        \/ \E u \in Threads : job'[u].pc = "removed" /\ job'[u].op.path = p
    BY DEF InodesAgree, IsOfKind
  <2>1. CASE p \in ps
    BY <1>2, <2>1
  <2>2. CASE p \notin ps
    <3>1. \/ IsOfKind(p, inodes[p].kind) \/ p \in odd
          \/ \E u \in Threads : job[u].pc = "removed" /\ job[u].op.path = p
      BY DEF FuseInv, InodesAgree, IsOfKind
    <3>2. CASE \E u \in Threads : job[u].pc = "removed" /\ job[u].op.path = p
      BY <1>2, <3>2
    <3>3. QED
      BY <1>3, <2>2, <3>1, <3>2
  <2>3. QED
    BY <2>1, <2>2
<1>5. ASSUME NEW u \in Threads PROVE Knows(u)'
  <2>1. CASE u # t
    <3>1. Knows(u) /\ job[u].op.path \in Paths
      BY OpFacts DEF FuseInv, FuseJobs
    <3>2. /\ job'[u].pc = job[u].pc /\ job'[u].op = job[u].op /\ job'[u].kind = job[u].kind
          /\ job'[u].ino = job[u].ino /\ job'[u] \in FuseJobs
          /\ ~job'[u].changed => ~job[u].changed /\ job[u].op.path \notin ps
          /\ ~job'[u].stale => ~job[u].stale /\ job[u].op.path \notin ps
      BY <1>2, <2>1
    <3>3. JobTyped(u)'
      BY <3>1, <3>2 DEF Knows, JobTyped
    <3>4. Seen(u)'
      BY <1>3, <3>1, <3>2 DEF Knows, Seen
    <3>5. Missed(u)'
      BY <3>1, <3>2 DEF Knows, Missed
    <3>6. Undone(u)'
      <4>1. job[u].op.path \notin ps => tree'.mount[job[u].op.path] = tree.mount[job[u].op.path]
        BY <3>1
      <4>2. job[u].op.path \notin ps => (Mounted(tree, job[u].op.path)' <=> Mounted(tree, job[u].op.path))
        BY <3>2, <4>1 DEF Mounted
      <4>3. QED
        BY <3>1, <3>2, <4>2 DEF Knows, Undone, Mounted
    <3>7. QED
      BY <3>3, <3>4, <3>5, <3>6 DEF Knows
  <2>2. QED
    BY <2>1
<1>6. QED
  BY <1>1, <1>2, <1>4, <1>5 DEF FuseInv

\* A step of t that changes the table: at its own path p, where it puts nothing or an inode
\* of the right kind or an odd one, and elsewhere only by leaving inodes out.
LEMMA TableKeeps ==
  ASSUME FuseInv, NEW t \in Threads, NEW j \in FuseJobs, NEW p \in Paths,
         job' = Jobs(t, {p}, FALSE, j), UNCHANGED tree, TableTyped', LruInv', made <= made',
         \A q \in Paths \ {p} : /\ inodes'[q] \in {inodes[q], None}
                                /\ inodes'[q] # None => (q \in odd <=> q \in odd'),
         inodes'[p] # None => p \in odd' \/ IsOfKind(p, inodes'[p].kind),
         job[t].op.path = p, Knows(t)'
  PROVE  FuseInv'
<1>1. /\ job' \in [Threads -> FuseJobs] /\ job'[t] = j
      /\ \A u \in Threads \ {t} :
           /\ job'[u].pc = job[u].pc /\ job'[u].op = job[u].op /\ job'[u].kind = job[u].kind
           /\ job'[u].ino = job[u].ino /\ job'[u] \in FuseJobs
           /\ ~job'[u].changed => ~job[u].changed /\ job[u].op.path # p
           /\ ~job'[u].stale => ~job[u].stale
  <2>1. job \in [Threads -> FuseJobs]
    BY DEF FuseInv
  <2>2. QED
    BY <2>1 DEF Jobs, FuseJobs
<1>2. InodesAgree'
  <2> SUFFICES ASSUME NEW q \in Paths, inodes'[q] # None
               PROVE  IsOfKind(q, inodes'[q].kind) \/ q \in odd'
                        \/ \E u \in Threads : job'[u].pc = "removed" /\ job'[u].op.path = q
    BY DEF InodesAgree, IsOfKind
  <2>1. CASE q = p
    BY <2>1
  <2>2. CASE q # p
    <3>1. inodes'[q] = inodes[q] /\ (q \in odd => q \in odd')
      BY <2>2
    <3>2. \/ IsOfKind(q, inodes[q].kind) \/ q \in odd
          \/ \E u \in Threads \ {t} : job[u].pc = "removed" /\ job[u].op.path = q
      BY <2>2, <3>1 DEF FuseInv, InodesAgree, IsOfKind
    <3>3. QED
      BY <1>1, <3>1, <3>2
  <2>3. QED
    BY <2>1, <2>2
<1>3. ASSUME NEW u \in Threads PROVE Knows(u)'
  <2>1. CASE u # t
    <3>1. Knows(u) /\ job[u].op.path \in Paths /\ made \in Nat /\ made' \in Nat
      BY OpFacts DEF FuseInv, FuseJobs, TableTyped
    <3>2. /\ job'[u].pc = job[u].pc /\ job'[u].op = job[u].op /\ job'[u].kind = job[u].kind
          /\ job'[u].ino = job[u].ino /\ job'[u] \in FuseJobs
          /\ ~job'[u].changed => ~job[u].changed /\ job[u].op.path # p
          /\ ~job'[u].stale => ~job[u].stale
      BY <1>1, <2>1
    <3>3. JobTyped(u)'
      <4>1. job[u].ino \in Nat /\ job[u].ino <= made
        BY <3>1 DEF Knows, JobTyped, FuseJobs
      <4>2. \A a, m, n \in Nat : a <= m /\ m <= n => a <= n
        OBVIOUS
      <4>3. job'[u].ino <= made'
        BY <3>1, <3>2, <4>1, <4>2
      <4>4. QED
        BY <3>1, <3>2, <4>3 DEF Knows, JobTyped
    <3>4. Seen(u)'
      BY <3>1, <3>2 DEF Knows, Seen, IsOfKind
    <3>5. Missed(u)'
      <4>1. ASSUME job[u].op.path # p, inodes'[job[u].op.path] # None
            PROVE  /\ inodes[job[u].op.path] = inodes'[job[u].op.path]
                   /\ job[u].op.path \in odd => job[u].op.path \in odd'
        BY <3>1, <4>1
      <4>2. QED
        BY <3>1, <3>2, <4>1 DEF Knows, Missed
    <3>6. Undone(u)'
      BY <3>1, <3>2 DEF Knows, Undone
    <3>7. QED
      BY <3>3, <3>4, <3>5, <3>6 DEF Knows
  <2>2. QED
    BY <2>1
<1>4. QED
  BY <1>1, <1>2, <1>3 DEF FuseInv

-----------------------------------------------------------------------------
\* A handler at work has a request, on a path.
LEMMA JobFacts ==
  ASSUME FuseInv, NEW t \in Threads
  PROVE  /\ job[t] \in FuseJobs /\ Knows(t) /\ job[t].op.path \in Paths /\ job[t].ino <= made
         /\ made \in Nat /\ job \in [Threads -> FuseJobs]
         /\ job[t].pc # "idle" => /\ job[t].op \in Ops /\ job[t].op.path # <<>>
                                  /\ job[t].op.op = "rename" => job[t].op.to \in Paths
<1>1. job[t] \in FuseJobs /\ Knows(t) /\ job \in [Threads -> FuseJobs] /\ made \in Nat
  BY DEF FuseInv, TableTyped
<1>2. job[t].op \in Ops \cup {NoOp} /\ job[t].ino <= made /\ (job[t].pc # "idle" => job[t].op \in Ops)
  BY <1>1 DEF FuseJobs, Knows, JobTyped
<1>3. QED
  BY <1>1, <1>2, OpFacts

\* One that answers, or is between two requests, knows no more than its types.
LEMMA NothingToKnow ==
  ASSUME NEW t \in Threads, job'[t] \in FuseJobs, job'[t].ino <= made', job'[t].pc \in {"idle", "reply"},
         job'[t].pc # "idle" => job'[t].op \in Ops
  PROVE  Knows(t)'
  BY DEF Knows, JobTyped, Seen, Missed, Undone, FuseOps

LEMMA LookStep ==
  ASSUME FuseInv, NEW t \in Threads, NEW j \in FuseJobs, FuseLook(t, j), job[t].pc # "removed", Knows(t)'
  PROVE  FuseInv'
<1>1. /\ job' = [job EXCEPT ![t] = j] /\ UNCHANGED <<tree, inodes, made, odd, lru>>
  BY DEF FuseLook, inodeTable
<1>2. lru' \in Seq(Paths) /\ LruInv'
  BY <1>1 DEF FuseInv, TableTyped, LruInv, LruOnce, LruInTable, LruBounded
<1>3. QED
  BY <1>1, <1>2, LookKeeps

LEMMA ReplyKeeps ==
  ASSUME FuseInv, NEW t \in Threads, job[t].pc \notin {"removed", "idle"},
         NEW c \in {"", "ok", "error"} \cup Errors, FuseLook(t, Reply(job[t], c))
  PROVE  FuseInv'
<1>1. /\ job[t] \in FuseJobs /\ job \in [Threads -> FuseJobs] /\ job[t].ino <= made /\ job[t].op \in Ops
  BY JobFacts
<1> DEFINE j == Reply(job[t], c)
<1>2. j \in FuseJobs /\ j.pc = "reply" /\ j.ino = job[t].ino /\ j.op = job[t].op
  BY <1>1 DEF Reply, FuseJobs, FuseLabels
<1>3. job'[t] = j /\ made' = made
  BY <1>1 DEF FuseLook, inodeTable
<1>4. Knows(t)'
  BY <1>1, <1>2, <1>3, NothingToKnow
<1>5. QED
  BY <1>2, <1>4, LookStep

LEMMA FuseBeginKeeps ==
  ASSUME FuseInv, NEW t \in Threads, NEW o \in Ops, FuseBegin(t, o) PROVE FuseInv'
<1> DEFINE j == [FuseIdle EXCEPT !.pc = o.op, !.op = o]
<1>1. /\ job[t].pc = "idle" /\ job' = [job EXCEPT ![t] = j] /\ UNCHANGED <<tree, inodes, made, odd, lru>>
  BY DEF FuseBegin, inodeTable
<1>2. j \in FuseJobs /\ j.pc = o.op /\ j.op = o /\ j.ino = 0 /\ o.op \in FuseOps
  BY OpFacts DEF FuseIdle, FuseJobs, FuseLabels, Kinds
<1> HIDE DEF j
<1>3. job'[t] = j /\ made' \in Nat
  BY <1>1, JobFacts
<1>4. Knows(t)'
  BY <1>2, <1>3 DEF Knows, JobTyped, Seen, Missed, Undone, FuseOps
<1>5. lru' \in Seq(Paths) /\ LruInv'
  BY <1>1 DEF FuseInv, TableTyped, LruInv, LruOnce, LruInTable, LruBounded
<1>6. QED
  BY <1>1, <1>2, <1>4, <1>5, LookKeeps

LEMMA FuseEndKeeps ==
  ASSUME FuseInv, NEW t \in Threads, FuseEnd(t) PROVE FuseInv'
<1>1. FuseIdle \in FuseJobs /\ FuseIdle.pc = "idle" /\ FuseIdle.ino = 0
  BY DEF FuseIdle, FuseJobs, FuseLabels, Kinds
<1>2. job[t].pc = "reply" /\ FuseLook(t, FuseIdle)
  BY DEF FuseEnd
<1>3. job'[t] = FuseIdle /\ made' \in Nat
  BY <1>2, JobFacts DEF FuseLook, inodeTable
<1>4. Knows(t)'
  BY <1>1, <1>3, NothingToKnow
<1>5. QED
  BY <1>1, <1>2, <1>4, LookStep

\* The steps of a Lookup, ...
LEMMA LookupKeeps ==
  ASSUME FuseInv, NEW t \in Threads, Lookup(t) PROVE FuseInv'
<1> DEFINE j == job[t]
           p == j.op.path
           k == IF inodes[p] = None THEN [j EXCEPT !.pc = "stat", !.changed = FALSE]
                ELSE [j EXCEPT !.pc = "hit", !.ino = inodes[p].id]
<1>1. /\ j.pc = "lookup" /\ job' = [job EXCEPT ![t] = k] /\ UNCHANGED <<tree, inodes, made, odd>>
      /\ lru' = IF AtRoot(p) /\ inodes[p] # None THEN ToFront(p) ELSE lru
  BY DEF Lookup
<1>2. /\ j \in FuseJobs /\ p \in Paths /\ j.op \in Ops /\ j.ino <= made /\ made \in Nat
      /\ job \in [Threads -> FuseJobs]
  BY <1>1, JobFacts
<1>3. inodes[p] # None => inodes[p].id \in Nat /\ inodes[p].id <= made
  BY <1>2 DEF FuseInv, TableTyped, Inode
<1>4. k \in FuseJobs /\ k.op = j.op /\ k.ino <= made
  BY <1>2, <1>3 DEF FuseJobs, FuseLabels
<1>5. (k.pc = "stat" /\ inodes[p] = None) \/ k.pc = "hit"
  BY <1>2 DEF FuseJobs
<1> HIDE DEF k
<1>6. job'[t] = k
  BY <1>1, <1>2
<1>7. Knows(t)'
  BY <1>1, <1>2, <1>4, <1>5, <1>6 DEF Knows, JobTyped, Seen, Missed, Undone, FuseOps
<1>8. lru \in Seq(Paths) /\ LruInv
  BY DEF FuseInv, TableTyped
<1>9. lru' \in Seq(Paths) /\ LruInv'
  <2>1. CASE lru' = ToFront(p)
    BY <1>1, <1>2, <1>8, <2>1, ToFrontFacts
  <2>2. CASE lru' = lru
    BY <1>1, <1>8, <2>2 DEF LruInv, LruOnce, LruInTable, LruBounded
  <2>3. QED
    BY <1>1, <2>1, <2>2
<1>10. QED
  BY <1>1, <1>4, <1>7, <1>9, LookKeeps

LEMMA HitKeeps ==
  ASSUME FuseInv, NEW t \in Threads, Hit(t) PROVE FuseInv'
<1>1. Stat(tree, job[t].op.path).err \in {None, "ENOENT"}
  BY JobFacts, StatKind DEF FuseInv
<1>2. job[t].pc = "hit" /\ \E c \in {"ok", "ENOENT"} : FuseLook(t, Reply(job[t], c))
  BY <1>1 DEF Hit
<1>3. QED
  BY <1>2, ReplyKeeps DEF Errors

LEMMA LookupStatKeeps ==
  ASSUME FuseInv, NEW t \in Threads, LookupStat(t) PROVE FuseInv'
<1> DEFINE j == job[t]
           p == j.op.path
           s == Stat(tree, p)
           k == [j EXCEPT !.pc = "insert", !.kind = s.value.kind, !.stale = FALSE]
<1>1. /\ j \in FuseJobs /\ p \in Paths /\ j.op \in Ops /\ j.ino <= made /\ Knows(t) /\ j.pc = "stat"
      /\ job \in [Threads -> FuseJobs]
  BY JobFacts DEF LookupStat
<1>2. s.value.kind \in Kinds /\ s.err \in {None, "ENOENT"}
  BY <1>1, StatKind DEF FuseInv, Entry
<1>3. CASE s.err # None
  <2>1. FuseLook(t, Reply(job[t], s.err)) /\ s.err \in Errors
    BY <1>2, <1>3 DEF LookupStat, Errors
  <2>2. QED
    BY <1>1, <2>1, ReplyKeeps
<1>4. CASE s.err = None
  <2>1. FuseLook(t, k)
    BY <1>4 DEF LookupStat
  <2>2. k \in FuseJobs /\ k.op = j.op /\ k.ino = j.ino /\ k.pc = "insert" /\ k.kind = s.value.kind
          /\ k.changed = j.changed
    BY <1>1, <1>2 DEF FuseJobs, FuseLabels
  <2> HIDE DEF k
  <2>3. job'[t] = k /\ UNCHANGED <<tree, inodes, made, odd>>
    BY <1>1, <2>1 DEF FuseLook, inodeTable
  <2>4. IsOfKind(p, k.kind)
    BY <1>4, <2>2 DEF IsOfKind
  <2>5. Seen(t)'
    BY <2>2, <2>3, <2>4 DEF Seen, IsOfKind
  <2>6. Missed(t)'
    BY <1>1, <2>2, <2>3 DEF Missed, Knows
  <2>7. Knows(t)'
    BY <1>1, <2>2, <2>3, <2>5, <2>6 DEF Knows, JobTyped, Undone, FuseOps
  <2>8. QED
    BY <1>1, <2>1, <2>2, <2>7, LookStep
<1>5. QED
  BY <1>3, <1>4

\* The steps that change what is mounted.
LEMMA OnlyPath ==
  ASSUME FuseInv, NEW t \in Threads, job[t].pc # "removed", NEW j \in FuseJobs, NEW p \in Paths,
         NEW new \in Trees, tree.nodes \subseteq new.nodes, \A r \in Paths \ {p} : new.mount[r] = tree.mount[r],
         ChangeTree(t, new, p, j), Mounted(new, p) \/ (j.pc = "removed" /\ j.op.path = p), Knows(t)'
  PROVE  FuseInv'
<1>1. /\ tree' = new /\ job' = Jobs(t, {p}, TRUE, j) /\ UNCHANGED <<inodes, lru, made>>
      /\ odd' = IF Mounted(new, p) /\ inodes[p] # None THEN odd \cup {p} ELSE odd
  BY DEF ChangeTree
<1>2. odd \subseteq odd' /\ odd' \subseteq Paths
  BY <1>1 DEF FuseInv, TableTyped
<1>3. \A q \in {p} : inodes[q] # None => q \in odd' \/ (j.pc = "removed" /\ j.op.path = q)
  BY <1>1
<1>4. {p} \in SUBSET Paths
  OBVIOUS
<1>5. QED
  BY <1>1, <1>2, <1>3, <1>4, TreeKeeps

LEMMA EntryOfFacts ==
  ASSUME NEW op PROVE EntryOf(op) \in Entry /\ EntryOf(op).kind = KindOf(op) /\ KindOf(op) \in Kinds
  BY DEF EntryOf, KindOf, Entry, Kinds

\* ... of Create, Mkdir and Symlink, ...
LEMMA MakeKeeps ==
  ASSUME FuseInv, NEW t \in Threads, Make(t) PROVE FuseInv'
<1> DEFINE j == job[t]
           p == j.op.path
           e == EntryOf(j.op.op)
           new == Mount(tree, p, e)
           k == [j EXCEPT !.pc = IF j.op.op = "create" THEN "open" ELSE "restat",
                          !.kind = KindOf(j.op.op), !.changed = FALSE, !.stale = FALSE]
<1>1. /\ j \in FuseJobs /\ p \in Paths /\ j.op \in Ops /\ j.ino <= made /\ job \in [Threads -> FuseJobs]
      /\ j.pc \in {"create", "mkdir", "symlink"} /\ tree \in Trees
  BY JobFacts DEF Make, FuseInv
<1> DEFINE err == MountError(tree, p, e)
<1>2. CASE err # None
  <2>1. FuseLook(t, Reply(j, err)) /\ err \in Errors
    BY <1>2, <1>1, MountErrorFacts DEF Make, Errors
  <2> HIDE DEF err
  <2>2. QED
    BY <1>1, <2>1, ReplyKeeps
<1>3. CASE err = None
  <2>1. ChangeTree(t, new, p, k)
    BY <1>3 DEF Make
  <2>2. e \in Entry /\ e.kind = KindOf(j.op.op) /\ KindOf(j.op.op) \in Kinds
    BY EntryOfFacts
  <2>3. k \in FuseJobs /\ k.op = j.op /\ k.ino = j.ino /\ k.pc \in {"open", "restat"} /\ k.kind = e.kind
    BY <1>1, <2>2 DEF FuseJobs, FuseLabels
  <2> HIDE DEF k, e
  <2>4. /\ new \in Trees /\ tree.nodes \subseteq new.nodes /\ new.mount = [tree.mount EXCEPT ![p] = e]
        /\ Mounted(new, p)
    BY <1>1, <2>2, MountFacts
  <2>5. new.mount[p] = e /\ \A r \in Paths \ {p} : new.mount[r] = tree.mount[r]
    BY <1>1, <2>4 DEF Trees
  <2> HIDE DEF new
  <2>6. Stat(new, p).err = None /\ Stat(new, p).value.kind = k.kind
    <3>1. Stat(new, p) = Answer(None, new.mount[p])
      BY <1>1, <2>4, StatMounted
    <3>2. QED
      BY <2>3, <2>5, <3>1 DEF Answer
  <2>7. /\ tree' = new /\ job' = Jobs(t, {p}, TRUE, k) /\ UNCHANGED <<inodes, lru, made>>
        /\ inodes[p] # None => p \in odd'
    BY <2>1, <2>4 DEF ChangeTree
  <2>8. job'[t] = k
    BY <2>7 DEF Jobs
  <2>9. Seen(t)' /\ Missed(t)'
    BY <2>3, <2>6, <2>7, <2>8 DEF Seen, Missed, IsOfKind
  <2>10. Knows(t)'
    BY <1>1, <2>3, <2>7, <2>8, <2>9 DEF Knows, JobTyped, Undone, FuseOps
  <2>11. QED
    BY <1>1, <2>1, <2>3, <2>4, <2>5, <2>10, OnlyPath
<1>4. QED
  BY <1>2, <1>3

\* The steps of Create between the Mount and the insertion.
LEMMA OpenKeeps ==
  ASSUME FuseInv, NEW t \in Threads, Open(t) \/ Restat(t) PROVE FuseInv'
<1> DEFINE j == job[t]
<1>1. /\ j \in FuseJobs /\ j.op.path \in Paths /\ j.op \in Ops /\ j.ino <= made /\ job \in [Threads -> FuseJobs]
      /\ j.pc \in {"open", "restat"} /\ Knows(t)
  BY JobFacts DEF Open, Restat
<1>2. PICK l \in {"restat", "rollback", "new"} : FuseLook(t, To(j, l))
  BY DEF Open, Restat
<1> DEFINE k == To(j, l)
<1>3. /\ k \in FuseJobs /\ k.pc = l /\ k.op = j.op /\ k.ino = j.ino /\ k.kind = j.kind
      /\ k.changed = j.changed /\ k.stale = j.stale
  BY <1>1 DEF To, FuseJobs, FuseLabels
<1> HIDE DEF k
<1>4. job'[t] = k /\ UNCHANGED <<tree, inodes, made, odd>>
  BY <1>1, <1>2 DEF FuseLook, inodeTable, k
<1>5. Seen(t)' /\ Missed(t)'
  BY <1>1, <1>3, <1>4 DEF Knows, Seen, Missed, IsOfKind
<1>6. Knows(t)'
  BY <1>1, <1>3, <1>4, <1>5 DEF Knows, JobTyped, Undone, FuseOps
<1>7. QED
  BY <1>1, <1>2, <1>3, <1>6, LookStep DEF k

\* Unmount, by a failed Create or by a removal.
LEMMA UnmountKeeps ==
  ASSUME FuseInv, NEW t \in Threads, job[t].pc \in {"rollback", "unlink", "unmount"},
         NEW c \in {"ok", "error"},
         ChangeTree(t, Unmount(tree, job[t].op.path), job[t].op.path, [job[t] EXCEPT !.pc = "removed", !.code = c])
  PROVE  FuseInv'
<1> DEFINE j == job[t]
           p == j.op.path
           new == Unmount(tree, p)
           k == [j EXCEPT !.pc = "removed", !.code = c]
<1>1. /\ j \in FuseJobs /\ p \in Paths /\ j.op \in Ops /\ j.ino <= made /\ job \in [Threads -> FuseJobs]
      /\ tree \in Trees
  BY JobFacts DEF FuseInv
<1>2. k \in FuseJobs /\ k.pc = "removed" /\ k.op = j.op /\ k.ino = j.ino
  BY <1>1 DEF FuseJobs, FuseLabels
<1>3. /\ new \in Trees /\ tree.nodes \subseteq new.nodes /\ new.mount = [tree.mount EXCEPT ![p] = None]
      /\ ~Mounted(new, p)
  BY <1>1, UnmountFacts
<1>4. \A r \in Paths \ {p} : new.mount[r] = tree.mount[r]
  BY <1>1, <1>3 DEF Trees
<1>5. tree' = new /\ job' = Jobs(t, {p}, TRUE, k) /\ made' = made
  BY DEF ChangeTree
<1> HIDE DEF new, k
<1>6. job'[t] = k
  BY <1>5 DEF Jobs
<1>7. Knows(t)'
  BY <1>1, <1>2, <1>3, <1>5, <1>6 DEF Knows, JobTyped, Seen, Missed, Undone, FuseOps
<1>8. ChangeTree(t, new, p, k)
  BY DEF new, k
<1>9. QED
  BY <1>1, <1>2, <1>3, <1>4, <1>7, <1>8, OnlyPath

LEMMA RollbackKeeps ==
  ASSUME FuseInv, NEW t \in Threads, Rollback(t) \/ Unlink(t) PROVE FuseInv'
<1>1. CASE Mounted(tree, job[t].op.path)
  BY <1>1, UnmountKeeps DEF Rollback, Unlink
<1>2. CASE ~Mounted(tree, job[t].op.path)
  BY <1>2, ReplyKeeps DEF Rollback, Unlink, Errors
<1>3. QED
  BY <1>1, <1>2

LEMMA OtherKeeps ==
  ASSUME FuseInv, NEW t \in Threads, Other(t) PROVE FuseInv'
<1> DEFINE j == job[t]
           p == j.op.path
           k == Reply(j, "ok")
<1>1. /\ j \in FuseJobs /\ p \in Paths /\ j.op \in Ops /\ j.ino <= made /\ job \in [Threads -> FuseJobs]
      /\ j.pc = "mount" /\ tree \in Trees
  BY JobFacts DEF Other, FuseInv
<1>2. PICK op \in {"create", "mkdir"} :
        LET err == MountError(tree, p, EntryOf(op)) IN
        IF err # None THEN FuseLook(t, Reply(j, err)) ELSE ChangeTree(t, Mount(tree, p, EntryOf(op)), p, k)
  BY DEF Other
<1> DEFINE err == MountError(tree, p, EntryOf(op))
<1>3. CASE err # None
  <2>1. FuseLook(t, Reply(j, err)) /\ err \in Errors
    BY <1>2, <1>3, MountErrorFacts DEF Errors
  <2> HIDE DEF err
  <2>2. QED
    BY <1>1, <2>1, ReplyKeeps
<1>4. CASE err = None
  <2>1. ChangeTree(t, Mount(tree, p, EntryOf(op)), p, k)
    BY <1>2, <1>4
  <2> DEFINE new == Mount(tree, p, EntryOf(op))
  <2>2. EntryOf(op) \in Entry
    BY EntryOfFacts
  <2>3. /\ new \in Trees /\ tree.nodes \subseteq new.nodes /\ new.mount = [tree.mount EXCEPT ![p] = EntryOf(op)]
        /\ Mounted(new, p)
    BY <1>1, <2>2, MountFacts
  <2>4. \A r \in Paths \ {p} : new.mount[r] = tree.mount[r]
    BY <1>1, <2>3 DEF Trees
  <2>5. k \in FuseJobs /\ k.pc = "reply" /\ k.op = j.op /\ k.ino = j.ino
    BY <1>1 DEF Reply, FuseJobs, FuseLabels
  <2>6. job' = Jobs(t, {p}, TRUE, k) /\ made' = made
    BY <2>1 DEF ChangeTree
  <2> HIDE DEF new, k
  <2>7. job'[t] = k
    BY <2>6 DEF Jobs
  <2>8. Knows(t)'
    BY <1>1, <2>5, <2>6, <2>7, NothingToKnow
  <2>9. ChangeTree(t, new, p, k)
    BY <2>1 DEF new
  <2>10. QED
    BY <1>1, <2>3, <2>4, <2>5, <2>8, <2>9, OnlyPath
<1>5. QED
  BY <1>3, <1>4

LEMMA RenameKeeps ==
  ASSUME FuseInv, NEW t \in Threads, RenamePath(t) PROVE FuseInv'
<1> DEFINE j == job[t]
           p == j.op.path
           q == j.op.to
           k == [j EXCEPT !.pc = "removed", !.code = "ok"]
<1>1. /\ j \in FuseJobs /\ p \in Paths /\ j.op \in Ops /\ j.ino <= made /\ job \in [Threads -> FuseJobs]
      /\ j.pc = "rename" /\ tree \in Trees /\ Knows(t) /\ (j.op.op = "rename" => q \in Paths)
  BY JobFacts DEF RenamePath, FuseInv
<1>2. j.op.op = "rename" /\ q \in Paths
  BY <1>1 DEF Knows, JobTyped, FuseOps
<1>3. CASE ~Mounted(tree, p) \/ (p # q /\ Mounted(tree, q))
  <2>1. \E c \in {"ENOENT", "EEXIST"} : FuseLook(t, Reply(job[t], c))
    BY <1>3 DEF RenamePath
  <2>2. QED
    BY <1>1, <2>1, ReplyKeeps DEF Errors
<1>4. CASE Mounted(tree, p) /\ ~(p # q /\ Mounted(tree, q))
  <2>1. /\ tree' = Rename(tree, p, q) /\ job' = Jobs(t, {p, q}, TRUE, k)
        /\ odd' = (IF inodes[q] # None THEN odd \cup {q} ELSE odd) /\ UNCHANGED <<inodes, lru, made>>
    BY <1>4 DEF RenamePath
  <2>2. k \in FuseJobs /\ k.pc = "removed" /\ k.op = j.op /\ k.ino = j.ino
    BY <1>1 DEF FuseJobs, FuseLabels
  <2> HIDE DEF k
  <2>3. /\ tree' \in Trees /\ tree.nodes \subseteq tree'.nodes
        /\ \A r \in Paths \ {p, q} : tree'.mount[r] = tree.mount[r]
    BY <1>1, <1>2, <1>4, <2>1, RenameFacts
  <2>4. job'[t] = k
    BY <2>1 DEF Jobs
  <2>5. Knows(t)'
    BY <1>1, <1>2, <2>1, <2>2, <2>4 DEF Knows, JobTyped, Seen, Missed, Undone, FuseOps
  <2>6. odd \subseteq odd' /\ odd' \subseteq Paths
    BY <1>2, <2>1 DEF FuseInv, TableTyped
  <2>7. \A r \in {p, q} : inodes[r] # None => r \in odd' \/ (k.pc = "removed" /\ k.op.path = r)
    BY <2>1, <2>2
  <2>8. {p, q} \in SUBSET Paths /\ UNCHANGED <<inodes, lru, made>> /\ job[t].pc # "removed"
    BY <1>1, <1>2, <2>1
  <2>9. QED
    BY <2>1, <2>2, <2>3, <2>5, <2>6, <2>7, <2>8, TreeKeeps
<1>5. QED
  BY <1>3, <1>4

\* The steps that change the table.
LEMMA NewInodeFacts ==
  ASSUME made \in Nat, NEW k \in Kinds
  PROVE  /\ NewInode(k).id = made + 1 /\ NewInode(k).kind = k /\ NewInode(k) # None
         /\ NewInode(k) \in [id : 1 .. made + 1, kind : Kinds]
<1>1. NewInode(k) \in [id : Nat, kind : Kinds]
  BY DEF NewInode
<1>2. NewInode(k) # None
  BY <1>1, FuseAssumption
<1>3. QED
  BY <1>2 DEF NewInode

LEMMA InsertKeeps ==
  ASSUME FuseInv, NEW t \in Threads, job[t].pc \in {"insert", "new"}, NEW ev,
         Insert(t, job[t].op.path, NewInode(job[t].kind), ev),
         ev.tb \in [Paths -> { [inodes EXCEPT ![job[t].op.path] = NewInode(job[t].kind)][q] : q \in Paths } \cup {None}],
         \A q \in Paths : ev.tb[q] \in {[inodes EXCEPT ![job[t].op.path] = NewInode(job[t].kind)][q], None},
         ev.l \in Seq(Paths), LruInv'
  PROVE  FuseInv'
<1> DEFINE j == job[t]
           p == j.op.path
           ino == NewInode(j.kind)
           tb == [inodes EXCEPT ![p] = ino]
           k == [Reply(j, "ok") EXCEPT !.ino = ino.id]
<1>1. /\ j \in FuseJobs /\ p \in Paths /\ j.op \in Ops /\ made \in Nat /\ Knows(t)
      /\ job \in [Threads -> FuseJobs]
  BY JobFacts
<1>2. /\ inodes' = ev.tb /\ lru' = ev.l /\ made' = made + 1 /\ job' = Jobs(t, {p}, FALSE, k) /\ UNCHANGED tree
      /\ odd' = (IF j.stale THEN odd \cup {p} ELSE odd \ {p}) \cap { q \in Paths : inodes'[q] # None }
  BY DEF Insert
<1>3. ino.id = made + 1 /\ ino.kind = j.kind /\ ino \in Inode' /\ made' \in Nat /\ made <= made'
  <2>1. j.kind \in Kinds
    BY <1>1 DEF FuseJobs
  <2>2. /\ ino.id = made + 1 /\ ino.kind = j.kind /\ ino \in [id : 1 .. made + 1, kind : Kinds]
    BY <1>1, <2>1, NewInodeFacts
  <2> HIDE DEF ino
  <2>3. QED
    BY <1>1, <1>2, <2>2 DEF Inode
<1>4. k \in FuseJobs /\ k.pc = "reply" /\ k.op = j.op /\ k.ino = made'
  BY <1>1, <1>2, <1>3 DEF Reply, FuseJobs, FuseLabels
<1> HIDE DEF k, ino
<1>5. inodes \in [Paths -> Inode \cup {None}] /\ IsFiniteSet(InTable) /\ odd \subseteq Paths
  BY DEF FuseInv, TableTyped
<1>6. /\ \A q \in Paths \ {p} : inodes'[q] \in {inodes[q], None}
      /\ inodes'[p] \in {ino, None}
  BY <1>1, <1>2, <1>5 DEF ino
<1>7. inodes' \in [Paths -> Inode' \cup {None}]
  <2>1. inodes \in [Paths -> Inode' \cup {None}]
    BY <1>1, <1>3, <1>5, InodeGrows
  <2>2. QED
    BY <1>1, <1>2, <1>3, <1>6, <2>1
<1>8. IsFiniteSet(InTable')
  <2>1. IsFiniteSet(InTable \cup {p})
    BY <1>5, FS_AddElement
  <2>2. InTable' \subseteq InTable \cup {p}
    BY <1>6 DEF InTable
  <2>3. QED
    BY <2>1, <2>2, FS_Subset
<1>9. TableTyped'
  BY <1>1, <1>2, <1>3, <1>5, <1>7, <1>8 DEF TableTyped
<1>10. job'[t] = k
  BY <1>2 DEF Jobs
<1>11. Knows(t)'
  BY <1>1, <1>3, <1>4, <1>10, NothingToKnow
<1>12. \A q \in Paths \ {p} : inodes'[q] # None => (q \in odd <=> q \in odd')
  BY <1>2
<1>13. inodes'[p] # None => p \in odd' \/ IsOfKind(p, inodes'[p].kind)
  <2>1. CASE j.stale
    BY <1>1, <1>2, <2>1
  <2>2. CASE ~j.stale
    BY <1>1, <1>3, <1>6, <2>2 DEF Knows, Seen
  <2>3. QED
    BY <2>1, <2>2
<1>14. QED
  BY <1>1, <1>2, <1>3, <1>4, <1>6, <1>9, <1>11, <1>12, <1>13, TableKeeps

\* An insertion that leaves the list alone.
LEMMA InsertBelowKeeps ==
  ASSUME FuseInv, NEW t \in Threads, job[t].pc \in {"insert", "new"},
         Insert(t, job[t].op.path, NewInode(job[t].kind),
                [tb |-> [inodes EXCEPT ![job[t].op.path] = NewInode(job[t].kind)], l |-> lru])
  PROVE  FuseInv'
<1> DEFINE p == job[t].op.path
           ino == NewInode(job[t].kind)
           ev == [tb |-> [inodes EXCEPT ![p] = ino], l |-> lru]
<1>1. p \in Paths /\ lru \in Seq(Paths) /\ inodes \in [Paths -> Inode \cup {None}] /\ LruInv /\ made \in Nat
      /\ job[t] \in FuseJobs
  BY JobFacts DEF FuseInv, TableTyped
<1>2. ev.tb = [inodes EXCEPT ![p] = ino] /\ ev.l = lru
  OBVIOUS
<1>3. ino # None
  <2>1. job[t].kind \in Kinds
    BY <1>1 DEF FuseJobs
  <2>2. QED
    BY <1>1, <2>1, NewInodeFacts
<1>4. inodes' = ev.tb /\ lru' = lru
  BY DEF Insert
<1> HIDE DEF ev, ino
<1>5. \A i \in 1 .. Len(lru) : lru[i] \in Paths
  BY <1>1, ElementOfSeq
<1>6. LruInv'
  BY <1>1, <1>2, <1>3, <1>4, <1>5 DEF LruInv, LruOnce, LruInTable, LruBounded
<1>7. ev.tb \in [Paths -> { [inodes EXCEPT ![p] = ino][q] : q \in Paths } \cup {None}]
  BY <1>1, <1>2
<1>8. \A q \in Paths : ev.tb[q] \in {[inodes EXCEPT ![p] = ino][q], None}
  BY <1>2
<1>9. Insert(t, p, ino, ev)
  BY DEF ev, ino
<1>10. QED
  BY <1>1, <1>2, <1>6, <1>7, <1>8, <1>9, InsertKeeps DEF ino

\* The insertion of a Lookup at the root, with the eviction.
LEMMA InsertRootKeeps ==
  ASSUME FuseInv, NEW t \in Threads, job[t].pc = "insert", AtRoot(job[t].op.path), inodes[job[t].op.path] = None,
         Insert(t, job[t].op.path, NewInode(job[t].kind),
                Evicted([inodes EXCEPT ![job[t].op.path] = NewInode(job[t].kind)], <<job[t].op.path>> \o lru))
  PROVE  FuseInv'
<1> DEFINE p == job[t].op.path
           ino == NewInode(job[t].kind)
           tb == [inodes EXCEPT ![p] = ino]
           l == <<p>> \o lru
           ev == Evicted(tb, l)
<1>1. p \in Paths /\ lru \in Seq(Paths) /\ inodes \in [Paths -> Inode \cup {None}] /\ LruInv /\ made \in Nat
      /\ job[t] \in FuseJobs /\ IsFiniteSet(InTable)
  BY JobFacts DEF FuseInv, TableTyped
<1>2. ino # None
  <2>1. job[t].kind \in Kinds
    BY <1>1 DEF FuseJobs
  <2>2. QED
    BY <1>1, <2>1, NewInodeFacts
<1> HIDE DEF ino
<1>3. \A i \in 1 .. Len(lru) : lru[i] \in Paths /\ lru[i] # p
  BY <1>1, ElementOfSeq DEF LruInv, LruInTable
<1>4. /\ l \in Seq(Paths) /\ Len(l) = Len(lru) + 1 /\ Len(lru) \in Nat
      /\ \A i \in 1 .. Len(lru) + 1 : l[i] = IF i = 1 THEN p ELSE lru[i - 1]
      /\ \A i, k \in 1 .. Len(lru) + 1 : l[i] = l[k] => i = k
  BY <1>1, <1>3, InFront DEF LruInv, LruOnce
<1>5. IsFiniteSet({ q \in Paths : tb[q] # None })
  <2>1. IsFiniteSet(InTable \cup {p})
    BY <1>1, FS_AddElement
  <2>2. { q \in Paths : tb[q] # None } \subseteq InTable \cup {p}
    BY <1>1 DEF InTable
  <2>3. QED
    BY <2>1, <2>2, FS_Subset
<1>6. tb[p] # None /\ \A i \in 1 .. Len(lru) : tb[lru[i]] # None /\ AtRoot(lru[i])
  BY <1>1, <1>2, <1>3 DEF LruInv, LruInTable
<1> HIDE DEF tb, l
<1>7. \A i \in 1 .. Len(l) : tb[l[i]] # None /\ AtRoot(l[i])
  <2> TAKE i \in 1 .. Len(l)
  <2>1. CASE i = 1
    BY <1>4, <1>6, <2>1
  <2>2. CASE i # 1
    <3>1. i - 1 \in 1 .. Len(lru)
      BY <1>4, <2>2
    <3>2. l[i] = lru[i - 1]
      BY <1>4, <2>2
    <3>3. QED
      BY <1>6, <3>1, <3>2
  <2>3. QED
    BY <2>1, <2>2
<1>8. \A i, k \in 1 .. Len(l) : l[i] = l[k] => i = k
  BY <1>4
<1>9. /\ ev.l \in Seq(Paths) /\ Len(ev.l) <= InodeCap
      /\ \A i, k \in 1 .. Len(ev.l) : ev.l[i] = ev.l[k] => i = k
      /\ \A i \in 1 .. Len(ev.l) : ev.tb[ev.l[i]] # None /\ AtRoot(ev.l[i])
      /\ ev.tb \in [Paths -> { tb[q] : q \in Paths } \cup {None}]
      /\ \A q \in Paths : ev.tb[q] \in {tb[q], None}
  BY <1>4, <1>5, <1>7, <1>8, EvictedFacts
<1>10. Insert(t, p, ino, ev)
  BY DEF ev, ino, tb, l
<1> HIDE DEF ev
<1>11. inodes' = ev.tb /\ lru' = ev.l
  BY <1>10 DEF Insert
<1>12. LruInv'
  BY <1>9, <1>11 DEF LruInv, LruOnce, LruInTable, LruBounded
<1>13. /\ ev.tb \in [Paths -> { [inodes EXCEPT ![p] = NewInode(job[t].kind)][q] : q \in Paths } \cup {None}]
       /\ \A q \in Paths : ev.tb[q] \in {[inodes EXCEPT ![p] = NewInode(job[t].kind)][q], None}
  BY <1>9 DEF tb, ino
<1>14. QED
  BY <1>9, <1>10, <1>12, <1>13, InsertKeeps DEF ino

LEMMA LookupInsertKeeps ==
  ASSUME FuseInv, NEW t \in Threads, LookupInsert(t) PROVE FuseInv'
<1> DEFINE j == job[t]
           p == j.op.path
           k == [Reply(j, "ok") EXCEPT !.ino = inodes[p].id]
<1>1. /\ j \in FuseJobs /\ p \in Paths /\ j.op \in Ops /\ made \in Nat /\ j.pc = "insert"
      /\ job \in [Threads -> FuseJobs]
  BY JobFacts DEF LookupInsert
<1>2. CASE ~AtRoot(p)
  BY <1>1, <1>2, InsertBelowKeeps DEF LookupInsert
<1>3. CASE AtRoot(p) /\ inodes[p] = None
  BY <1>1, <1>3, InsertRootKeeps DEF LookupInsert
<1>4. CASE AtRoot(p) /\ inodes[p] # None
  <2>1. lru' = ToFront(p) /\ job' = [job EXCEPT ![t] = k] /\ UNCHANGED <<tree, inodes, made, odd>>
    BY <1>4 DEF LookupInsert
  <2>2. inodes[p].id \in Nat /\ inodes[p].id <= made /\ lru \in Seq(Paths) /\ LruInv
    BY <1>1, <1>4 DEF FuseInv, TableTyped, Inode
  <2>3. k \in FuseJobs /\ k.pc = "reply" /\ k.op = j.op /\ k.ino <= made
    BY <1>1, <2>2 DEF Reply, FuseJobs, FuseLabels
  <2> HIDE DEF k
  <2>4. job'[t] = k /\ made' = made
    BY <1>1, <2>1
  <2>5. Knows(t)'
    BY <1>1, <2>3, <2>4, NothingToKnow
  <2>6. lru' \in Seq(Paths) /\ LruInv'
    BY <1>1, <2>1, <2>2, ToFrontFacts
  <2>7. QED
    BY <1>1, <2>1, <2>3, <2>5, <2>6, LookKeeps
<1>5. QED
  BY <1>2, <1>3, <1>4

LEMMA MakeInsertKeeps ==
  ASSUME FuseInv, NEW t \in Threads, MakeInsert(t) PROVE FuseInv'
  BY InsertBelowKeeps DEF MakeInsert

LEMMA HandleRemoveKeeps ==
  ASSUME FuseInv, NEW t \in Threads, HandleRemove(t) PROVE FuseInv'
<1> DEFINE j == job[t]
           p == j.op.path
           k == To(j, "reply")
<1>1. /\ j \in FuseJobs /\ p \in Paths /\ j.op \in Ops /\ made \in Nat /\ j.pc = "removed"
      /\ job \in [Threads -> FuseJobs] /\ j.ino <= made
  BY JobFacts DEF HandleRemove
<1>2. /\ inodes' = [inodes EXCEPT ![p] = None] /\ lru' = Without(p) /\ odd' = odd \ {p}
      /\ job' = Jobs(t, {p}, FALSE, k) /\ UNCHANGED <<tree, made>>
  BY DEF HandleRemove, Removed
<1>3. /\ inodes \in [Paths -> Inode \cup {None}] /\ IsFiniteSet(InTable) /\ odd \subseteq Paths
      /\ lru \in Seq(Paths) /\ LruInv
  BY DEF FuseInv, TableTyped
<1>4. /\ lru' \in Seq(Paths) /\ Len(lru') <= InodeCap
      /\ \A i \in 1 .. Len(lru') : lru'[i] # p /\ \E m \in 1 .. Len(lru) : lru'[i] = lru[m]
      /\ \A i, m \in 1 .. Len(lru') : lru'[i] = lru'[m] => i = m
  <2>1. /\ Without(p) \in Seq(Paths)
        /\ Len(Without(p)) = IF InLru(p) THEN Len(lru) - 1 ELSE Len(lru)
        /\ \A i \in 1 .. Len(Without(p)) : Without(p)[i] # p /\ \E m \in 1 .. Len(lru) : Without(p)[i] = lru[m]
        /\ \A i, m \in 1 .. Len(Without(p)) : Without(p)[i] = Without(p)[m] => i = m
    BY <1>1, <1>3, WithoutFacts DEF LruInv
  <2>2. Len(lru) \in Nat /\ Len(lru) <= InodeCap /\ InodeCap \in Nat
    BY <1>3, FuseAssumption DEF LruInv, LruBounded
  <2>3. Len(Without(p)) <= InodeCap
    BY <2>1, <2>2
  <2>4. QED
    BY <1>2, <2>1, <2>3
<1>5. \A i \in 1 .. Len(lru') : lru'[i] \in Paths
  BY <1>4, ElementOfSeq
<1>6. LruInv'
  BY <1>2, <1>3, <1>4, <1>5 DEF LruInv, LruOnce, LruInTable, LruBounded
<1>7. TableTyped'
  <2>1. InTable' \subseteq InTable
    BY <1>2, <1>3 DEF InTable
  <2>2. IsFiniteSet(InTable')
    BY <1>3, <2>1, FS_Subset
  <2>3. inodes' \in [Paths -> Inode' \cup {None}]
    BY <1>2, <1>3 DEF Inode
  <2>4. QED
    BY <1>1, <1>2, <1>3, <1>4, <2>2, <2>3 DEF TableTyped
<1>8. k \in FuseJobs /\ k.pc = "reply" /\ k.op = j.op /\ k.ino = j.ino
  BY <1>1 DEF To, FuseJobs, FuseLabels
<1> HIDE DEF k
<1>9. job'[t] = k
  BY <1>2 DEF Jobs
<1>10. Knows(t)'
  BY <1>1, <1>2, <1>8, <1>9, NothingToKnow
<1>11. \A q \in Paths \ {p} : inodes'[q] \in {inodes[q], None} /\ (inodes'[q] # None => (q \in odd <=> q \in odd'))
  BY <1>2, <1>3
<1>12. inodes'[p] = None /\ made <= made'
  BY <1>1, <1>2, <1>3
<1>13. QED
  BY <1>1, <1>2, <1>6, <1>7, <1>8, <1>10, <1>11, <1>12, TableKeeps

\* Every step of a handler keeps the invariant, and so does every other step.
LEMMA FuseServeKeeps ==
  ASSUME FuseInv, NEW t \in Threads, FuseServe(t) PROVE FuseInv'
<1>1. CASE FuseEnd(t)
  BY <1>1, FuseEndKeeps
<1>2. CASE Lookup(t)
  BY <1>2, LookupKeeps
<1>3. CASE Hit(t)
  BY <1>3, HitKeeps
<1>4. CASE LookupStat(t)
  BY <1>4, LookupStatKeeps
<1>5. CASE LookupInsert(t)
  BY <1>5, LookupInsertKeeps
<1>6. CASE Make(t)
  BY <1>6, MakeKeeps
<1>7. CASE Open(t) \/ Restat(t)
  BY <1>7, OpenKeeps
<1>8. CASE MakeInsert(t)
  BY <1>8, MakeInsertKeeps
<1>9. CASE Rollback(t) \/ Unlink(t)
  BY <1>9, RollbackKeeps
<1>10. CASE RenamePath(t)
  BY <1>10, RenameKeeps
<1>11. CASE Other(t)
  BY <1>11, OtherKeeps
<1>12. CASE HandleRemove(t)
  BY <1>12, HandleRemoveKeeps
<1>13. QED
  BY <1>1, <1>2, <1>3, <1>4, <1>5, <1>6, <1>7, <1>8, <1>9, <1>10, <1>11, <1>12 DEF FuseServe

LEMMA NextFuseInv == FuseInv /\ [FuseNext]_fuseVars => FuseInv'
<1> SUFFICES ASSUME FuseInv, [FuseNext]_fuseVars PROVE FuseInv'
  OBVIOUS
<1>1. CASE FuseNext
  <2>1. PICK t \in Threads : FuseServe(t) \/ \E o \in Ops : FuseBegin(t, o)
    BY <1>1 DEF FuseNext
  <2>2. QED
    BY <2>1, FuseServeKeeps, FuseBeginKeeps
<1>2. CASE UNCHANGED fuseVars
  BY <1>2 DEF fuseVars, FuseInv, TableTyped, Inode, InTable, LruInv, LruOnce, LruInTable, LruBounded,
              InodesAgree, Knows, JobTyped, Seen, Missed, Undone, IsOfKind
<1>3. QED
  BY <1>1, <1>2

\* The inductive invariant of the inode table.
LEMMA FuseInvHolds == FuseSpec => []FuseInv
<1>1. QED
  BY InitFuseInv, NextFuseInv, PTL DEF FuseSpec

LEMMA FuseInvGives == FuseInv => LruExact
<1> SUFFICES ASSUME FuseInv PROVE LruExact
  OBVIOUS
<1>1. ASSUME NEW t \in Threads PROVE job[t].ino \in 0 .. made /\ job[t].kind \in Kinds
  <2>1. job[t] \in FuseJobs /\ job[t].ino <= made /\ made \in Nat
    BY JobFacts
  <2>2. job[t].ino \in Nat /\ job[t].kind \in Kinds
    BY <2>1 DEF FuseJobs
  <2>3. QED
    BY <2>1, <2>2
<1>2. InodesTyped
  BY <1>1 DEF FuseInv, TableTyped, InodesTyped
<1>3. QED
  BY <1>2 DEF FuseInv, LruInv, LruOnce, LruInTable, LruBounded, LruExact

\* The types of the inode table, and its LRU list: paths of the table, put there by a
\* Lookup at the root, each once and at most inodeCap of them (rootNode.Lookup, lruMoveToFront,
\* evictOldest and handleEvent keep map and list in step).
THEOREM FuseLruExact == FuseSpec => []LruExact
<1>1. QED
  BY FuseInvHolds, FuseInvGives, PTL

\* An inode in the table is of the kind its path has, up to a removal whose event is yet
\* to be handled and the races that make it odd.
THEOREM FuseInodesAgree == FuseSpec => []InodesAgree
<1>1. FuseInv => InodesAgree
  BY DEF FuseInv
<1>2. QED
  BY <1>1, FuseInvHolds, PTL

\* What a step does to an inode of the table: only an insertion replaces one, and the one
\* of a Lookup that has not been raced finds none.
LEMMA InsertReplaces ==
  ASSUME FuseInv, NEW t \in Threads, NEW p \in Paths, LookupInsert(t) \/ MakeInsert(t),
         inodes[p] # None, inodes'[p] # None, inodes'[p] # inodes[p]
  PROVE  p \in odd \/ (job[t].pc \in {"insert", "new"} /\ job'[t].pc = "reply" /\ job[t].op.path = p /\ job[t].changed)
<1> DEFINE q == job[t].op.path
           ino == NewInode(job[t].kind)
<1>1. /\ job[t] \in FuseJobs /\ q \in Paths /\ Knows(t) /\ inodes \in [Paths -> Inode \cup {None}]
      /\ job \in [Threads -> FuseJobs] /\ lru \in Seq(Paths) /\ LruInv
  BY JobFacts DEF FuseInv, TableTyped
<1>2. job[t].pc \in {"insert", "new"}
  BY DEF LookupInsert, MakeInsert
<1>3. PICK ev : Insert(t, q, ino, ev) /\ \A r \in Paths : ev.tb[r] \in {[inodes EXCEPT ![q] = ino][r], None}
  <2>1. CASE Insert(t, q, ino, [tb |-> [inodes EXCEPT ![q] = ino], l |-> lru])
    <3> DEFINE e == [tb |-> [inodes EXCEPT ![q] = ino], l |-> lru]
    <3>1. e.tb = [inodes EXCEPT ![q] = ino]
      OBVIOUS
    <3>2. Insert(t, q, ino, e)
      BY <2>1
    <3> HIDE DEF e
    <3>3. QED
      BY <3>1, <3>2
  <2>2. CASE Insert(t, q, ino, Evicted([inodes EXCEPT ![q] = ino], <<q>> \o lru))
    <3>1. \A r \in Paths : Evicted([inodes EXCEPT ![q] = ino], <<q>> \o lru).tb[r] \in {[inodes EXCEPT ![q] = ino][r], None}
      BY DEF Evicted
    <3>2. QED
      BY <2>2, <3>1
  <2>3. CASE UNCHANGED inodes
    BY <2>3
  <2>4. QED
    BY <2>1, <2>2, <2>3 DEF LookupInsert, MakeInsert
<1>4. inodes' = ev.tb /\ job'[t].pc = "reply"
  <2>1. inodes' = ev.tb /\ job' = Jobs(t, {q}, FALSE, [Reply(job[t], "ok") EXCEPT !.ino = ino.id])
    BY <1>3 DEF Insert
  <2>2. job'[t] = [Reply(job[t], "ok") EXCEPT !.ino = ino.id]
    BY <2>1 DEF Jobs
  <2>3. QED
    BY <1>1, <2>1, <2>2 DEF Reply, FuseJobs
<1>5. p = q
  BY <1>1, <1>3, <1>4
<1>6. job[t].changed \/ p \in odd
  BY <1>1, <1>2, <1>5 DEF Knows, Missed
<1>7. QED
  BY <1>2, <1>4, <1>5, <1>6

\* The inode of a path is stable: what the table has for it is replaced only by an
\* insertion that raced with another change of the path, or that found an odd one.
THEOREM FuseStableInodes == FuseSpec => StableInodes
<1> DEFINE Stable == \A p \in Paths : inodes[p] # None /\ inodes'[p] # None /\ inodes'[p] # inodes[p] =>
              p \in odd \/ \E t \in Threads : /\ job[t].pc \in {"insert", "new"} /\ job'[t].pc = "reply"
                                              /\ job[t].op.path = p /\ job[t].changed
<1>1. FuseInv /\ [FuseNext]_fuseVars => [Stable]_fuseVars
  <2> SUFFICES ASSUME FuseInv, FuseNext, NEW p \in Paths,
                      inodes[p] # None, inodes'[p] # None, inodes'[p] # inodes[p]
               PROVE  p \in odd \/ \E t \in Threads : /\ job[t].pc \in {"insert", "new"} /\ job'[t].pc = "reply"
                                                      /\ job[t].op.path = p /\ job[t].changed
    OBVIOUS
  <2>1. PICK t \in Threads : FuseServe(t) \/ \E o \in Ops : FuseBegin(t, o)
    BY DEF FuseNext
  <2>2. ASSUME HandleRemove(t) PROVE FALSE
    <3>1. inodes \in [Paths -> Inode \cup {None}] /\ inodes' = [inodes EXCEPT ![job[t].op.path] = None]
      BY <2>2 DEF FuseInv, TableTyped, HandleRemove, Removed
    <3>2. QED
      BY <3>1
  <2>3. LookupInsert(t) \/ MakeInsert(t)
    BY <2>1, <2>2 DEF FuseServe, FuseBegin, FuseEnd, Lookup, Hit, LookupStat, Make, Open, Restat, Rollback, Unlink,
                      RenamePath, Other, FuseLook, ChangeTree, inodeTable
  <2>4. QED
    BY <2>3, InsertReplaces
<1>2. QED
  BY <1>1, FuseInvHolds, PTL DEF FuseSpec, StableInodes

\* A step of u, which takes its handler to k and the others nowhere.
Moves(u, k) == job'[u] = k /\ \A t \in Threads \ {u} : job'[t].pc = job[t].pc

LEMMA LookMoves ==
  ASSUME job \in [Threads -> FuseJobs], NEW u \in Threads, NEW k, FuseLook(u, k) PROVE Moves(u, k)
  BY DEF FuseLook, Moves

LEMMA TreeMoves ==
  ASSUME job \in [Threads -> FuseJobs], NEW u \in Threads, NEW k, NEW ps, job' = Jobs(u, ps, TRUE, k)
  PROVE  Moves(u, k)
<1>1. job'[u] = k
  BY DEF Jobs
<1>2. ASSUME NEW t \in Threads \ {u} PROVE job'[t].pc = job[t].pc
  BY <1>2 DEF Jobs, FuseJobs
<1>3. QED
  BY <1>1, <1>2 DEF Moves

LEMMA TableMoves ==
  ASSUME job \in [Threads -> FuseJobs], NEW u \in Threads, NEW k, NEW ps, job' = Jobs(u, ps, FALSE, k)
  PROVE  Moves(u, k)
<1>1. job'[u] = k
  BY DEF Jobs
<1>2. ASSUME NEW t \in Threads \ {u} PROVE job'[t].pc = job[t].pc
  BY <1>2 DEF Jobs, FuseJobs
<1>3. QED
  BY <1>1, <1>2 DEF Moves

\* The only steps that can answer "error" are the ones that follow a failed Mount.
LEMMA ErrorsMove ==
  ASSUME FuseInv, NEW u \in Threads, FuseServe(u) \/ \E o \in Ops : FuseBegin(u, o)
  PROVE  \E k : /\ Moves(u, k)
                /\ Rollback(u) \/ HandleRemove(u) \/ job[u].pc = "reply" \/ k.pc # "reply" \/ k.code # "error"
<1> DEFINE j == job[u]
           p == j.op.path
<1>1. job \in [Threads -> FuseJobs] /\ j \in FuseJobs /\ Stat(tree, p).err \in {None, "ENOENT"}
  BY JobFacts, StatKind DEF FuseInv
<1> DEFINE Goal == \E k : /\ Moves(u, k)
                          /\ Rollback(u) \/ HandleRemove(u) \/ j.pc = "reply" \/ k.pc # "reply" \/ k.code # "error"
<1>2. \A l \in FuseLabels \ {"reply"} : To(j, l).pc # "reply"
  BY <1>1 DEF To, FuseJobs
<1>3. \A c \in {"ok"} \cup Errors : Reply(j, c).code # "error"
  BY <1>1 DEF Reply, FuseJobs, Errors
<1>4. ASSUME NEW c \in {"ok"} \cup Errors, FuseLook(u, Reply(j, c)) PROVE Goal
  BY <1>1, <1>3, <1>4, LookMoves
<1>5. CASE FuseEnd(u)
  <2>1. FuseLook(u, FuseIdle) /\ job[u].pc = "reply"
    BY <1>5 DEF FuseEnd
  <2>2. QED
    BY <1>1, <2>1, LookMoves
<1>6. CASE Lookup(u)
  <2> DEFINE k == IF inodes[p] = None THEN [j EXCEPT !.pc = "stat", !.changed = FALSE]
                  ELSE [j EXCEPT !.pc = "hit", !.ino = inodes[p].id]
  <2>1. job' = [job EXCEPT ![u] = k]
    BY <1>6 DEF Lookup
  <2>2. k.pc # "reply"
    BY <1>1 DEF FuseJobs
  <2> HIDE DEF k
  <2>3. Moves(u, k)
    BY <1>1, <2>1 DEF Moves
  <2>4. QED
    BY <2>2, <2>3
<1>7. CASE Hit(u)
  <2> DEFINE s == Stat(tree, p)
             c == IF s.err = None THEN "ok" ELSE s.err
  <2>1. FuseLook(u, Reply(j, c))
    BY <1>7 DEF Hit
  <2>2. c \in {"ok"} \cup Errors
    BY <1>1 DEF Errors
  <2> HIDE DEF c
  <2>3. QED
    BY <1>4, <2>1, <2>2
<1>8. CASE LookupStat(u)
  <2> DEFINE s == Stat(tree, p)
             k == [j EXCEPT !.pc = "insert", !.kind = s.value.kind, !.stale = FALSE]
  <2>1. CASE s.err # None
    <3>1. FuseLook(u, Reply(j, s.err)) /\ s.err \in Errors
      BY <1>1, <1>8, <2>1 DEF LookupStat, Errors
    <3> HIDE DEF s
    <3>2. QED
      BY <1>4, <3>1
  <2>2. CASE s.err = None
    <3>1. FuseLook(u, k)
      BY <1>8, <2>2 DEF LookupStat
    <3>2. k.pc # "reply"
      BY <1>1 DEF FuseJobs
    <3> HIDE DEF k
    <3>3. QED
      BY <1>1, <3>1, <3>2, LookMoves
  <2>3. QED
    BY <2>1, <2>2
<1>9. CASE LookupInsert(u) \/ MakeInsert(u)
  <2>1. ASSUME NEW i, job' = [job EXCEPT ![u] = [Reply(j, "ok") EXCEPT !.ino = i]] \/ job' = Jobs(u, {p}, FALSE, [Reply(j, "ok") EXCEPT !.ino = i])
        PROVE  Goal
    <3> DEFINE k == [Reply(j, "ok") EXCEPT !.ino = i]
    <3>1. k.code # "error"
      BY <1>1 DEF Reply, FuseJobs
    <3> HIDE DEF k
    <3>2. job' = [job EXCEPT ![u] = k] \/ job' = Jobs(u, {p}, FALSE, k)
      BY <2>1 DEF k
    <3>3. Moves(u, k)
      <4>1. CASE job' = [job EXCEPT ![u] = k]
        BY <1>1, <4>1 DEF Moves
      <4>2. CASE job' = Jobs(u, {p}, FALSE, k)
        BY <1>1, <4>2, TableMoves
      <4>3. QED
        BY <3>2, <4>1, <4>2
    <3>4. QED
      BY <3>1, <3>3
  <2> HIDE DEF Goal
  <2>2. \E i : job' = [job EXCEPT ![u] = [Reply(j, "ok") EXCEPT !.ino = i]] \/ job' = Jobs(u, {p}, FALSE, [Reply(j, "ok") EXCEPT !.ino = i])
    BY <1>9 DEF LookupInsert, MakeInsert, Insert
  <2>3. Goal
    BY <2>1, <2>2
  <2>4. QED
    BY <2>3 DEF Goal
<1>10. CASE Make(u)
  <2> DEFINE k == [j EXCEPT !.pc = IF j.op.op = "create" THEN "open" ELSE "restat",
                            !.kind = KindOf(j.op.op), !.changed = FALSE, !.stale = FALSE]
  <2> DEFINE err == MountError(tree, p, EntryOf(j.op.op))
  <2>1. CASE err # None
    <3>1. FuseLook(u, Reply(j, err)) /\ err \in Errors
      BY <1>10, <2>1, MountErrorFacts DEF Make, Errors
    <3> HIDE DEF err
    <3>2. QED
      BY <1>4, <3>1
  <2>2. CASE err = None
    <3>1. job' = Jobs(u, {p}, TRUE, k)
      BY <1>10, <2>2 DEF Make, ChangeTree
    <3>2. k.pc # "reply"
      BY <1>1 DEF FuseJobs
    <3> HIDE DEF k
    <3>3. QED
      BY <1>1, <3>1, <3>2, TreeMoves
  <2>3. QED
    BY <2>1, <2>2
<1>11. CASE Open(u) \/ Restat(u)
  <2>1. PICK l \in {"restat", "new", "rollback"} : FuseLook(u, To(j, l))
    BY <1>11 DEF Open, Restat
  <2>2. QED
    BY <1>1, <1>2, <2>1, LookMoves DEF FuseLabels
<1>12. CASE Rollback(u)
  <2>1. CASE ~Mounted(tree, p)
    BY <1>1, <1>12, <2>1, LookMoves DEF Rollback
  <2>2. CASE Mounted(tree, p)
    <3> DEFINE k == [j EXCEPT !.pc = "removed", !.code = "error"]
    <3>1. job' = Jobs(u, {p}, TRUE, k)
      BY <1>12, <2>2 DEF Rollback, ChangeTree
    <3> HIDE DEF k
    <3>2. QED
      BY <1>1, <1>12, <3>1, TreeMoves
  <2>3. QED
    BY <2>1, <2>2
<1>13. CASE Unlink(u) \/ RenamePath(u)
  <2> DEFINE k == [j EXCEPT !.pc = "removed", !.code = "ok"]
  <2>1. CASE \E c \in {"ENOENT", "EEXIST"} : FuseLook(u, Reply(j, c))
    BY <1>4, <2>1 DEF Errors
  <2>2. CASE \E ps : job' = Jobs(u, ps, TRUE, k)
    <3>1. k.pc # "reply"
      BY <1>1 DEF FuseJobs
    <3> HIDE DEF k
    <3>2. QED
      BY <1>1, <2>2, <3>1, TreeMoves
  <2>3. QED
    BY <1>13, <2>1, <2>2 DEF Unlink, RenamePath, ChangeTree
<1>14. CASE Other(u)
  <2>1. CASE \E c \in Errors : FuseLook(u, Reply(j, c))
    BY <1>4, <2>1
  <2>2. CASE job' = Jobs(u, {p}, TRUE, Reply(j, "ok"))
    BY <1>1, <1>3, <2>2, TreeMoves
  <2>3. PICK op \in {"create", "mkdir"} :
          LET err == MountError(tree, p, EntryOf(op)) IN
          IF err # None THEN FuseLook(u, Reply(j, err)) ELSE job' = Jobs(u, {p}, TRUE, Reply(j, "ok"))
    BY <1>14 DEF Other, ChangeTree
  <2>4. MountError(tree, p, EntryOf(op)) \in Errors \cup {None}
    BY MountErrorFacts DEF Errors
  <2>5. QED
    BY <2>1, <2>2, <2>3, <2>4
<1>15. CASE HandleRemove(u)
  <2>1. job' = Jobs(u, {p}, FALSE, To(j, "reply"))
    BY <1>15 DEF HandleRemove
  <2>2. QED
    BY <1>1, <1>15, <2>1, TableMoves
<1>16. ASSUME NEW o \in Ops, FuseBegin(u, o) PROVE Goal
  <2> DEFINE k == [FuseIdle EXCEPT !.pc = o.op, !.op = o]
  <2>1. job' = [job EXCEPT ![u] = k]
    BY <1>16 DEF FuseBegin
  <2>2. k.pc # "reply"
    BY OpFacts DEF FuseIdle, FuseOps
  <2> HIDE DEF k
  <2>3. Moves(u, k)
    BY <1>1, <2>1 DEF Moves
  <2>4. QED
    BY <2>2, <2>3
<1> HIDE DEF Goal
<1>17. Goal
  <2>1. CASE FuseServe(u)
    BY <2>1, <1>5, <1>6, <1>7, <1>8, <1>9, <1>10, <1>11, <1>12, <1>13, <1>14, <1>15 DEF FuseServe, Goal
  <2>2. QED
    BY <1>16, <2>1
<1>18. QED
  BY <1>17 DEF Goal

\* A Create, Mkdir or Symlink that fails after its Mount has taken it back: nothing is
\* mounted there when it answers, unless another changed the path after the Mount.
THEOREM FuseFailedMakeLeavesNothing == FuseSpec => FailedMakeLeavesNothing
<1> DEFINE Left == \A t \in Threads :
              /\ job[t].op.op \in {"create", "mkdir", "symlink"} /\ ~job[t].changed
              /\ job[t].pc # "reply" /\ job'[t].pc = "reply" /\ job'[t].code = "error"
              => ~Mounted(tree', job[t].op.path)
<1>1. FuseInv /\ [FuseNext]_fuseVars => [Left]_fuseVars
  <2> SUFFICES ASSUME FuseInv, FuseNext, NEW t \in Threads,
                      job[t].op.op \in {"create", "mkdir", "symlink"}, ~job[t].changed,
                      job[t].pc # "reply", job'[t].pc = "reply", job'[t].code = "error"
               PROVE  ~Mounted(tree', job[t].op.path)
    OBVIOUS
  <2>1. PICK u \in Threads : FuseServe(u) \/ \E o \in Ops : FuseBegin(u, o)
    BY DEF FuseNext
  <2>2. PICK k : /\ Moves(u, k)
                 /\ Rollback(u) \/ HandleRemove(u) \/ job[u].pc = "reply" \/ k.pc # "reply" \/ k.code # "error"
    BY <2>1, ErrorsMove
  <2>3. u = t /\ job'[t] = k /\ (Rollback(t) \/ HandleRemove(t))
    BY <2>2 DEF Moves
  <2>4. job \in [Threads -> FuseJobs] /\ Knows(t) /\ job[t] \in FuseJobs
    BY JobFacts
  <2>5. CASE Rollback(t)
    <3>1. CASE Mounted(tree, job[t].op.path)
      <4> DEFINE m == [job[t] EXCEPT !.pc = "removed", !.code = "error"]
      <4>1. job' = Jobs(t, {job[t].op.path}, TRUE, m)
        BY <2>5, <3>1 DEF Rollback, ChangeTree
      <4>2. m.pc = "removed"
        BY <2>4 DEF FuseJobs
      <4> HIDE DEF m
      <4>3. job'[t] = m
        BY <2>4, <4>1, TreeMoves DEF Moves
      <4>4. QED
        BY <4>2, <4>3
    <3>2. CASE ~Mounted(tree, job[t].op.path)
      BY <2>5, <3>2 DEF Rollback, FuseLook
    <3>3. QED
      BY <3>1, <3>2
  <2>6. CASE HandleRemove(t)
    BY <2>4, <2>6 DEF HandleRemove, Knows, Undone
  <2>7. QED
    BY <2>3, <2>5, <2>6
<1>2. QED
  BY <1>1, FuseInvHolds, PTL DEF FuseSpec, FailedMakeLeavesNothing

-----------------------------------------------------------------------------
\* The state of a handler.
DavCodes == {"", "ok", "304", "403", "412", "429"} \cup Errors
DavJobs == [pc : Steps, req : { r \in Request : HasHeaders(r) }, at : Paths, left : Nat, work : SUBSET [at : Paths, left : Nat],
            stat : Entry, body : Data \cup {Empty}, found : SUBSET Paths, code : DavCodes,
            dirty : BOOLEAN, before : Trees \cup {None}, owes : SUBSET Paths]

\* Which requests come to which steps.
CopySteps == {"noneMatch", "overwrite", "clear", "clearDst", "source", "sourceData", "target"}
FindSteps == {"PROPFIND", "findStat", "findRead", "findSet", "list"}
OfOp(j) ==
  /\ j.pc \in Methods => j.req.op = j.pc
  /\ j.pc = "getType" => j.req.op = "GET"
  /\ j.pc = "headTag" => j.req.op = "HEAD"
  /\ j.pc = "match" => j.req.op \in {"PUT", "COPY", "MOVE"}
  /\ j.pc \in {"write", "writeBlob"} => j.req.op = "PUT"
  /\ j.pc \in CopySteps \cup {"invalidateDst"} => j.req.op \in {"COPY", "MOVE"}
  /\ j.pc = "unmountSrc" => j.req.op = "MOVE"
  /\ j.pc = "invalidate" => j.req.op \in {"PUT", "DELETE", "MKCOL", "COPY", "MOVE", "PROPPATCH"}
  /\ j.pc \in FindSteps => j.req.op = "PROPFIND"
  /\ j.pc = "searchRead" => j.req.op = "SEARCH"
  /\ j.req.op \notin {"PROPFIND", "SEARCH"} => j.at = j.req.path
  /\ j.pc \notin {"reply", "idle"} => j.code = ""
  /\ j.pc = "idle" => j.before = None
  /\ j.pc = "acquire" => /\ j.at = j.req.path /\ j.left = j.req.depth
                         /\ j.work = {} /\ j.found = {} /\ j.body = Empty

\* A handler owes an invalidation of what it has changed, until it has made it.
LateSteps == {"source", "sourceData", "target", "unmountSrc", "invalidate", "invalidateDst", "reply"}
Owing(j) == /\ j.owes \subseteq {j.at, j.req.dst}
            /\ j.pc \notin LateSteps => j.owes = {}
            /\ j.pc = "invalidateDst" => j.owes \subseteq {j.req.dst}
            /\ j.pc = "reply" /\ j.code = "ok" => j.owes = {}

\* What a handler has seen is so, until another changes it.
Matches(t, j) == j.req.ifMatch \in {None, "*", Stat(t, j.at).value.data}
Saw(t, j) == ~j.dirty =>
  /\ j.pc \in {"findRead", "findSet"} => Stat(t, j.at) = Answer(None, j.stat)
  /\ j.pc = "findSet" => Read(t, j.at).value = j.body
  /\ j.pc \in {"write", "writeBlob"} =>
       j.req.ifMatch = None \/ (Stat(t, j.at).err = None /\ Stat(t, j.at).value.kind # "dir" /\ Matches(t, j))
  /\ j.pc = "writeBlob" => Stat(t, j.at).err = None /\ Stat(t, j.at).value.kind = "blob"

\* A handler that has been alone: what it found, and what it has made of the tree.
ShownIn(b, work) == UNION { Shown(b, w.at, w.left) : w \in work }
NoneHolds(b, r) == r.ifNone = "*" => ~Found(b, r.dst)
MayWrite(b, r) == NoneHolds(b, r) /\ (~r.overwrite => ~Found(b, r.dst))
Cleared(t, b, r) == /\ t.nodes = b.nodes /\ OnlyChanged(t, b, {r.dst}) /\ ~Mounted(t, r.dst)
                 /\ MayWrite(b, r) /\ MatchHolds(b, r)
Alone(t, j) == LET b == j.before  r == j.req IN
  b # None =>
  /\ j.pc \notin LateSteps => t = b
  /\ j.pc \in {"write", "writeBlob", "noneMatch", "overwrite", "clear", "clearDst"} => MatchHolds(b, r)
  /\ j.pc = "getType" => Read(b, j.at) = Answer(None, j.body)
  /\ j.pc = "HEAD" => j.body = Empty
  /\ j.pc = "headTag" => Stat(b, j.at) = Answer(None, j.stat)
  /\ j.pc = "overwrite" => NoneHolds(b, r)
  /\ j.pc \in {"clear", "clearDst"} => MayWrite(b, r)
  /\ j.pc \in {"source", "sourceData", "target"} => Cleared(t, b, r)
  /\ j.pc \in {"sourceData", "target"} => Stat(t, j.at) = Answer(None, j.stat)
  /\ j.pc = "sourceData" => j.stat.kind # "dir"
  /\ j.pc = "target" => Read(t, j.at).value = j.body
  /\ j.pc = "unmountSrc" => /\ OnlyChanged(t, b, {r.dst}) /\ t.mount[r.dst] = CopyOf(b, r)
                            /\ MayWrite(b, r) /\ MatchHolds(b, r)
  /\ j.pc \in {"invalidate", "invalidateDst"} => Done(t, j)
  /\ j.pc = "SEARCH" => j.found = {}
  /\ j.pc = "searchRead" => j.found \cup {j.at} \cup { w.at : w \in j.work } = DOMAIN Snapshot(b)
  /\ j.pc \in FindSteps => Shown(b, r.path, r.depth) = j.found \cup Shown(b, j.at, j.left) \cup ShownIn(b, j.work)
  /\ j.pc \in {"findRead", "findSet", "list"} => Stat(b, j.at) = Answer(None, j.stat)
  /\ j.pc = "reply" => IF j.code = "ok" THEN Done(t, j) ELSE Failed(t, j)

Sound(t, j) == OfOp(j) /\ Owing(j) /\ Saw(t, j) /\ Alone(t, j)

\* The property cache holds what a Stat that succeeded and a Read told.
CacheEntries == [stat : [err : {None}, value : Entry], etag : Data \cup {Empty}]

\* The slots of the connection limiter, and the tokens of the bucket.
Busy == { c \in Clients : job[c].pc \notin {"idle", "acquire"} /\ job[c].code # "429" }
Left(b) == IF b.tokens > 0 THEN b.tokens ELSE 0
LimitsInv ==
  /\ sem \in Nat /\ now \in Nat /\ admitted \in Nat /\ started \in Nat /\ dropped \in Nat
  /\ IsFiniteSet(Busy) /\ sem = IF conf.maxConns > 0 THEN Cardinality(Busy) ELSE 0
  /\ sem <= conf.maxConns
  /\ bucket \in [tokens : Int, last : Nat] \cup {None}
  /\ bucket = None /\ conf.rate > 0 => /\ admitted <= conf.rate * now + dropped * Gain
                                       /\ dropped * (conf.ttl + 1) <= now
  /\ bucket # None => /\ conf.rate > 0 /\ bucket.last <= now /\ dropped * (conf.ttl + 1) <= bucket.last
                      /\ admitted + Left(bucket) <= Cap + conf.rate * bucket.last + dropped * Gain

\* A reload, and what it has reached if nobody interfered: t is the tree, b the one that
\* it started from.  What is to be modified and what is to be added are the last of their
\* kind; a path whose last place is done holds what is listed there.
ReloadStates == [pc : {"idle", "run", "done"}, mount : Nat \cup {None}, err : Errors \cup {None},
                 before : Trees \cup {None}, count : Nat,
                 todo : [removed : SUBSET Paths, modified : SUBSET Nat, added : SUBSET Nat]]
Places == DOMAIN conf.config
PathAt(i) == conf.config[i].path
EntryAt(i) == conf.config[i].entry
Upward(S, T) == \A i \in S, k \in T : k > i => k \in S
Old(b) == { i \in Places : Mounted(b, PathAt(i)) }
LastPlaces(b, r) ==
  /\ r.todo.modified \subseteq Old(b) /\ Upward(r.todo.modified, Old(b))
  /\ r.todo.added \subseteq Places \ Old(b) /\ Upward(r.todo.added, Places \ Old(b))
  /\ r.mount # None => /\ r.mount \in Old(b) /\ r.todo.removed = {}
                       /\ \A k \in Old(b) : k \in r.todo.modified <=> k > r.mount
Reached(t, b, r) ==
  /\ r.todo.removed = { q \in Paths \ Listed : Mounted(t, q) }
  /\ r.mount # None => ~Mounted(t, PathAt(r.mount))
  /\ \A q \in Listed :
       /\ Mounted(b, q) => Mounted(t, q) \/ (r.mount # None /\ q = PathAt(r.mount))
       /\ Mounted(t, q) /\ ~Mounted(b, q) => \E k \in Places \ r.todo.added : PathAt(k) = q
       /\ \/ t.mount[q] = b.mount[q] \/ (r.mount # None /\ q = PathAt(r.mount))
          \/ \E k \in Places : conf.config[k] = [path |-> q, entry |-> t.mount[q]]
  /\ \A i \in Places : /\ i \notin r.todo.modified \cup r.todo.added /\ i # r.mount
                       /\ \A k \in Places : k > i /\ PathAt(k) = PathAt(i) => k \in r.todo.modified \cup r.todo.added
                       => t.mount[PathAt(i)] = EntryAt(i)
ReloadTyped == reload \in ReloadStates
ReloadInv ==
  reload.pc = "run" =>
    /\ Parses /\ reload.todo.modified \cup reload.todo.added \subseteq Places
    /\ reload.mount # None => reload.mount \in Places
    /\ reload.before # None => LastPlaces(reload.before, reload) /\ Reached(tree, reload.before, reload)

DavInv == /\ conf \in Scenarios /\ tree \in Trees /\ WellFormed(tree)
          /\ cache \in [Paths -> CacheEntries \cup {None}] /\ forgiven \subseteq Paths
          /\ job \in [Clients -> DavJobs] /\ \A c \in Clients : Sound(tree, job[c])
          /\ StaleHasReason /\ LimitsInv /\ ReloadTyped /\ ReloadInv

-----------------------------------------------------------------------------
\* Somebody else's change leaves a handler sound: what it has seen it now knows to be
\* old, or it is as it was.
LEMMA DisturbedSound ==
  ASSUME tree \in Trees, NEW u \in Trees, NEW j \in DavJobs, Sound(tree, j)
  PROVE  LET k == Disturbed(j, u) IN
         /\ k \in DavJobs /\ Sound(u, k) /\ k.owes = j.owes /\ k.pc = j.pc /\ k.code = j.code
<1>1. CASE u = tree
  BY <1>1 DEF Disturbed
<1>2. CASE u # tree /\ j.pc = "idle"
  <2>1. Disturbed(j, u) = j
    BY <1>2 DEF Disturbed
  <2>2. OfOp(j) /\ Owing(j)
    BY DEF Sound
  <2>3. Saw(u, j)
    BY <1>2 DEF Saw
  <2>4. Alone(u, j)
    BY <1>2, <2>2 DEF OfOp, Alone
  <2>5. QED
    BY <2>1, <2>2, <2>3, <2>4 DEF Sound
<1>3. CASE u # tree /\ j.pc # "idle"
  <2> DEFINE k == [j EXCEPT !.dirty = @ \/ Props(u, j.at) # Props(tree, j.at), !.before = None]
  <2>1. Disturbed(j, u) = k
    BY <1>3 DEF Disturbed
  <2>2. /\ k.pc = j.pc /\ k.req = j.req /\ k.at = j.at /\ k.left = j.left /\ k.work = j.work /\ k.stat = j.stat
        /\ k.body = j.body /\ k.found = j.found /\ k.code = j.code /\ k.owes = j.owes /\ k.before = None
        /\ k.dirty = (j.dirty \/ Props(u, j.at) # Props(tree, j.at)) /\ k \in DavJobs
    BY DEF DavJobs
  <2> HIDE DEF k
  <2>3. OfOp(k) /\ Owing(k)
    <3>1. OfOp(j) /\ Owing(j)
      BY DEF Sound
    <3>2. OfOp(k)
      BY <1>3, <2>2, <3>1 DEF OfOp
    <3>3. QED
      BY <2>2, <3>1, <3>2 DEF Owing
  <2>4. Alone(u, k)
    BY <2>2 DEF Alone
  <2>5. Saw(u, k)
    <3>1. Saw(tree, j)
      BY DEF Sound
    <3>2. ASSUME ~k.dirty PROVE ~j.dirty /\ Stat(u, j.at) = Stat(tree, j.at) /\ Read(u, j.at).value = Read(tree, j.at).value
      BY <2>2, <3>2 DEF Props, DavJobs
    <3>3. QED
      BY <2>2, <3>1, <3>2 DEF Saw, Matches
  <2>6. QED
    BY <2>1, <2>2, <2>3, <2>4, <2>5 DEF Sound
<1>4. QED
  BY <1>1, <1>2, <1>3

\* The busy requests, and with them the slots, are the same after a step inside a handler.
LEMMA BusyKept ==
  ASSUME \A c \in Clients : /\ job'[c].pc \in {"idle", "acquire"} <=> job[c].pc \in {"idle", "acquire"}
                            /\ job[c].pc \notin {"idle", "acquire"} => (job'[c].code = "429" <=> job[c].code = "429"),
         UNCHANGED <<limits, started, conf>>, LimitsInv
  PROVE  LimitsInv'
<1>1. Busy' = Busy
  BY DEF Busy
<1>2. UNCHANGED <<sem, bucket, now, admitted, dropped>>
  BY DEF limits
<1>3. QED
  BY <1>1, <1>2 DEF LimitsInv, Cap, Gain

\* A reload is as it was, and so is what it has reached, when neither it nor the tree changes.
LEMMA ReloadKept ==
  ASSUME DavInv, UNCHANGED <<tree, reload, conf>> PROVE ReloadTyped' /\ ReloadInv'
  BY DEF DavInv, ReloadTyped, ReloadInv, Parses, Places, LastPlaces, Reached, Old, PathAt, EntryAt, Listed

\* A step of c that leaves the tree alone: what the handler becomes, and the cache.
LEMMA StepKeeps ==
  ASSUME DavInv, NEW c \in Clients, NEW k \in DavJobs, Step(c, k), Sound(tree, k),
         job[c].pc \notin {"idle", "acquire", "reply"}, k.pc \notin {"idle", "acquire"}, k.code # "429",
         cache' \in [Paths -> CacheEntries \cup {None}], forgiven' \subseteq Paths, StaleHasReason'
  PROVE  DavInv'
<1>1. job' = [job EXCEPT ![c] = k] /\ UNCHANGED <<tree, reload, started, limits, conf>>
  BY DEF Step
<1>2. job \in [Clients -> DavJobs] /\ \A d \in Clients : Sound(tree, job[d])
  BY DEF DavInv
<1>3. job' \in [Clients -> DavJobs] /\ job'[c] = k /\ \A d \in Clients \ {c} : job'[d] = job[d]
  BY <1>1, <1>2
<1>4. \A d \in Clients : Sound(tree, job[d])'
  BY <1>1, <1>2, <1>3
<1>5. LimitsInv'
  <2>1. job[c].code = ""
    BY <1>2 DEF Sound, OfOp
  <2>2. \A d \in Clients : /\ job'[d].pc \in {"idle", "acquire"} <=> job[d].pc \in {"idle", "acquire"}
                           /\ job[d].pc \notin {"idle", "acquire"} => (job'[d].code = "429" <=> job[d].code = "429")
    BY <1>3, <2>1
  <2>3. QED
    BY <1>1, <2>2, BusyKept DEF DavInv
<1>6. ReloadTyped' /\ ReloadInv'
  BY <1>1, ReloadKept
<1>7. QED
  BY <1>1, <1>3, <1>4, <1>5, <1>6 DEF DavInv

\* A step of c that changes neither tree nor cache.
LEMMA DavLook ==
  ASSUME DavInv, NEW c \in Clients, NEW k \in DavJobs, Look(c, k), Sound(tree, k),
         job[c].pc \notin {"idle", "acquire", "reply"}, k.pc \notin {"idle", "acquire"}, k.code # "429",
         k.owes = job[c].owes
  PROVE  DavInv'
<1>1. Step(c, k) /\ UNCHANGED <<cache, forgiven, tree>> /\ job' = [job EXCEPT ![c] = k]
  BY DEF Look, Step
<1>2. \A d \in Clients : job'[d].owes = job[d].owes
  BY <1>1 DEF DavInv
<1>3. StaleHasReason'
  BY <1>1, <1>2 DEF DavInv, StaleHasReason
<1>4. cache' \in [Paths -> CacheEntries \cup {None}] /\ forgiven' \subseteq Paths
  BY <1>1 DEF DavInv
<1>5. QED
  BY <1>1, <1>3, <1>4, StepKeeps

\* A cached path other than the changed one is as stale as before.
LEMMA StaleKept ==
  ASSUME tree \in Trees, NEW p \in Paths, NEW u, ChangedAt(tree, u, p), NEW q \in Paths \ {p},
         cache \in [Paths -> CacheEntries \cup {None}], cache[q] # None, cache[q] = Props(tree, q)
  PROVE  cache[q] = Props(u, q)
<1>1. cache[q] \in CacheEntries
  OBVIOUS
<1>2. Stat(tree, q).err = None
  BY <1>1 DEF CacheEntries, Props
<1>3. u \in Trees /\ tree.nodes \subseteq u.nodes /\ u.mount[q] = tree.mount[q]
  BY DEF ChangedAt
<1>4. QED
  BY <1>2, <1>3, PropsKept

\* A step of c that changes the tree at p, after which it owes an invalidation.
LEMMA DavChange ==
  ASSUME DavInv, NEW c \in Clients, NEW k \in DavJobs, NEW u, NEW p \in Paths, Change(c, u, p, k),
         ChangedAt(tree, u, p), Sound(u, [k EXCEPT !.owes = @ \cup {p}]),
         job[c].pc \notin {"idle", "acquire", "reply"}, k.pc \notin {"idle", "acquire"}, k.code # "429",
         k.owes = job[c].owes
  PROVE  DavInv'
<1> DEFINE m == [k EXCEPT !.owes = @ \cup {p}]
<1>1. /\ tree' = u
      /\ job' = [d \in Clients |-> IF d = c THEN m ELSE Disturbed(job[d], u)]
      /\ reload' = [reload EXCEPT !.before = None]
      /\ UNCHANGED <<cache, forgiven, started, limits, conf>>
  BY DEF Change
<1>2. job \in [Clients -> DavJobs] /\ (\A d \in Clients : Sound(tree, job[d])) /\ tree \in Trees
  BY DEF DavInv
<1>3. u \in Trees /\ WellFormed(u)
  BY DEF ChangedAt
<1>4. m \in DavJobs /\ m.pc = k.pc /\ m.code = k.code /\ m.owes = k.owes \cup {p}
  BY DEF DavJobs
<1> HIDE DEF m
<1>5. \A d \in Clients \ {c} : /\ job'[d] \in DavJobs /\ Sound(u, job'[d]) /\ job'[d].owes = job[d].owes
                               /\ job'[d].pc = job[d].pc /\ job'[d].code = job[d].code
  BY <1>1, <1>2, <1>3, DisturbedSound
<1>6. job'[c] = m
  BY <1>1
<1>7. job' \in [Clients -> DavJobs] /\ \A d \in Clients : Sound(tree, job[d])'
  <2>1. Sound(u, m)
    BY DEF m
  <2>2. \A d \in Clients : job'[d] \in DavJobs /\ Sound(u, job'[d])
    BY <1>4, <1>5, <1>6, <2>1
  <2>3. job' \in [Clients -> DavJobs]
    BY <1>1, <2>2
  <2>4. QED
    BY <1>1, <2>2, <2>3
<1>8. LimitsInv'
  <2>1. job[c].code = ""
    BY <1>2 DEF Sound, OfOp
  <2>2. \A d \in Clients : /\ job'[d].pc \in {"idle", "acquire"} <=> job[d].pc \in {"idle", "acquire"}
                           /\ job[d].pc \notin {"idle", "acquire"} => (job'[d].code = "429" <=> job[d].code = "429")
    BY <1>4, <1>5, <1>6, <2>1
  <2>3. QED
    BY <1>1, <2>2, BusyKept DEF DavInv
<1>9. StaleHasReason'
  <2>1. \A d \in Clients : job[d].owes \subseteq job'[d].owes
    BY <1>4, <1>5, <1>6
  <2> SUFFICES ASSUME NEW q \in Paths, cache[q] # None, cache[q] # Props(u, q), q # p
               PROVE  q \in forgiven \/ \E d \in Clients : q \in job'[d].owes
    BY <1>1, <1>4, <1>6 DEF StaleHasReason
  <2>2. cache[q] # Props(tree, q)
    BY <1>2, StaleKept DEF DavInv
  <2>3. QED
    BY <2>1, <2>2 DEF DavInv, StaleHasReason
<1>10. ReloadTyped' /\ ReloadInv'
  <2>1. ReloadTyped /\ ReloadInv
    BY DEF DavInv
  <2>2. /\ reload'.pc = reload.pc /\ reload'.todo = reload.todo /\ reload'.mount = reload.mount
        /\ reload'.before = None /\ ReloadTyped'
    BY <1>1, <2>1 DEF ReloadTyped, ReloadStates
  <2>3. QED
    BY <1>1, <2>1, <2>2 DEF ReloadInv, Parses, Places
<1>11. QED
  BY <1>1, <1>3, <1>7, <1>8, <1>9, <1>10 DEF DavInv

-----------------------------------------------------------------------------
\* What a handler has for its next step.
LEMMA JobOf ==
  ASSUME DavInv, NEW c \in Clients
  PROVE  LET j == job[c] IN
         /\ j \in DavJobs /\ OfOp(j) /\ Owing(j) /\ Saw(tree, j) /\ Alone(tree, j) /\ Sound(tree, j)
         /\ tree \in Trees /\ WellFormed(tree) /\ j.at \in Paths /\ j.req \in Request /\ HasHeaders(j.req)
         /\ j.req.path \in Paths /\ (j.req.op \in {"COPY", "MOVE"} => j.req.dst \in Paths)
         /\ (j.req.op = "PUT" => j.req.data \in Data) /\ (j.before # None => j.before \in Trees)
<1>1. job[c] \in DavJobs /\ Sound(tree, job[c]) /\ tree \in Trees /\ WellFormed(tree)
  BY DEF DavInv
<1>2. /\ job[c].at \in Paths /\ job[c].req \in Request /\ HasHeaders(job[c].req)
      /\ job[c].before # None => job[c].before \in Trees
  BY <1>1 DEF DavJobs
<1>3. /\ job[c].req.path \in Paths /\ (job[c].req.op \in {"COPY", "MOVE"} => job[c].req.dst \in Paths)
      /\ job[c].req.op = "PUT" => job[c].req.data \in Data
  BY <1>2 DEF Request, HasHeaders
<1>4. QED
  BY <1>1, <1>2, <1>3 DEF Sound

\* A step that only goes on, and an answer.
LEMMA ToFields ==
  ASSUME NEW j \in DavJobs, NEW l \in Steps
  PROVE  LET k == To(j, l) IN
         /\ k \in DavJobs /\ k.pc = l /\ k.req = j.req /\ k.at = j.at /\ k.left = j.left /\ k.work = j.work
         /\ k.stat = j.stat /\ k.body = j.body /\ k.found = j.found /\ k.code = j.code /\ k.dirty = j.dirty
         /\ k.before = j.before /\ k.owes = j.owes
  BY DEF To, DavJobs

LEMMA ReplyFields ==
  ASSUME NEW j \in DavJobs, NEW code \in DavCodes
  PROVE  LET k == Reply(j, code) IN
         /\ k \in DavJobs /\ k.pc = "reply" /\ k.req = j.req /\ k.at = j.at /\ k.left = j.left /\ k.work = j.work
         /\ k.stat = j.stat /\ k.body = j.body /\ k.found = j.found /\ k.code = code /\ k.dirty = j.dirty
         /\ k.before = j.before /\ k.owes = j.owes
  BY DEF Reply, DavJobs, Steps

\* A failure before anything was changed.
LEMMA FailSound ==
  ASSUME NEW t \in Trees, NEW j \in DavJobs, Sound(t, j), j.pc \notin LateSteps,
         NEW code \in DavCodes \ {"ok"}, j.req.op \notin {"COPY", "MOVE"} \/ code \in {"412", "403", "429"}
  PROVE  Sound(t, Reply(j, code))
<1> DEFINE k == Reply(j, code)
<1>1. /\ k \in DavJobs /\ k.pc = "reply" /\ k.req = j.req /\ k.at = j.at /\ k.code = code
      /\ k.before = j.before /\ k.owes = j.owes
  BY ReplyFields
<1> HIDE DEF k
<1>2. OfOp(j) /\ Owing(j) /\ Alone(t, j)
  BY DEF Sound
<1>3. OfOp(k) /\ Owing(k) /\ Saw(t, k)
  BY <1>1, <1>2 DEF OfOp, Owing, Saw, Methods, CopySteps, FindSteps
<1>4. Failed(t, k) \/ j.before = None
  BY <1>1, <1>2 DEF Alone, Failed, OnlyChanged
<1>5. Alone(t, k)
  BY <1>1, <1>4 DEF Alone, LateSteps, FindSteps
<1>6. QED
  BY <1>3, <1>5 DEF Sound, k

\* A failure of a handler that has changed nothing.
LEMMA DavFail ==
  ASSUME DavInv, NEW c \in Clients, job[c].pc \notin LateSteps \cup {"idle", "acquire"},
         NEW code \in DavCodes \ {"ok", "429"}, job[c].req.op \notin {"COPY", "MOVE"} \/ code \in {"412", "403"},
         Look(c, Reply(job[c], code))
  PROVE  DavInv'
<1> DEFINE k == Reply(job[c], code)
<1>1. job[c] \in DavJobs /\ Sound(tree, job[c]) /\ tree \in Trees
  BY JobOf
<1>2. k \in DavJobs /\ k.pc = "reply" /\ k.owes = job[c].owes /\ k.code = code
  BY <1>1, ReplyFields
<1>3. Sound(tree, k)
  BY <1>1, FailSound
<1> HIDE DEF k
<1>4. Look(c, k)
  BY DEF k
<1>5. QED
  BY <1>2, <1>3, <1>4, DavLook DEF LateSteps

\* The steps of GET and HEAD keep the invariant, ...
LEMMA GetReadKeeps ==
  ASSUME DavInv, NEW c \in Clients, GetRead(c) PROVE DavInv'
<1> DEFINE j == job[c]
           r == Read(tree, j.at)
           m == [j EXCEPT !.body = r.value, !.dirty = FALSE]
           k == To(m, "getType")
<1>1. /\ j \in DavJobs /\ OfOp(j) /\ Owing(j) /\ Alone(tree, j) /\ tree \in Trees /\ j.at \in Paths
      /\ j.pc = "GET" /\ j.req.op = "GET"
  BY JobOf DEF GetRead, OfOp, Methods
<1>2. r.value \in Data \cup {Empty} /\ r.err \in Errors \cup {None} /\ r = Answer(r.err, r.value)
  BY <1>1, ReadFacts
<1>3. CASE r.err # None
  <2>1. Look(c, Reply(j, r.err)) /\ r.err \in DavCodes \ {"ok", "429"}
    BY <1>2, <1>3 DEF GetRead, DavCodes, Errors
  <2>2. QED
    BY <1>1, <2>1, DavFail DEF LateSteps
<1>4. CASE r.err = None /\ j.req.ifNone \in {"*", r.value}
  BY <1>1, <1>4, DavFail DEF GetRead, LateSteps, DavCodes
<1>5. CASE r.err = None /\ ~(j.req.ifNone \in {"*", r.value})
  <2>1. Look(c, k)
    BY <1>5 DEF GetRead
  <2>2. m \in DavJobs /\ m.req = j.req /\ m.at = j.at /\ m.code = j.code /\ m.before = j.before /\ m.owes = j.owes /\ m.body = r.value
    BY <1>1, <1>2 DEF DavJobs
  <2> HIDE DEF m
  <2>3. k \in DavJobs /\ k.pc = "getType" /\ k.req = j.req /\ k.at = j.at /\ k.code = j.code /\ k.before = j.before /\ k.owes = j.owes /\ k.body = r.value
    BY <2>2, ToFields DEF Steps
  <2> HIDE DEF k, r
  <2>4. OfOp(k) /\ Owing(k) /\ Saw(tree, k)
    BY <1>1, <2>3 DEF OfOp, Owing, Saw, Methods, CopySteps, FindSteps, LateSteps
  <2>5. Alone(tree, k)
    BY <1>1, <1>2, <1>5, <2>3 DEF Alone, LateSteps, FindSteps, r
  <2>6. k.code = ""
    BY <1>1, <2>3 DEF OfOp
  <2>7. QED
    BY <1>1, <2>1, <2>3, <2>4, <2>5, <2>6, DavLook DEF Sound
<1>6. QED
  BY <1>3, <1>4, <1>5

LEMMA GetTypeKeeps ==
  ASSUME DavInv, NEW c \in Clients, GetType(c) PROVE DavInv'
<1> DEFINE j == job[c]
           s == Stat(tree, j.at)
           m == [j EXCEPT !.stat = s.value]
           k == Reply(m, "ok")
<1>1. /\ j \in DavJobs /\ OfOp(j) /\ Owing(j) /\ Alone(tree, j) /\ tree \in Trees /\ j.at \in Paths
      /\ j.pc = "getType" /\ j.req.op = "GET" /\ j.at = j.req.path /\ HasHeaders(j.req) /\ Look(c, k)
  BY JobOf DEF GetType, OfOp, Methods
<1>2. s.value \in Entry /\ s = Answer(s.err, s.value) /\ (s.err = None <=> Found(tree, j.at)) /\ (Mounted(tree, j.at) => Found(tree, j.at))
  BY <1>1, StatFacts
<1>3. m \in DavJobs /\ m.req = j.req /\ m.at = j.at /\ m.before = j.before /\ m.owes = j.owes /\ m.body = j.body /\ m.stat = s.value
  BY <1>1, <1>2 DEF DavJobs
<1> HIDE DEF m
<1>4. /\ k \in DavJobs /\ k.pc = "reply" /\ k.req = j.req /\ k.at = j.at /\ k.code = "ok" /\ k.before = j.before
      /\ k.owes = j.owes /\ k.body = j.body /\ k.stat = s.value
  <2>1. "ok" \in DavCodes
    BY DEF DavCodes
  <2>2. QED
    BY <1>3, <2>1, ReplyFields
<1> HIDE DEF k
<1>5. OfOp(k) /\ Owing(k) /\ Saw(tree, k)
  BY <1>1, <1>4 DEF OfOp, Owing, Saw, Methods, CopySteps, FindSteps, LateSteps
<1>6. ASSUME j.before # None PROVE Done(tree, k)
  <2>1. j.before = tree /\ Read(tree, j.at) = Answer(None, j.body)
    BY <1>1, <1>6 DEF Alone, LateSteps
  <2>2. Read(tree, j.at).err = None /\ Read(tree, j.at).value = j.body
    BY <2>1 DEF Answer
  <2>3. s = Answer(None, s.value)
    BY <1>1, <1>2, <2>2, ReadFacts
  <2>4. Props(tree, j.at) = [stat |-> Answer(None, k.stat), etag |-> k.body]
    BY <1>4, <2>2, <2>3 DEF Props
  <2>5. MatchHolds(tree, k.req)
    BY <1>1, <1>4 DEF MatchHolds, HasHeaders
  <2>6. QED
    BY <1>1, <1>4, <2>1, <2>4, <2>5 DEF Done, OnlyChanged
<1>7. Alone(tree, k)
  BY <1>4, <1>6 DEF Alone, LateSteps, FindSteps
<1>8. QED
  BY <1>1, <1>4, <1>5, <1>7, DavLook DEF Sound

\* A step inside a handler that changes nothing but the handler.
LEMMA DavGoes ==
  ASSUME DavInv, NEW c \in Clients, NEW k \in DavJobs, Look(c, k),
         job[c].pc \notin {"idle", "acquire", "reply"}, k.pc \notin {"idle", "acquire", "reply"},
         k.owes = job[c].owes, OfOp(k), Owing(k), Saw(tree, k), Alone(tree, k)
  PROVE  DavInv'
<1>1. k.code # "429"
  BY DEF OfOp
<1>2. QED
  BY <1>1, DavLook DEF Sound

\* The answer of a request that has changed nothing.
LEMMA DavOk ==
  ASSUME DavInv, NEW c \in Clients, NEW m \in DavJobs, Look(c, Reply(m, "ok")),
         job[c].pc \notin {"idle", "acquire", "reply"}, m.owes = job[c].owes, m.owes = {},
         m.req.op \notin {"PROPFIND", "SEARCH"} => m.at = m.req.path,
         m.before # None => Done(tree, m)
  PROVE  DavInv'
<1> DEFINE k == Reply(m, "ok")
<1>1. /\ k \in DavJobs /\ k.pc = "reply" /\ k.req = m.req /\ k.at = m.at /\ k.code = "ok" /\ k.before = m.before
      /\ k.owes = m.owes /\ k.body = m.body /\ k.stat = m.stat /\ k.found = m.found
  <2>1. "ok" \in DavCodes
    BY DEF DavCodes
  <2>2. QED
    BY <2>1, ReplyFields
<1> HIDE DEF k
<1>2. OfOp(k) /\ Owing(k) /\ Saw(tree, k)
  BY <1>1 DEF OfOp, Owing, Saw, Methods, CopySteps, FindSteps, LateSteps
<1>3. k.before # None => Done(tree, k)
  BY <1>1 DEF Done
<1>4. Alone(tree, k)
  BY <1>1, <1>3 DEF Alone, LateSteps, FindSteps
<1>5. Look(c, k)
  BY DEF k
<1>6. QED
  BY <1>1, <1>2, <1>4, <1>5, DavLook DEF Sound

LEMMA HeadStatKeeps ==
  ASSUME DavInv, NEW c \in Clients, HeadStat(c) PROVE DavInv'
<1> DEFINE j == job[c]
           s == Stat(tree, j.at)
           m == [j EXCEPT !.stat = s.value, !.dirty = FALSE]
           k == To(m, "headTag")
<1>1. /\ j \in DavJobs /\ OfOp(j) /\ Owing(j) /\ Alone(tree, j) /\ tree \in Trees /\ j.at \in Paths
      /\ j.pc = "HEAD" /\ j.req.op = "HEAD" /\ j.at = j.req.path /\ HasHeaders(j.req)
  BY JobOf DEF HeadStat, OfOp, Methods
<1>2. s.value \in Entry /\ s.err \in {None, "ENOENT"} /\ s = Answer(s.err, s.value)
  BY <1>1, StatFacts
<1>3. /\ m \in DavJobs /\ m.req = j.req /\ m.at = j.at /\ m.code = j.code /\ m.before = j.before /\ m.owes = j.owes
      /\ m.body = j.body /\ m.stat = s.value
  BY <1>1, <1>2 DEF DavJobs
<1>4. j.owes = {}
  BY <1>1 DEF Owing, LateSteps
<1>5. CASE s.err # None
  <2>1. Look(c, Reply(j, "ENOENT"))
    BY <1>2, <1>5 DEF HeadStat
  <2>2. QED
    BY <1>1, <2>1, DavFail DEF LateSteps, DavCodes, Errors
<1>6. CASE s.err = None /\ s.value.kind = "dir"
  <2>1. Look(c, Reply(m, "ok"))
    BY <1>6 DEF HeadStat
  <2> HIDE DEF m
  <2>2. ASSUME m.before # None PROVE Done(tree, m)
    <3>1. j.before = tree /\ j.body = Empty
      BY <1>1, <1>3, <2>2 DEF Alone, LateSteps
    <3>2. Read(tree, j.at).value = Empty
      BY <1>1, <1>6, ReadFacts
    <3>3. Props(tree, j.at) = [stat |-> Answer(None, m.stat), etag |-> m.body]
      BY <1>2, <1>3, <1>6, <3>1, <3>2 DEF Props
    <3>4. MatchHolds(tree, m.req)
      BY <1>1, <1>3 DEF MatchHolds, HasHeaders
    <3>5. QED
      BY <1>1, <1>3, <3>1, <3>3, <3>4 DEF Done, OnlyChanged
  <2>3. QED
    BY <1>1, <1>3, <1>4, <2>1, <2>2, DavOk
<1>7. CASE s.err = None /\ s.value.kind # "dir"
  <2>1. Look(c, k)
    BY <1>7 DEF HeadStat
  <2> HIDE DEF m
  <2>2. /\ k \in DavJobs /\ k.pc = "headTag" /\ k.req = j.req /\ k.at = j.at /\ k.code = j.code /\ k.before = j.before
        /\ k.owes = j.owes /\ k.stat = s.value
    BY <1>3, ToFields DEF Steps
  <2> HIDE DEF k
  <2>3. OfOp(k) /\ Owing(k) /\ Saw(tree, k)
    BY <1>1, <2>2 DEF OfOp, Owing, Saw, Methods, CopySteps, FindSteps, LateSteps
  <2>4. Alone(tree, k)
    BY <1>1, <1>2, <1>7, <2>2 DEF Alone, LateSteps, FindSteps
  <2>5. QED
    BY <1>1, <2>1, <2>2, <2>3, <2>4, DavGoes
<1>8. QED
  BY <1>5, <1>6, <1>7

LEMMA HeadTagKeeps ==
  ASSUME DavInv, NEW c \in Clients, HeadTag(c) PROVE DavInv'
<1> DEFINE j == job[c]
           r == Read(tree, j.at)
           m == [j EXCEPT !.body = r.value]
<1>1. /\ j \in DavJobs /\ OfOp(j) /\ Owing(j) /\ Alone(tree, j) /\ tree \in Trees /\ j.at \in Paths
      /\ j.pc = "headTag" /\ j.req.op = "HEAD" /\ j.at = j.req.path /\ HasHeaders(j.req) /\ Look(c, Reply(m, "ok"))
  BY JobOf DEF HeadTag, OfOp, Methods
<1>2. r.value \in Data \cup {Empty}
  BY <1>1, ReadFacts
<1>3. /\ m \in DavJobs /\ m.req = j.req /\ m.at = j.at /\ m.before = j.before /\ m.owes = j.owes
      /\ m.body = r.value /\ m.stat = j.stat
  BY <1>1, <1>2 DEF DavJobs
<1> HIDE DEF m
<1>4. j.owes = {}
  BY <1>1 DEF Owing, LateSteps
<1>5. ASSUME m.before # None PROVE Done(tree, m)
  <2>1. j.before = tree /\ Stat(tree, j.at) = Answer(None, j.stat)
    BY <1>1, <1>3, <1>5 DEF Alone, LateSteps
  <2>2. Props(tree, j.at) = [stat |-> Answer(None, m.stat), etag |-> m.body]
    BY <1>3, <2>1 DEF Props
  <2>3. MatchHolds(tree, m.req)
    BY <1>1, <1>3 DEF MatchHolds, HasHeaders
  <2>4. QED
    BY <1>1, <1>3, <2>1, <2>2, <2>3 DEF Done, OnlyChanged
<1>6. QED
  BY <1>1, <1>3, <1>4, <1>5, DavOk

\* ... so do those of PUT, ...
LEMMA MatchKeeps ==
  ASSUME DavInv, NEW c \in Clients, Match(c) PROVE DavInv'
<1> DEFINE j == job[c]
           r == Read(tree, j.at)
           m == [j EXCEPT !.body = r.value, !.dirty = FALSE]
           l == IF j.req.op = "PUT" THEN "write" ELSE "noneMatch"
           k == To(m, l)
<1>1. /\ j \in DavJobs /\ OfOp(j) /\ Owing(j) /\ Alone(tree, j) /\ tree \in Trees /\ j.at \in Paths
      /\ j.pc = "match" /\ j.req.op \in {"PUT", "COPY", "MOVE"} /\ j.at = j.req.path
  BY JobOf DEF Match, OfOp, Methods
<1>2. r.value \in Data \cup {Empty}
  BY <1>1, ReadFacts
<1> DEFINE Fails == j.req.ifMatch # None /\ (r.err # None \/ j.req.ifMatch \notin {"*", r.value})
<1>3. CASE Fails
  <2>1. Look(c, Reply(j, "412"))
    BY <1>3 DEF Match
  <2>2. QED
    BY <1>1, <2>1, DavFail DEF LateSteps, DavCodes
<1>4. CASE ~Fails
  <2>1. Look(c, k)
    BY <1>4 DEF Match
  <2>2. /\ m \in DavJobs /\ m.req = j.req /\ m.at = j.at /\ m.code = j.code /\ m.before = j.before /\ m.owes = j.owes
        /\ m.dirty = FALSE
    BY <1>1, <1>2 DEF DavJobs
  <2>3. l \in Steps /\ l \in {"write", "noneMatch"} /\ (l = "write" <=> j.req.op = "PUT")
    BY DEF Steps
  <2> HIDE DEF m, l
  <2>4. /\ k \in DavJobs /\ k.pc = l /\ k.req = j.req /\ k.at = j.at /\ k.code = j.code /\ k.before = j.before
        /\ k.owes = j.owes
    BY <2>2, <2>3, ToFields
  <2> HIDE DEF k
  <2>5. OfOp(k) /\ Owing(k)
    BY <1>1, <2>3, <2>4 DEF OfOp, Owing, Methods, CopySteps, FindSteps, LateSteps
  <2>6. MatchHolds(tree, j.req)
    BY <1>1, <1>4 DEF MatchHolds
  <2>7. Alone(tree, k)
    BY <1>1, <2>3, <2>4, <2>6 DEF Alone, LateSteps, FindSteps
  <2>8. Saw(tree, k)
    <3>1. ASSUME j.req.ifMatch # None
          PROVE  Stat(tree, j.at).err = None /\ Stat(tree, j.at).value.kind # "dir" /\ Matches(tree, j)
      <4>1. r.err = None /\ j.req.ifMatch \in {"*", r.value}
        BY <1>4, <3>1
      <4>2. Mounted(tree, j.at) /\ tree.mount[j.at].kind # "dir" /\ r.value = tree.mount[j.at].data
        BY <1>1, <4>1, ReadFacts
      <4>3. Stat(tree, j.at).err = None /\ Stat(tree, j.at).value = tree.mount[j.at]
        BY <1>1, <4>2, StatFacts
      <4>4. QED
        BY <4>1, <4>2, <4>3 DEF Matches
    <3>2. Matches(tree, j) => Matches(tree, k)
      BY <2>4 DEF Matches
    <3>3. QED
      BY <2>3, <2>4, <3>1, <3>2 DEF Saw
  <2>9. QED
    BY <1>1, <2>1, <2>3, <2>4, <2>5, <2>7, <2>8, DavGoes
<1>5. QED
  BY <1>3, <1>4

LEMMA WriteKeeps ==
  ASSUME DavInv, NEW c \in Clients, Write(c) PROVE DavInv'
<1> DEFINE j == job[c]
           err == WriteError(tree, j.at)
           m == [j EXCEPT !.dirty = @ /\ j.req.ifMatch # None]
           k == To(m, "writeBlob")
<1>1. /\ j \in DavJobs /\ OfOp(j) /\ Owing(j) /\ Alone(tree, j) /\ Saw(tree, j) /\ tree \in Trees /\ j.at \in Paths
      /\ j.pc = "write" /\ j.req.op = "PUT" /\ j.at = j.req.path
  BY JobOf DEF Write, OfOp, Methods
<1>2. CASE err # None
  <2>1. Look(c, Reply(j, err)) /\ err \in DavCodes \ {"ok", "429"}
    BY <1>2 DEF Write, WriteError, DavCodes, Errors
  <2> HIDE DEF err
  <2>2. QED
    BY <1>1, <2>1, DavFail DEF LateSteps
<1>3. CASE err = None
  <2>1. Look(c, k)
    BY <1>3 DEF Write
  <2>2. Mounted(tree, j.at) /\ tree.mount[j.at].kind = "blob"
    BY <1>3, PathsAssumption DEF WriteError, Errors
  <2>3. Stat(tree, j.at).err = None /\ Stat(tree, j.at).value.kind = "blob"
    BY <1>1, <2>2, StatFacts
  <2>4. /\ m \in DavJobs /\ m.req = j.req /\ m.at = j.at /\ m.code = j.code /\ m.before = j.before /\ m.owes = j.owes
        /\ m.dirty = (j.dirty /\ j.req.ifMatch # None)
    BY <1>1 DEF DavJobs
  <2> HIDE DEF m
  <2>5. /\ k \in DavJobs /\ k.pc = "writeBlob" /\ k.req = j.req /\ k.at = j.at /\ k.code = j.code /\ k.before = j.before
        /\ k.owes = j.owes /\ k.dirty = (j.dirty /\ j.req.ifMatch # None)
    BY <2>4, ToFields DEF Steps
  <2> HIDE DEF k
  <2>6. OfOp(k) /\ Owing(k)
    BY <1>1, <2>5 DEF OfOp, Owing, Methods, CopySteps, FindSteps, LateSteps
  <2>7. Saw(tree, k)
    BY <1>1, <2>3, <2>5 DEF Saw, Matches
  <2>8. Alone(tree, k)
    BY <1>1, <2>5 DEF Alone, LateSteps, FindSteps
  <2>9. QED
    BY <1>1, <2>1, <2>5, <2>6, <2>7, <2>8, DavGoes
<1>4. QED
  BY <1>2, <1>3

\* A failure after something may have been changed.
LEMMA DavLateFail ==
  ASSUME DavInv, NEW c \in Clients, job[c].pc \notin {"idle", "acquire", "reply"},
         NEW code \in DavCodes \ {"ok", "429"}, Look(c, Reply(job[c], code)),
         job[c].before # None => Failed(tree, Reply(job[c], code))
  PROVE  DavInv'
<1> DEFINE j == job[c]
           k == Reply(j, code)
<1>1. j \in DavJobs /\ OfOp(j) /\ Owing(j)
  BY JobOf
<1>2. /\ k \in DavJobs /\ k.pc = "reply" /\ k.req = j.req /\ k.at = j.at /\ k.code = code /\ k.before = j.before
      /\ k.owes = j.owes
  BY <1>1, ReplyFields
<1>3. Look(c, k) /\ (j.before # None => Failed(tree, k))
  OBVIOUS
<1> HIDE DEF k
<1>4. OfOp(k) /\ Owing(k) /\ Saw(tree, k)
  BY <1>1, <1>2 DEF OfOp, Owing, Saw, Methods, CopySteps, FindSteps, LateSteps
<1>5. Alone(tree, k)
  BY <1>2, <1>3 DEF Alone, LateSteps, FindSteps
<1>6. QED
  BY <1>2, <1>3, <1>4, <1>5, DavLook DEF Sound

\* A step that changes the tree and goes on.
LEMMA DavMakes ==
  ASSUME DavInv, NEW c \in Clients, job[c].pc \notin {"idle", "acquire", "reply"},
         NEW l \in {"invalidate", "unmountSrc", "source"}, NEW u, NEW p \in Paths,
         p \in {job[c].req.path, job[c].req.dst}, job[c].at = job[c].req.path,
         Change(c, u, p, To(job[c], l)), ChangedAt(tree, u, p),
         l = "invalidate" => job[c].req.op \in {"PUT", "DELETE", "MKCOL", "COPY", "MOVE"},
         l = "unmountSrc" => job[c].req.op = "MOVE", l = "source" => job[c].req.op \in {"COPY", "MOVE"},
         LET b == job[c].before  r == job[c].req IN
         b # None => /\ l = "invalidate" => Done(u, job[c])
                     /\ l = "source" => Cleared(u, b, r)
                     /\ l = "unmountSrc" => /\ OnlyChanged(u, b, {r.dst}) /\ u.mount[r.dst] = CopyOf(b, r)
                                            /\ MayWrite(b, r) /\ MatchHolds(b, r)
  PROVE  DavInv'
<1> DEFINE j == job[c]
           k == To(j, l)
           m == [k EXCEPT !.owes = @ \cup {p}]
<1>1. j \in DavJobs /\ OfOp(j) /\ Owing(j)
  BY JobOf
<1>2. /\ k \in DavJobs /\ k.pc = l /\ k.req = j.req /\ k.at = j.at /\ k.code = j.code /\ k.before = j.before
      /\ k.owes = j.owes /\ k.stat = j.stat /\ k.body = j.body /\ k.found = j.found
  <2>1. l \in Steps
    BY DEF Steps
  <2>2. QED
    BY <1>1, <2>1, ToFields
<1>3. Change(c, u, p, k)
  OBVIOUS
<1> HIDE DEF k
<1>4. /\ m.pc = l /\ m.req = j.req /\ m.at = j.at /\ m.code = j.code /\ m.before = j.before
      /\ m.owes = j.owes \cup {p} /\ m.stat = j.stat /\ m.body = j.body /\ m.found = j.found
  BY <1>2 DEF DavJobs
<1> HIDE DEF m
<1>5. OfOp(m) /\ Owing(m) /\ Saw(u, m)
  BY <1>1, <1>4 DEF OfOp, Owing, Saw, Methods, CopySteps, FindSteps, LateSteps
<1>6. m.before # None /\ l = "invalidate" => Done(u, m)
  BY <1>4 DEF Done
<1>7. Alone(u, m)
  BY <1>4, <1>6 DEF Alone, LateSteps, FindSteps
<1>8. Sound(u, m)
  BY <1>5, <1>7 DEF Sound
<1>9. k.code # "429"
  BY <1>1, <1>2 DEF OfOp
<1>10. Sound(u, [k EXCEPT !.owes = @ \cup {p}])
  BY <1>8 DEF m
<1>11. QED
  BY <1>2, <1>3, <1>9, <1>10, DavChange

LEMMA WriteBlobKeeps ==
  ASSUME DavInv, NEW c \in Clients, WriteBlob(c) PROVE DavInv'
<1> DEFINE j == job[c]
           err == BlobError(tree, j.at, j.req.data)
           u == Written(tree, j.at, j.req.data)
<1>1. /\ j \in DavJobs /\ OfOp(j) /\ Alone(tree, j) /\ tree \in Trees /\ WellFormed(tree) /\ j.at \in Paths
      /\ j.pc = "writeBlob" /\ j.req.op = "PUT" /\ j.at = j.req.path /\ j.req.data \in Data
  BY JobOf DEF WriteBlob, OfOp, Methods
<1>2. CASE err # None
  <2>1. Look(c, Reply(j, err)) /\ err \in DavCodes \ {"ok", "429"}
    BY <1>2 DEF WriteBlob, BlobError, DavCodes, Errors
  <2> HIDE DEF err
  <2>2. QED
    BY <1>1, <2>1, DavFail DEF LateSteps
<1>3. CASE err = None
  <2>1. Change(c, u, j.at, To(j, "invalidate"))
    BY <1>3 DEF WriteBlob
  <2>2. Mounted(tree, j.at)
    BY <1>3, PathsAssumption DEF BlobError, Errors
  <2>3. ChangedAt(tree, u, j.at) /\ u.mount[j.at] = [tree.mount[j.at] EXCEPT !.data = j.req.data]
    BY <1>1, <2>2, WrittenChanges
  <2> HIDE DEF u
  <2>4. j.before # None => Done(u, j)
    <3>1. j.before # None => j.before = tree /\ MatchHolds(tree, j.req)
      BY <1>1 DEF Alone, LateSteps
    <3>2. QED
      BY <1>1, <2>3, <3>1 DEF Done, OnlyChanged, ChangedAt
  <2>5. QED
    BY <1>1, <2>1, <2>3, <2>4, DavMakes
<1>4. QED
  BY <1>2, <1>3

\* ... MKCOL and DELETE, ...
LEMMA MkcolKeeps ==
  ASSUME DavInv, NEW c \in Clients, Mkcol(c) PROVE DavInv'
<1> DEFINE j == job[c]
           e == [kind |-> "dir", data |-> Empty, writable |-> TRUE]
           err == MountError(tree, j.at, e)
           u == Mount(tree, j.at, e)
<1>1. /\ j \in DavJobs /\ OfOp(j) /\ Alone(tree, j) /\ tree \in Trees /\ WellFormed(tree) /\ j.at \in Paths
      /\ j.pc = "MKCOL" /\ j.req.op = "MKCOL" /\ j.at = j.req.path /\ HasHeaders(j.req)
  BY JobOf DEF Mkcol, OfOp, Methods
<1>2. CASE err # None
  <2>1. Look(c, Reply(j, err))
    BY <1>2 DEF Mkcol, MountAt
  <2>2. err \in DavCodes \ {"ok", "429"}
    BY <1>2, MountErrorFacts DEF DavCodes, Errors
  <2> HIDE DEF err
  <2>3. QED
    BY <1>1, <2>1, <2>2, DavFail DEF LateSteps
<1>3. CASE err = None
  <2>1. Change(c, u, j.at, To(j, "invalidate")) /\ ~Mounted(tree, j.at)
    BY <1>3, MountErrorFacts DEF Mkcol, MountAt
  <2>2. e \in Entry /\ e.kind = "dir"
    BY DEF Entry, Kinds
  <2> HIDE DEF e
  <2>3. ChangedAt(tree, u, j.at) /\ u.mount[j.at] = e
    BY <1>1, <2>2, MountChanges
  <2> HIDE DEF u
  <2>4. j.before # None => Done(u, j)
    <3>1. j.before # None => j.before = tree
      BY <1>1 DEF Alone, LateSteps
    <3>2. MatchHolds(tree, j.req)
      BY <1>1 DEF MatchHolds, HasHeaders
    <3>3. QED
      BY <1>1, <2>1, <2>2, <2>3, <3>1, <3>2 DEF Done, OnlyChanged, ChangedAt
  <2>5. QED
    BY <1>1, <2>1, <2>3, <2>4, DavMakes
<1>4. QED
  BY <1>2, <1>3

LEMMA DeleteKeeps ==
  ASSUME DavInv, NEW c \in Clients, Delete(c) PROVE DavInv'
<1> DEFINE j == job[c]
           u == Unmount(tree, j.at)
<1>1. /\ j \in DavJobs /\ OfOp(j) /\ Alone(tree, j) /\ tree \in Trees /\ WellFormed(tree) /\ j.at \in Paths
      /\ j.pc = "DELETE" /\ j.req.op = "DELETE" /\ j.at = j.req.path /\ HasHeaders(j.req)
  BY JobOf DEF Delete, OfOp, Methods
<1>2. CASE ~Mounted(tree, j.at)
  <2>1. Look(c, Reply(j, "ENOENT"))
    BY <1>2 DEF Delete, UnmountAt
  <2>2. QED
    BY <1>1, <2>1, DavFail DEF LateSteps, DavCodes, Errors
<1>3. CASE Mounted(tree, j.at)
  <2>1. Change(c, u, j.at, To(j, "invalidate"))
    BY <1>3 DEF Delete, UnmountAt
  <2>2. ChangedAt(tree, u, j.at) /\ u.mount[j.at] = None
    BY <1>1, UnmountChanges
  <2> HIDE DEF u
  <2>3. j.before # None => Done(u, j)
    <3>1. j.before # None => j.before = tree
      BY <1>1 DEF Alone, LateSteps
    <3>2. MatchHolds(tree, j.req)
      BY <1>1 DEF MatchHolds, HasHeaders
    <3>3. QED
      BY <1>1, <1>3, <2>2, <3>1, <3>2 DEF Done, OnlyChanged, ChangedAt, Mounted
  <2>4. QED
    BY <1>1, <2>1, <2>2, <2>3, DavMakes
<1>4. QED
  BY <1>2, <1>3

\* The steps of a COPY or MOVE before anything is changed.
LEMMA DavCopyGoes ==
  ASSUME DavInv, NEW c \in Clients, job[c].pc \in CopySteps, NEW l \in CopySteps, Look(c, To(job[c], l)),
         job[c].pc \in {"noneMatch", "overwrite", "clear", "clearDst"},
         l \in {"overwrite", "clear", "clearDst", "source"},
         LET b == job[c].before  r == job[c].req IN
         b # None => /\ l = "overwrite" => NoneHolds(b, r)
                     /\ l \in {"clear", "clearDst"} => MayWrite(b, r)
                     /\ l = "source" => Cleared(tree, b, r)
  PROVE  DavInv'
<1> DEFINE j == job[c]
           k == To(j, l)
<1>1. j \in DavJobs /\ OfOp(j) /\ Owing(j) /\ Alone(tree, j) /\ j.req.op \in {"COPY", "MOVE"}
  BY JobOf DEF OfOp, CopySteps
<1>2. /\ k \in DavJobs /\ k.pc = l /\ k.req = j.req /\ k.at = j.at /\ k.code = j.code /\ k.before = j.before
      /\ k.owes = j.owes
  <2>1. l \in Steps
    BY DEF Steps
  <2>2. QED
    BY <1>1, <2>1, ToFields
<1>3. Look(c, k)
  OBVIOUS
<1> HIDE DEF k
<1>4. OfOp(k) /\ Owing(k) /\ Saw(tree, k)
  BY <1>1, <1>2 DEF OfOp, Owing, Saw, Methods, CopySteps, FindSteps, LateSteps
<1>5. Alone(tree, k)
  BY <1>1, <1>2 DEF Alone, LateSteps, FindSteps
<1>6. QED
  BY <1>2, <1>3, <1>4, <1>5, DavGoes

\* ... COPY and MOVE up to the removal of the destination, ...
LEMMA NoneMatchKeeps ==
  ASSUME DavInv, NEW c \in Clients, NoneMatch(c) PROVE DavInv'
<1> DEFINE j == job[c]
           dst == j.req.dst
           Fails == \/ j.req.ifNone = "*" /\ Found(tree, dst)
                    \/ j.req.ifNone \in Data /\ Read(tree, dst) = Answer(None, j.req.ifNone)
<1>1. Alone(tree, j) /\ j.pc = "noneMatch" /\ Look(c, IF Fails THEN Reply(j, "412") ELSE To(j, "overwrite"))
  BY JobOf DEF NoneMatch
<1>2. CASE Fails
  BY <1>1, <1>2, DavFail DEF LateSteps, DavCodes
<1>3. CASE ~Fails
  <2>1. j.before # None => NoneHolds(j.before, j.req)
    BY <1>1, <1>3 DEF Alone, NoneHolds, LateSteps
  <2>2. QED
    BY <1>1, <1>3, <2>1, DavCopyGoes DEF CopySteps
<1>4. QED
  BY <1>2, <1>3

LEMMA OverwriteKeeps ==
  ASSUME DavInv, NEW c \in Clients, Overwrite(c) PROVE DavInv'
<1> DEFINE j == job[c]
           Fails == ~j.req.overwrite /\ Found(tree, j.req.dst)
<1>1. Alone(tree, j) /\ j.pc = "overwrite" /\ Look(c, IF Fails THEN Reply(j, "412") ELSE To(j, "clear"))
  BY JobOf DEF Overwrite
<1>2. CASE Fails
  BY <1>1, <1>2, DavFail DEF LateSteps, DavCodes
<1>3. CASE ~Fails
  <2>1. j.before # None => MayWrite(j.before, j.req)
    BY <1>1, <1>3 DEF Alone, MayWrite, LateSteps
  <2>2. QED
    BY <1>1, <1>3, <2>1, DavCopyGoes DEF CopySteps
<1>4. QED
  BY <1>2, <1>3

LEMMA ClearKeeps ==
  ASSUME DavInv, NEW c \in Clients, Clear(c) PROVE DavInv'
<1> DEFINE j == job[c]
           l == IF Found(tree, j.req.dst) THEN "clearDst" ELSE "source"
<1>1. Alone(tree, j) /\ j.pc = "clear" /\ Look(c, To(j, l)) /\ l \in {"clearDst", "source"}
  BY JobOf DEF Clear
<1>2. j.before # None => /\ MayWrite(j.before, j.req)
                         /\ l = "source" => Cleared(tree, j.before, j.req)
  BY <1>1 DEF Alone, Cleared, OnlyChanged, Found, LateSteps
<1> HIDE DEF l
<1>3. QED
  BY <1>1, <1>2, DavCopyGoes DEF CopySteps

LEMMA ClearDstKeeps ==
  ASSUME DavInv, NEW c \in Clients, ClearDst(c) PROVE DavInv'
<1> DEFINE j == job[c]
           dst == j.req.dst
           u == Unmount(tree, dst)
<1>1. /\ j \in DavJobs /\ OfOp(j) /\ Alone(tree, j) /\ tree \in Trees /\ WellFormed(tree)
      /\ j.pc = "clearDst" /\ j.req.op \in {"COPY", "MOVE"} /\ j.at = j.req.path /\ dst \in Paths
  BY JobOf DEF ClearDst, OfOp, CopySteps
<1>2. To(j, "source").req = j.req
  BY <1>1, ToFields DEF Steps
<1>3. j.before # None => j.before = tree /\ MayWrite(tree, j.req) /\ MatchHolds(tree, j.req)
  BY <1>1 DEF Alone, LateSteps
<1>4. CASE ~Mounted(tree, dst)
  <2>1. Look(c, To(j, "source"))
    BY <1>2, <1>4 DEF ClearDst
  <2>2. j.before # None => Cleared(tree, j.before, j.req)
    BY <1>3, <1>4 DEF Cleared, OnlyChanged
  <2>3. QED
    BY <1>1, <2>1, <2>2, DavCopyGoes DEF CopySteps
<1>5. CASE Mounted(tree, dst)
  <2>1. Change(c, u, dst, To(j, "source"))
    BY <1>2, <1>5 DEF ClearDst
  <2>2. ChangedAt(tree, u, dst) /\ u.mount[dst] = None /\ u.nodes = tree.nodes
    BY <1>1, UnmountChanges
  <2> HIDE DEF u
  <2>3. j.before # None => Cleared(u, j.before, j.req)
    BY <1>3, <2>2 DEF Cleared, OnlyChanged, ChangedAt, Mounted
  <2>4. QED
    BY <1>1, <2>1, <2>2, <2>3, DavMakes
<1>6. QED
  BY <1>4, <1>5

\* Writing what is there changes nothing.
LEMMA SameData ==
  ASSUME NEW e \in Entry PROVE [e EXCEPT !.data = e.data] = e
  BY DEF Entry

\* What Stat and Read tell depends on the nodes and the path's own mount.
LEMMA SameAt ==
  ASSUME NEW t \in Trees, NEW u \in Trees, NEW p \in Paths, u.nodes = t.nodes, u.mount[p] = t.mount[p]
  PROVE  Stat(u, p) = Stat(t, p) /\ Read(u, p) = Read(t, p) /\ (Found(u, p) <=> Found(t, p))
<1>1. Found(u, p) <=> Found(t, p)
  BY DEF Found, Mounted, Children
<1>2. Stat(u, p) = Stat(t, p)
  BY <1>1 DEF Stat, Mounted
<1>3. Read(u, p) = Read(t, p)
  BY <1>1 DEF Read, Mounted
<1>4. QED
  BY <1>1, <1>2, <1>3

\* ... and from there on, ...
LEMMA SourceKeeps ==
  ASSUME DavInv, NEW c \in Clients, Source(c) PROVE DavInv'
<1> DEFINE j == job[c]
           s == Stat(tree, j.at)
           l == IF s.value.kind = "dir" THEN "target" ELSE "sourceData"
           m == [j EXCEPT !.stat = s.value, !.body = Empty]
           k == To(m, l)
<1>1. /\ j \in DavJobs /\ OfOp(j) /\ Owing(j) /\ Alone(tree, j) /\ tree \in Trees /\ j.at \in Paths
      /\ j.pc = "source" /\ j.req.op \in {"COPY", "MOVE"} /\ j.at = j.req.path /\ (j.before # None => j.before \in Trees)
  BY JobOf DEF Source, OfOp, CopySteps
<1>2. j.before # None => Cleared(tree, j.before, j.req)
  BY <1>1 DEF Alone
<1>3. s.value \in Entry /\ s.err \in {None, "ENOENT"} /\ s = Answer(s.err, s.value) /\ (s.err = None <=> Found(tree, j.at))
  BY <1>1, StatFacts
<1>4. CASE s.err # None
  <2>1. Look(c, Reply(j, "ENOENT")) /\ "ENOENT" \in DavCodes \ {"ok", "429"}
    BY <1>3, <1>4 DEF Source, DavCodes, Errors
  <2>2. ASSUME j.before # None PROVE Failed(tree, Reply(j, "ENOENT"))
    <3> DEFINE f == Reply(j, "ENOENT")
    <3>1. f.req = j.req /\ f.before = j.before /\ f.code = "ENOENT"
      BY <1>1, <2>1, ReplyFields
    <3> HIDE DEF f
    <3>2. OnlyChanged(tree, j.before, {j.req.dst}) /\ tree.nodes = j.before.nodes
      BY <1>2, <2>2 DEF Cleared
    <3>3. j.req.path = j.req.dst \/ ~Found(j.before, j.req.path)
      <4>1. SUFFICES ASSUME j.at # j.req.dst PROVE ~Found(j.before, j.at)
        BY <1>1
      <4>2. tree.mount[j.at] = j.before.mount[j.at]
        BY <1>1, <3>2, <4>1 DEF OnlyChanged
      <4>3. QED
        BY <1>1, <1>3, <1>4, <2>2, <3>2, <4>2, SameAt
    <3>4. Failed(tree, f)
      BY <1>1, <3>1, <3>2, <3>3 DEF Failed
    <3>5. QED
      BY <3>4 DEF f
  <2>3. QED
    BY <1>1, <2>1, <2>2, DavLateFail
<1>5. CASE s.err = None
  <2>1. Look(c, k)
    BY <1>5 DEF Source
  <2>2. /\ m \in DavJobs /\ m.req = j.req /\ m.at = j.at /\ m.code = j.code /\ m.before = j.before /\ m.owes = j.owes
        /\ m.stat = s.value /\ m.body = Empty
    BY <1>1, <1>3 DEF DavJobs
  <2>3. l \in Steps /\ l \in {"target", "sourceData"} /\ (l = "target" <=> s.value.kind = "dir")
    BY DEF Steps
  <2> HIDE DEF m, l
  <2>4. /\ k \in DavJobs /\ k.pc = l /\ k.req = j.req /\ k.at = j.at /\ k.code = j.code /\ k.before = j.before
        /\ k.owes = j.owes /\ k.stat = s.value /\ k.body = Empty
    BY <2>2, <2>3, ToFields
  <2> HIDE DEF k
  <2>5. OfOp(k) /\ Owing(k) /\ Saw(tree, k)
    BY <1>1, <2>3, <2>4 DEF OfOp, Owing, Saw, Methods, CopySteps, FindSteps, LateSteps
  <2>6. l = "target" => Read(tree, j.at).value = Empty
    BY <1>1, <2>3, ReadFacts
  <2>7. Stat(tree, j.at) = Answer(None, s.value)
    BY <1>3, <1>5
  <2> HIDE DEF s
  <2>8. Alone(tree, k)
    BY <1>2, <2>3, <2>4, <2>6, <2>7 DEF Alone, LateSteps, FindSteps
  <2>9. k.pc \notin {"idle", "acquire", "reply"}
    BY <2>3, <2>4
  <2>10. QED
    BY <1>1, <2>1, <2>4, <2>5, <2>8, <2>9, DavGoes
<1>6. QED
  BY <1>4, <1>5

LEMMA SourceDataKeeps ==
  ASSUME DavInv, NEW c \in Clients, SourceData(c) PROVE DavInv'
<1> DEFINE j == job[c]
           r == Read(tree, j.at)
           m == [j EXCEPT !.body = r.value]
           k == To(m, "target")
<1>1. /\ j \in DavJobs /\ OfOp(j) /\ Owing(j) /\ Alone(tree, j) /\ tree \in Trees /\ j.at \in Paths
      /\ j.pc = "sourceData" /\ j.req.op \in {"COPY", "MOVE"} /\ j.at = j.req.path
  BY JobOf DEF SourceData, OfOp, CopySteps
<1>2. j.before # None => /\ Cleared(tree, j.before, j.req) /\ Stat(tree, j.at) = Answer(None, j.stat)
                         /\ j.stat.kind # "dir"
  BY <1>1 DEF Alone
<1>3. r.value \in Data \cup {Empty} /\ r.err \in Errors \cup {None}
  BY <1>1, ReadFacts
<1>4. ASSUME j.before # None PROVE r.err = None
  <2>1. Stat(tree, j.at).value.kind # "dir"
    BY <1>2, <1>4 DEF Answer
  <2>2. Mounted(tree, j.at) /\ Stat(tree, j.at).value = tree.mount[j.at]
    BY <1>1, <2>1, StatFacts DEF IntermediateDir
  <2>3. QED
    BY <1>1, <2>1, <2>2, ReadFacts
<1>5. CASE r.err # None
  <2>1. Look(c, Reply(j, r.err)) /\ r.err \in DavCodes \ {"ok", "429"}
    BY <1>3, <1>5 DEF SourceData, DavCodes, Errors
  <2> HIDE DEF r
  <2>2. QED
    BY <1>1, <1>4, <1>5, <2>1, DavLateFail
<1>6. CASE r.err = None
  <2>1. Look(c, k)
    BY <1>6 DEF SourceData
  <2>2. /\ m \in DavJobs /\ m.req = j.req /\ m.at = j.at /\ m.code = j.code /\ m.before = j.before /\ m.owes = j.owes
        /\ m.stat = j.stat /\ m.body = r.value
    BY <1>1, <1>3 DEF DavJobs
  <2> HIDE DEF m
  <2>3. /\ k \in DavJobs /\ k.pc = "target" /\ k.req = j.req /\ k.at = j.at /\ k.code = j.code /\ k.before = j.before
        /\ k.owes = j.owes /\ k.stat = j.stat /\ k.body = r.value
    BY <2>2, ToFields DEF Steps
  <2> HIDE DEF k
  <2>4. OfOp(k) /\ Owing(k) /\ Saw(tree, k)
    BY <1>1, <2>3 DEF OfOp, Owing, Saw, Methods, CopySteps, FindSteps, LateSteps
  <2>5. Alone(tree, k)
    BY <1>2, <2>3 DEF Alone, LateSteps, FindSteps
  <2>6. QED
    BY <1>1, <2>1, <2>3, <2>4, <2>5, DavGoes
<1>7. QED
  BY <1>5, <1>6

LEMMA TargetKeeps ==
  ASSUME DavInv, NEW c \in Clients, Target(c) PROVE DavInv'
<1> DEFINE j == job[c]
           b == j.before
           dst == j.req.dst
           e == [j.stat EXCEPT !.data = j.body]
           err == MountError(tree, dst, e)
           l == IF j.req.op = "MOVE" THEN "unmountSrc" ELSE "invalidate"
           u == Mount(tree, dst, e)
<1>1. /\ j \in DavJobs /\ OfOp(j) /\ Alone(tree, j) /\ tree \in Trees /\ WellFormed(tree) /\ j.at \in Paths
      /\ j.pc = "target" /\ j.req.op \in {"COPY", "MOVE"} /\ j.at = j.req.path /\ dst \in Paths
      /\ (b # None => b \in Trees)
  BY JobOf DEF Target, OfOp, CopySteps
<1>2. e \in Entry
  BY <1>1 DEF DavJobs, Entry
<1>3. ASSUME b # None
      PROVE  /\ tree.nodes = b.nodes /\ OnlyChanged(tree, b, {dst}) /\ ~Mounted(tree, dst)
             /\ MayWrite(b, j.req) /\ MatchHolds(b, j.req) /\ e = CopyOf(b, j.req)
  <2>1. /\ tree.nodes = b.nodes /\ OnlyChanged(tree, b, {dst}) /\ ~Mounted(tree, dst)
        /\ MayWrite(b, j.req) /\ MatchHolds(b, j.req) /\ b \in Trees
    BY <1>1, <1>3 DEF Alone, Cleared
  <2>2. Stat(tree, j.at).value = j.stat /\ Read(tree, j.at).value = j.body
    BY <1>1, <1>3 DEF Alone, Answer
  <2>3. CASE j.at = dst
    <3>1. j.stat = IntermediateDir
      BY <1>1, <2>1, <2>2, <2>3, StatFacts
    <3>2. j.body = Empty
      <4>1. Read(tree, j.at).value = Empty
        BY <1>1, <2>2, <3>1, ReadFacts DEF IntermediateDir
      <4>2. QED
        BY <2>2, <4>1
    <3>3. [IntermediateDir EXCEPT !.data = Empty] = IntermediateDir
      <4>1. IntermediateDir \in Entry /\ IntermediateDir.data = Empty
        BY DEF IntermediateDir, Entry, Kinds
      <4>2. QED
        BY <4>1, SameData
    <3>4. CopyOf(b, j.req) = IntermediateDir
      BY <1>1, <2>3 DEF CopyOf
    <3>5. QED
      BY <2>1, <3>1, <3>2, <3>3, <3>4
  <2>4. CASE j.at # dst
    <3>1. tree.mount[j.at] = b.mount[j.at]
      BY <1>1, <2>1, <2>4 DEF OnlyChanged
    <3>2. Stat(b, j.at) = Stat(tree, j.at) /\ Read(b, j.at) = Read(tree, j.at)
      BY <1>1, <2>1, <3>1, SameAt
    <3>3. QED
      BY <1>1, <2>1, <2>2, <2>4, <3>2 DEF CopyOf
  <2>5. QED
    BY <2>3, <2>4
<1> HIDE DEF e
<1>4. CASE err # None
  <2>1. Look(c, Reply(j, err)) /\ err \in DavCodes \ {"ok", "429", "412", "403"}
    BY <1>4, MountErrorFacts DEF Target, MountAt, e, DavCodes, Errors
  <2>2. ASSUME b # None PROVE Failed(tree, Reply(j, err))
    <3> DEFINE f == Reply(j, err)
    <3>1. f.req = j.req /\ f.before = b /\ f.code = err
      BY <1>1, <2>1, ReplyFields
    <3> HIDE DEF f
    <3>2. Unmount(b, dst).mount = tree.mount
      <4>1. Unmount(b, dst) \in Trees /\ Unmount(b, dst).mount = [b.mount EXCEPT ![dst] = None]
        BY <1>1, <2>2, UnmountFacts
      <4>2. \A q \in Paths : tree.mount[q] = Unmount(b, dst).mount[q]
        BY <1>1, <1>3, <2>2, <4>1 DEF OnlyChanged, Mounted, Trees
      <4>3. QED
        BY <1>1, <4>1, <4>2 DEF Trees
    <3>3. MountError(Unmount(b, dst), dst, CopyOf(b, j.req)) # None
      BY <1>3, <1>4, <2>2, <3>2, MountErrorFacts
    <3>4. Failed(tree, f)
      BY <1>1, <1>3, <2>1, <2>2, <3>1, <3>3 DEF Failed
    <3>5. QED
      BY <3>4 DEF f
  <2> HIDE DEF err
  <2>3. QED
    BY <1>1, <2>1, <2>2, DavLateFail
<1>5. CASE err = None
  <2>1. Change(c, u, dst, To(j, l)) /\ l \in {"unmountSrc", "invalidate"} /\ (l = "unmountSrc" <=> j.req.op = "MOVE")
    BY <1>5 DEF Target, MountAt, e
  <2> HIDE DEF l
  <2>2. ChangedAt(tree, u, dst) /\ u.mount[dst] = e
    BY <1>1, <1>2, MountChanges
  <2> HIDE DEF u
  <2>3. ASSUME b # None
        PROVE  /\ OnlyChanged(u, b, {dst}) /\ u.mount[dst] = CopyOf(b, j.req)
               /\ MayWrite(b, j.req) /\ MatchHolds(b, j.req)
    BY <1>3, <2>2, <2>3 DEF OnlyChanged, ChangedAt
  <2>4. ASSUME b # None, j.req.op = "COPY" PROVE Done(u, j)
    BY <2>3, <2>4 DEF Done, MayWrite, NoneHolds
  <2>5. l = "invalidate" => j.req.op = "COPY"
    BY <1>1, <2>1
  <2>6. QED
    BY <1>1, <2>1, <2>2, <2>3, <2>4, <2>5, DavMakes
<1>6. QED
  BY <1>4, <1>5

LEMMA UnmountSrcKeeps ==
  ASSUME DavInv, NEW c \in Clients, UnmountSrc(c) PROVE DavInv'
<1> DEFINE j == job[c]
           dst == j.req.dst
           b == j.before
           u == Unmount(tree, j.at)
<1>1. /\ j \in DavJobs /\ OfOp(j) /\ Alone(tree, j) /\ tree \in Trees /\ WellFormed(tree) /\ j.at \in Paths
      /\ j.pc = "unmountSrc" /\ j.req.op = "MOVE" /\ j.at = j.req.path /\ dst \in Paths
  BY JobOf DEF UnmountSrc, OfOp, CopySteps
<1>2. b # None => /\ OnlyChanged(tree, b, {dst}) /\ tree.mount[dst] = CopyOf(b, j.req)
                  /\ MayWrite(b, j.req) /\ MatchHolds(b, j.req)
  BY <1>1 DEF Alone
<1>3. b # None /\ j.at # dst => tree.mount[j.at] = b.mount[j.at]
  BY <1>1, <1>2 DEF OnlyChanged
<1>4. CASE ~Mounted(tree, j.at)
  <2>1. Look(c, Reply(j, "ENOENT")) /\ "ENOENT" \in DavCodes \ {"ok", "429"}
    BY <1>4 DEF UnmountSrc, UnmountAt, DavCodes, Errors
  <2>2. ASSUME b # None PROVE Failed(tree, Reply(j, "ENOENT"))
    <3> DEFINE f == Reply(j, "ENOENT")
    <3>1. f.req = j.req /\ f.before = b /\ f.code = "ENOENT"
      BY <1>1, <2>1, ReplyFields
    <3> HIDE DEF f
    <3>2. Failed(tree, f)
      BY <1>1, <1>2, <1>3, <1>4, <2>2, <3>1 DEF Failed, Mounted
    <3>3. QED
      BY <3>2 DEF f
  <2>3. QED
    BY <1>1, <2>1, <2>2, DavLateFail
<1>5. CASE Mounted(tree, j.at)
  <2>1. Change(c, u, j.at, To(j, "invalidate"))
    BY <1>5 DEF UnmountSrc, UnmountAt
  <2>2. ChangedAt(tree, u, j.at) /\ u.mount[j.at] = None
    BY <1>1, UnmountChanges
  <2> HIDE DEF u
  <2>3. ASSUME b # None PROVE Done(u, j)
    <3>1. OnlyChanged(u, b, {j.at, dst}) /\ ~Mounted(u, j.at)
      BY <1>2, <2>2, <2>3 DEF OnlyChanged, ChangedAt, Mounted
    <3>2. j.at # dst => Mounted(b, j.at) /\ u.mount[dst] = CopyOf(b, j.req)
      BY <1>1, <1>2, <1>3, <1>5, <2>2, <2>3 DEF ChangedAt, Mounted
    <3>3. QED
      BY <1>1, <1>2, <2>3, <3>1, <3>2 DEF Done, MayWrite, NoneHolds
  <2>4. QED
    BY <1>1, <2>1, <2>2, <2>3, DavMakes
<1>6. QED
  BY <1>4, <1>5

\* An invalidation pays what is owed for the path, and takes nothing away that another
\* owes.
LEMMA DavInvalidates ==
  ASSUME DavInv, NEW c \in Clients, job[c].pc \in {"invalidate", "invalidateDst"},
         NEW p \in Paths, p \in {job[c].at, job[c].req.dst}, NEW k \in DavJobs, Invalidate(c, p, k),
         k.owes = job[c].owes, k.pc \in {"invalidateDst", "reply"}, k.code \in {"", "ok"},
         OfOp(k), Alone(tree, k), k.at = job[c].at, k.req = job[c].req,
         k.pc = "invalidateDst" => k.owes \ {p} \subseteq {k.req.dst},
         k.pc = "reply" => k.owes \ {p} = {}
  PROVE  DavInv'
<1> DEFINE m == [k EXCEPT !.owes = @ \ {p}]
<1>1. /\ Step(c, m) /\ cache' = [q \in Paths |-> IF q \in Covered(p) THEN None ELSE cache[q]]
      /\ forgiven' = forgiven \ Covered(p)
  BY DEF Invalidate
<1>2. /\ m \in DavJobs /\ m.pc = k.pc /\ m.req = k.req /\ m.at = k.at /\ m.code = k.code /\ m.before = k.before
      /\ m.left = k.left /\ m.work = k.work /\ m.stat = k.stat /\ m.body = k.body /\ m.found = k.found
      /\ m.owes = k.owes \ {p}
  BY DEF DavJobs
<1> HIDE DEF m
<1>3. Owing(job[c])
  BY JobOf
<1>4. OfOp(m) /\ Saw(tree, m)
  BY <1>2 DEF OfOp, Saw
<1>5. Owing(m)
  BY <1>2, <1>3 DEF Owing, LateSteps
<1>6. Alone(tree, m)
  <2>1. /\ m.before # None /\ m.pc = "invalidateDst" => Done(tree, m)
        /\ m.before # None /\ m.pc = "reply" => IF m.code = "ok" THEN Done(tree, m) ELSE Failed(tree, m)
    BY <1>2 DEF Alone, Done, Failed
  <2>2. QED
    BY <1>2, <2>1 DEF Alone, LateSteps, FindSteps
<1>7. p \in Covered(p)
  BY AboveRefl DEF Covered
<1>8. cache' \in [Paths -> CacheEntries \cup {None}] /\ forgiven' \subseteq Paths
  BY <1>1 DEF DavInv
<1>9. StaleHasReason'
  <2>1. job \in [Clients -> DavJobs]
    BY DEF DavInv
  <2>2. tree' = tree /\ job' = [job EXCEPT ![c] = m]
    BY <1>1 DEF Step
  <2>3. \A d \in Clients : job[d].owes \ {p} \subseteq job'[d].owes
    BY <1>2, <2>1, <2>2
  <2> SUFFICES ASSUME NEW q \in Paths, cache'[q] # None, cache'[q] # Props(tree, q)
               PROVE  q \in forgiven' \/ \E d \in Clients : q \in job'[d].owes
    BY <2>2 DEF StaleHasReason
  <2>4. q \notin Covered(p) /\ cache'[q] = cache[q]
    BY <1>1
  <2>5. q \in forgiven \/ \E d \in Clients : q \in job[d].owes
    BY <2>4 DEF DavInv, StaleHasReason
  <2>6. QED
    BY <1>1, <1>7, <2>3, <2>4, <2>5
<1>10. QED
  BY <1>1, <1>2, <1>4, <1>5, <1>6, <1>8, <1>9, StepKeeps DEF Sound

\* ... the invalidations that end a change, ...
LEMMA InvalidateSrcKeeps ==
  ASSUME DavInv, NEW c \in Clients, InvalidateSrc(c) PROVE DavInv'
<1> DEFINE j == job[c]
<1>1. /\ j \in DavJobs /\ OfOp(j) /\ Owing(j) /\ Alone(tree, j) /\ j.at \in Paths /\ j.pc = "invalidate"
      /\ j.req.op \in {"PUT", "DELETE", "MKCOL", "COPY", "MOVE", "PROPPATCH"} /\ HasHeaders(j.req) /\ j.code = ""
      /\ j.at = j.req.path
  BY JobOf DEF InvalidateSrc, OfOp
<1>2. (j.before # None => Done(tree, j)) /\ j.owes \subseteq {j.at, j.req.dst}
  BY <1>1 DEF Alone, Owing
<1>3. CASE j.req.dst = None
  <2> DEFINE k == Reply(j, "ok")
  <2>1. Invalidate(c, j.at, k)
    BY <1>3 DEF InvalidateSrc
  <2>2. "ok" \in DavCodes
    BY DEF DavCodes
  <2>3. /\ k \in DavJobs /\ k.pc = "reply" /\ k.req = j.req /\ k.at = j.at /\ k.code = "ok" /\ k.before = j.before
        /\ k.owes = j.owes /\ k.stat = j.stat /\ k.body = j.body /\ k.found = j.found
    BY <1>1, <2>2, ReplyFields
  <2> HIDE DEF k
  <2>4. OfOp(k)
    BY <1>1, <2>3 DEF OfOp, Methods, CopySteps, FindSteps
  <2>5. k.before # None => Done(tree, k)
    BY <1>2, <2>3 DEF Done
  <2>6. Alone(tree, k)
    BY <2>3, <2>5 DEF Alone, LateSteps, FindSteps
  <2>7. k.owes \ {j.at} = {}
    <3>1. None \notin Paths /\ k.owes \subseteq Paths
      BY <2>3, PathsAssumption DEF DavJobs
    <3>2. QED
      BY <1>2, <1>3, <2>3, <3>1
  <2>8. QED
    BY <1>1, <2>1, <2>3, <2>4, <2>6, <2>7, DavInvalidates
<1>4. CASE j.req.dst # None
  <2> DEFINE k == To(j, "invalidateDst")
  <2>1. Invalidate(c, j.at, k)
    BY <1>4 DEF InvalidateSrc
  <2>2. /\ k \in DavJobs /\ k.pc = "invalidateDst" /\ k.req = j.req /\ k.at = j.at /\ k.code = j.code /\ k.before = j.before
        /\ k.owes = j.owes /\ k.stat = j.stat /\ k.body = j.body /\ k.found = j.found
    BY <1>1, ToFields DEF Steps
  <2> HIDE DEF k
  <2>3. OfOp(k)
    BY <1>1, <1>4, <2>2 DEF OfOp, Methods, CopySteps, FindSteps, HasHeaders
  <2>4. k.before # None => Done(tree, k)
    BY <1>2, <2>2 DEF Done
  <2>5. Alone(tree, k)
    BY <2>2, <2>4 DEF Alone, LateSteps, FindSteps
  <2>6. k.owes \ {j.at} \subseteq {k.req.dst}
    BY <1>2, <2>2
  <2>7. QED
    BY <1>1, <2>1, <2>2, <2>3, <2>5, <2>6, DavInvalidates
<1>5. QED
  BY <1>3, <1>4

LEMMA InvalidateDstKeeps ==
  ASSUME DavInv, NEW c \in Clients, InvalidateDst(c) PROVE DavInv'
<1> DEFINE j == job[c]
           k == Reply(j, "ok")
<1>1. /\ j \in DavJobs /\ OfOp(j) /\ Owing(j) /\ Alone(tree, j) /\ j.at \in Paths /\ j.pc = "invalidateDst"
      /\ j.req.op \in {"COPY", "MOVE"} /\ j.req.dst \in Paths /\ j.code = "" /\ j.at = j.req.path
      /\ Invalidate(c, j.req.dst, k)
  BY JobOf DEF InvalidateDst, OfOp
<1>2. (j.before # None => Done(tree, j)) /\ j.owes \subseteq {j.req.dst}
  BY <1>1 DEF Alone, Owing
<1>3. "ok" \in DavCodes
  BY DEF DavCodes
<1>4. /\ k \in DavJobs /\ k.pc = "reply" /\ k.req = j.req /\ k.at = j.at /\ k.code = "ok" /\ k.before = j.before
      /\ k.owes = j.owes /\ k.stat = j.stat /\ k.body = j.body /\ k.found = j.found
  BY <1>1, <1>3, ReplyFields
<1> HIDE DEF k
<1>5. OfOp(k)
  BY <1>1, <1>4 DEF OfOp, Methods, CopySteps, FindSteps
<1>6. k.before # None => Done(tree, k)
  BY <1>2, <1>4 DEF Done
<1>7. Alone(tree, k)
  BY <1>4, <1>6 DEF Alone, LateSteps, FindSteps
<1>8. k.owes \ {j.req.dst} = {}
  BY <1>2, <1>4
<1>9. QED
  BY <1>1, <1>4, <1>5, <1>7, <1>8, DavInvalidates

-----------------------------------------------------------------------------
\* Two beginnings of a path: the shorter is above the longer, and if they are equally
\* long they are the same.
LEMMA AboveBoth ==
  ASSUME NEW p \in Paths, NEW q \in Paths, NEW x \in Paths, Above(p, x), Above(q, x), Len(p) <= Len(q)
  PROVE  Above(p, q)
<1>1. Len(p) \in Nat /\ Len(q) \in Nat /\ Len(x) \in Nat
  BY PathsAssumption
<1>2. /\ \A i \in 1 .. Len(p) : x[i] = p[i]
      /\ \A i \in 1 .. Len(q) : x[i] = q[i]
  BY AboveEach
<1>3. \A i \in 1 .. Len(p) : i \in 1 .. Len(q)
  BY <1>1
<1>4. QED
  BY <1>2, <1>3, AboveEach

LEMMA AboveSame ==
  ASSUME NEW p \in Paths, NEW q \in Paths, Above(p, q), Len(q) <= Len(p) PROVE p = q
<1>1. p \in Seq(STRING) /\ q \in Seq(STRING) /\ Len(p) \in Nat /\ Len(q) \in Nat
  BY PathsAssumption
<1>2. Len(p) = Len(q) /\ \A i \in 1 .. Len(p) : q[i] = p[i]
  BY <1>1, AboveEach
<1>3. QED
  BY <1>1, <1>2, SeqEqual

\* A member of a directory is one longer, and below it.
LEMMA ChildBelow ==
  ASSUME NEW t \in Trees, NEW p \in Paths, NEW q \in Children(t, p)
  PROVE  q \in Paths /\ Above(p, q) /\ Len(q) = Len(p) + 1
<1>1. q \in Paths /\ q # <<>> /\ SubSeq(q, 1, Len(q) - 1) = p
  BY DEF Children, Trees, Parent
<1>2. q \in Seq(STRING) /\ Len(q) \in Nat
  BY <1>1, PathsAssumption
<1>3. Len(q) >= 1
  BY <1>1, <1>2
<1> DEFINE n == Len(q) - 1
<1>4. n \in Nat /\ n <= Len(q) /\ Len(q) = n + 1
  BY <1>2, <1>3
<1>5. Len(SubSeq(q, 1, n)) = n
  BY <1>2, <1>4
<1>6. Len(p) = n
  BY <1>1, <1>5
<1>7. SubSeq(q, 1, Len(p)) = p
  BY <1>1, <1>6
<1> HIDE DEF n
<1>8. QED
  BY <1>1, <1>4, <1>6, <1>7 DEF Above

\* On the way from a path down to a node there is a member of the path's directory.
LEMMA WayDown ==
  ASSUME NEW t \in Trees, WellFormed(t), NEW p \in Paths, NEW x \in t.nodes, Above(p, x), x # p
  PROVE  p \in t.nodes /\ \E q \in Children(t, p) : Above(q, x)
<1>1. x \in Paths /\ p \in Seq(STRING) /\ x \in Seq(STRING) /\ Len(p) \in Nat /\ Len(x) \in Nat
  BY PathsAssumption DEF Trees
<1>2. p \in t.nodes
  BY DEF WellFormed
<1>3. Len(p) < Len(x)
  BY <1>1, AboveSame
<1> DEFINE n == Len(p) + 1
           q == SubSeq(x, 1, n)
<1>4. n \in 0 .. Len(x) /\ n \in Nat /\ n - 1 = Len(p)
  BY <1>1, <1>3
<1> HIDE DEF n
<1>5. q \in Paths
  BY <1>1, <1>4, PathsAssumption
<1>6. q \in Seq(STRING) /\ Len(q) = n /\ \A i \in 1 .. n : q[i] = x[i]
  BY <1>1, <1>4
<1> HIDE DEF q
<1>7. Above(q, x)
  BY <1>1, <1>4, <1>5, <1>6, AboveEach
<1>8. q \in t.nodes
  BY <1>5, <1>7 DEF WellFormed
<1>9. Len(p) <= Len(q)
  BY <1>1, <1>4, <1>6
<1>10. Above(p, q)
  BY <1>1, <1>5, <1>7, <1>9, AboveBoth
<1>11. Parent(q) = p
  <2>1. Parent(q) = SubSeq(q, 1, Len(p))
    BY <1>4, <1>6 DEF Parent
  <2>2. QED
    BY <1>10, <2>1 DEF Above
<1>12. q # <<>>
  BY <1>1, <1>4, <1>6
<1>13. QED
  BY <1>2, <1>7, <1>8, <1>11, <1>12 DEF Children

\* Of a path that is not found a PROPFIND shows nothing.
LEMMA ShownNothing ==
  ASSUME NEW t \in Trees, WellFormed(t), NEW p \in Paths, NEW n \in Nat, ~Found(t, p)
  PROVE  Shown(t, p, n) = {}
<1>1. SUFFICES ASSUME NEW x \in Paths, Above(p, x), Found(t, x) PROVE FALSE
  BY DEF Shown
<1>2. x \in t.nodes
  BY <1>1 DEF Found, Mounted, WellFormed
<1>3. x # p
  BY <1>1
<1>4. p \in t.nodes /\ Children(t, p) # {}
  BY <1>1, <1>2, <1>3, WayDown
<1>5. QED
  BY <1>4 DEF Found

\* A path that is found is shown, ...
LEMMA ShownItself ==
  ASSUME NEW t \in Trees, NEW p \in Paths, NEW n \in Nat, Found(t, p)
  PROVE  p \in Shown(t, p, n)
<1>1. Above(p, p) /\ Len(p) <= Len(p) + n
  <2>1. Len(p) \in Nat
    BY PathsAssumption
  <2>2. QED
    BY <2>1, AboveRefl
<1>2. ASSUME NEW d \in Paths, Above(p, d), Above(d, p) PROVE d = p
  BY <1>2, AboveSame DEF Above
<1>3. QED
  BY <1>1, <1>2 DEF Shown

\* ... alone if it is the last asked for or no directory, ...
LEMMA ShownAlone ==
  ASSUME NEW t \in Trees, NEW p \in Paths, NEW n \in Nat, Found(t, p), n = 0 \/ Stat(t, p).value.kind # "dir"
  PROVE  Shown(t, p, n) = {p}
<1>1. p \in Shown(t, p, n)
  BY ShownItself
<1>2. ASSUME NEW x \in Shown(t, p, n) PROVE x = p
  <2>1. /\ x \in Paths /\ Above(p, x) /\ Len(x) <= Len(p) + n
        /\ \A d \in Paths : Above(p, d) /\ Above(d, x) /\ d # x => Stat(t, d).value.kind = "dir"
    BY DEF Shown
  <2>2. CASE n = 0
    <3>1. Len(x) <= Len(p)
      <4>1. Len(p) \in Nat
        BY PathsAssumption
      <4>2. QED
        BY <2>1, <2>2, <4>1
    <3>2. QED
      BY <2>1, <3>1, AboveSame
  <2>3. CASE Stat(t, p).value.kind # "dir"
    BY <2>1, <2>3, AboveRefl
  <2>4. QED
    BY <2>2, <2>3
<1>3. QED
  BY <1>1, <1>2

\* ... and with what is shown of its members if it is one.
LEMMA ShownDir ==
  ASSUME NEW t \in Trees, WellFormed(t), NEW p \in Paths, NEW n \in Nat, n # 0, Found(t, p),
         Stat(t, p).value.kind = "dir"
  PROVE  Shown(t, p, n) = {p} \cup UNION { Shown(t, q, n - 1) : q \in Children(t, p) }
<1>1. p \in Shown(t, p, n)
  BY ShownItself
<1>2. ASSUME NEW x \in Shown(t, p, n), x # p PROVE \E q \in Children(t, p) : x \in Shown(t, q, n - 1)
  <2>1. /\ x \in Paths /\ Above(p, x) /\ Len(x) <= Len(p) + n /\ Found(t, x)
        /\ \A d \in Paths : Above(p, d) /\ Above(d, x) /\ d # x => Stat(t, d).value.kind = "dir"
    BY DEF Shown
  <2>2. x \in t.nodes
    BY <2>1 DEF Found, Mounted, WellFormed
  <2>3. PICK q \in Children(t, p) : Above(q, x)
    BY <1>2, <2>1, <2>2, WayDown
  <2>4. q \in Paths /\ Above(p, q) /\ Len(q) = Len(p) + 1
    BY ChildBelow
  <2>5. Len(x) <= Len(q) + (n - 1)
    <3>1. Len(p) \in Nat /\ Len(x) \in Nat
      BY <2>1, PathsAssumption
    <3>2. QED
      BY <2>1, <2>4, <3>1
  <2>6. ASSUME NEW d \in Paths, Above(q, d) PROVE Above(p, d)
    BY <2>4, <2>6, AboveTrans
  <2>7. x \in Shown(t, q, n - 1)
    BY <2>1, <2>3, <2>5, <2>6 DEF Shown
  <2>8. QED
    BY <2>7
<1>3. ASSUME NEW q \in Children(t, p), NEW x \in Shown(t, q, n - 1) PROVE x \in Shown(t, p, n)
  <2>1. q \in Paths /\ Above(p, q) /\ Len(q) = Len(p) + 1
    BY ChildBelow
  <2>2. /\ x \in Paths /\ Above(q, x) /\ Len(x) <= Len(q) + (n - 1) /\ Found(t, x)
        /\ \A d \in Paths : Above(q, d) /\ Above(d, x) /\ d # x => Stat(t, d).value.kind = "dir"
    BY DEF Shown
  <2>3. Above(p, x)
    BY <2>1, <2>2, AboveTrans
  <2>4. Len(x) <= Len(p) + n
    <3>1. Len(p) \in Nat /\ Len(x) \in Nat
      BY <2>2, PathsAssumption
    <3>2. QED
      BY <2>1, <2>2, <3>1
  <2>5. ASSUME NEW d \in Paths, Above(p, d), Above(d, x), d # x PROVE Stat(t, d).value.kind = "dir"
    <3>1. CASE d = p
      BY <3>1
    <3>2. CASE d # p
      <4>1. Len(p) \in Nat /\ Len(d) \in Nat
        BY PathsAssumption
      <4>2. ~(Len(d) <= Len(p))
        BY <2>5, <3>2, AboveSame
      <4>3. Len(q) <= Len(d)
        BY <2>1, <4>1, <4>2
      <4>4. Above(q, d)
        BY <2>1, <2>2, <2>5, <4>3, AboveBoth
      <4>5. QED
        BY <2>2, <2>5, <4>4
    <3>3. QED
      BY <3>1, <3>2
  <2>6. QED
    BY <2>2, <2>3, <2>4, <2>5 DEF Shown
<1>4. QED
  BY <1>1, <1>2, <1>3

\* A directory that is found can be listed.
LEMMA FoundListable ==
  ASSUME NEW t \in Trees, WellFormed(t), NEW p \in Paths, Found(t, p), Stat(t, p).value.kind = "dir"
  PROVE  Listable(t, p)
<1>1. p \in t.nodes
  BY DEF Found, Mounted, WellFormed
<1>2. Mounted(t, p) => t.mount[p].kind = "dir"
  BY StatFacts
<1>3. QED
  BY <1>1, <1>2 DEF Listable

\* The next path of a PROPFIND or SEARCH, or the end of it.
LEMMA DavNextPath ==
  ASSUME DavInv, NEW c \in Clients, job[c].pc \in FindSteps \cup {"SEARCH", "searchRead"},
         NEW m \in DavJobs, Look(c, NextPath(m)), m.req = job[c].req, m.owes = job[c].owes, m.code = "",
         m.before # None =>
           /\ m.before = tree
           /\ m.req.op = "PROPFIND" => Shown(tree, m.req.path, m.req.depth) = m.found \cup ShownIn(tree, m.work)
           /\ m.req.op = "SEARCH" => m.found \cup { w.at : w \in m.work } = DOMAIN Snapshot(tree)
  PROVE  DavInv'
<1> DEFINE j == job[c]
<1>1. j \in DavJobs /\ OfOp(j) /\ Owing(j) /\ HasHeaders(j.req) /\ j.req.op \in {"PROPFIND", "SEARCH"}
  <2>1. j.req.op \in {"PROPFIND", "SEARCH"}
    BY JobOf DEF OfOp, FindSteps, Methods
  <2>2. QED
    BY <2>1, JobOf
<1>2. j.owes = {} /\ j.pc \notin {"idle", "acquire", "reply"}
  BY <1>1 DEF Owing, LateSteps, FindSteps
<1>3. CASE m.work = {}
  <2>1. Look(c, Reply(m, "ok"))
    BY <1>3 DEF NextPath
  <2>2. ASSUME m.before # None PROVE Done(tree, m)
    <3>1. m.found \cup ShownIn(tree, m.work) = m.found /\ m.found \cup { w.at : w \in m.work } = m.found
      BY <1>3 DEF ShownIn
    <3>2. MatchHolds(tree, m.req)
      BY <1>1 DEF MatchHolds, HasHeaders
    <3>3. QED
      BY <1>1, <2>2, <3>1, <3>2 DEF Done, OnlyChanged
  <2>3. QED
    BY <1>1, <1>2, <2>1, <2>2, DavOk
<1>4. CASE m.work # {}
  <2> DEFINE w == CHOOSE w \in m.work : TRUE
             n == [m EXCEPT !.at = w.at, !.left = w.left, !.work = @ \ {w}]
             l == IF m.req.op = "SEARCH" THEN "searchRead" ELSE "PROPFIND"
             k == To(n, l)
  <2>1. Look(c, k)
    BY <1>4 DEF NextPath
  <2>2. w \in m.work
    BY <1>4
  <2> HIDE DEF w
  <2>3. w.at \in Paths /\ w.left \in Nat
    BY <2>2 DEF DavJobs
  <2>4. /\ n \in DavJobs /\ n.req = m.req /\ n.at = w.at /\ n.left = w.left /\ n.work = m.work \ {w}
        /\ n.found = m.found /\ n.code = m.code /\ n.before = m.before /\ n.owes = m.owes
    BY <2>3 DEF DavJobs
  <2>5. l \in Steps /\ l \in {"searchRead", "PROPFIND"} /\ (l = "searchRead" <=> m.req.op = "SEARCH")
    BY DEF Steps, Methods
  <2> HIDE DEF n, l
  <2>6. /\ k \in DavJobs /\ k.pc = l /\ k.req = m.req /\ k.at = w.at /\ k.left = w.left /\ k.work = m.work \ {w}
        /\ k.found = m.found /\ k.code = m.code /\ k.before = m.before /\ k.owes = m.owes
    BY <2>4, <2>5, ToFields
  <2> HIDE DEF k
  <2>7. OfOp(k) /\ Owing(k) /\ Saw(tree, k)
    <3>1. /\ k.pc \in {"searchRead", "PROPFIND"} /\ (k.pc = "searchRead" => k.req.op = "SEARCH")
          /\ k.pc = "PROPFIND" => k.req.op = "PROPFIND"
      BY <1>1, <2>5, <2>6
    <3>2. k.req.op \in {"PROPFIND", "SEARCH"} /\ k.code = "" /\ k.owes = {}
      BY <1>1, <1>2, <2>6
    <3>3. OfOp(k)
      BY <3>1, <3>2 DEF OfOp, Methods, CopySteps, FindSteps
    <3>4. QED
      BY <3>1, <3>2, <3>3 DEF Owing, Saw
  <2>8. ShownIn(tree, m.work) = Shown(tree, w.at, w.left) \cup ShownIn(tree, m.work \ {w})
    BY <2>2 DEF ShownIn
  <2>9. { v.at : v \in m.work } = {w.at} \cup { v.at : v \in m.work \ {w} }
    BY <2>2
  <2>10. Alone(tree, k)
    <3>1. k.before # None /\ l = "PROPFIND" =>
            Shown(tree, k.req.path, k.req.depth) = k.found \cup Shown(tree, k.at, k.left) \cup ShownIn(tree, k.work)
      BY <1>1, <2>5, <2>6, <2>8
    <3>2. k.before # None /\ l = "searchRead" => k.found \cup {k.at} \cup { v.at : v \in k.work } = DOMAIN Snapshot(tree)
      BY <2>5, <2>6, <2>9
    <3>3. k.before # None => k.before = tree
      BY <2>6
    <3>4. QED
      BY <2>5, <2>6, <3>1, <3>2, <3>3 DEF Alone, LateSteps, FindSteps
  <2>11. k.pc \notin {"idle", "acquire", "reply"}
    BY <2>5, <2>6
  <2>12. QED
    BY <1>2, <2>1, <2>6, <2>7, <2>10, <2>11, DavGoes
<1>5. QED
  BY <1>3, <1>4

\* ... SEARCH ...
LEMMA SearchKeeps ==
  ASSUME DavInv, NEW c \in Clients, Search(c) PROVE DavInv'
<1> DEFINE j == job[c]
           W == { [at |-> p, left |-> 0] : p \in DOMAIN Snapshot(tree) }
           m == [j EXCEPT !.work = W]
<1>1. /\ j \in DavJobs /\ OfOp(j) /\ Alone(tree, j) /\ j.pc = "SEARCH" /\ j.req.op = "SEARCH" /\ j.code = ""
      /\ Look(c, NextPath(m))
  BY JobOf DEF Search, OfOp, Methods
<1>2. DOMAIN Snapshot(tree) \subseteq Paths
  BY DEF Snapshot
<1>3. W \in SUBSET [at : Paths, left : Nat] /\ { w.at : w \in W } = DOMAIN Snapshot(tree)
  <2> DEFINE D == DOMAIN Snapshot(tree)
  <2>1. D \subseteq Paths
    BY <1>2
  <2> HIDE DEF D
  <2>2. { [at |-> p, left |-> 0] : p \in D } \in SUBSET [at : Paths, left : Nat]
    BY <2>1
  <2>3. { w.at : w \in { [at |-> p, left |-> 0] : p \in D } } = D
    <3> DEFINE E == { [at |-> p, left |-> 0] : p \in D }
    <3>1. ASSUME NEW w \in E PROVE w.at \in D
      OBVIOUS
    <3>2. ASSUME NEW p \in D PROVE \E w \in E : w.at = p
      <4>1. [at |-> p, left |-> 0] \in E /\ [at |-> p, left |-> 0].at = p
        OBVIOUS
      <4>2. QED
        BY <4>1
    <3> HIDE DEF E
    <3>3. { w.at : w \in E } = D
      BY <3>1, <3>2
    <3>4. QED
      BY <3>3 DEF E
  <2>4. QED
    BY <2>2, <2>3 DEF D
<1> HIDE DEF W
<1>4. m \in DavJobs /\ m.req = j.req /\ m.owes = j.owes /\ m.code = j.code /\ m.before = j.before /\ m.work = W /\ m.found = j.found
  BY <1>1, <1>3 DEF DavJobs
<1> HIDE DEF m
<1>5. j.before # None => j.before = tree /\ j.found = {}
  BY <1>1 DEF Alone, LateSteps
<1>6. QED
  BY <1>1, <1>3, <1>4, <1>5, DavNextPath

LEMMA SearchReadKeeps ==
  ASSUME DavInv, NEW c \in Clients, SearchRead(c) PROVE DavInv'
<1> DEFINE j == job[c]
           m == [j EXCEPT !.found = @ \cup {j.at}, !.body = Read(tree, j.at).value]
<1>1. /\ j \in DavJobs /\ OfOp(j) /\ Alone(tree, j) /\ j.pc = "searchRead" /\ j.req.op = "SEARCH" /\ j.code = ""
      /\ Look(c, NextPath(m)) /\ j.at \in Paths /\ tree \in Trees
  BY JobOf DEF SearchRead, OfOp, Methods
<1>2. Read(tree, j.at).value \in Data \cup {Empty}
  BY <1>1, ReadFacts
<1>3. /\ m \in DavJobs /\ m.req = j.req /\ m.owes = j.owes /\ m.code = j.code /\ m.before = j.before /\ m.work = j.work
      /\ m.found = j.found \cup {j.at}
  BY <1>1, <1>2 DEF DavJobs
<1> HIDE DEF m
<1>4. j.before # None => j.before = tree /\ j.found \cup {j.at} \cup { w.at : w \in j.work } = DOMAIN Snapshot(tree)
  BY <1>1 DEF Alone, LateSteps
<1>5. QED
  BY <1>1, <1>3, <1>4, DavNextPath

\* A step of a PROPFIND at one path, with what it leaves of the handler as it was.
LEMMA DavFinds ==
  ASSUME DavInv, NEW c \in Clients, job[c].pc \in FindSteps, NEW k \in DavJobs, Look(c, k),
         k.pc \in {"findStat", "findRead", "findSet", "list"}, k.req = job[c].req, k.at = job[c].at,
         k.left = job[c].left, k.work = job[c].work, k.found = job[c].found, k.code = job[c].code,
         k.owes = job[c].owes, k.before \in {None, job[c].before}, Saw(tree, k),
         k.before # None /\ k.pc # "findStat" => Stat(tree, k.at) = Answer(None, k.stat)
  PROVE  DavInv'
<1> DEFINE j == job[c]
<1>1. OfOp(j) /\ Owing(j) /\ Alone(tree, j) /\ j.req.op = "PROPFIND"
  BY JobOf DEF OfOp
<1>2. OfOp(k) /\ Owing(k)
  BY <1>1 DEF OfOp, Owing, Methods, CopySteps, FindSteps, LateSteps
<1>3. k.before # None => k.before = tree /\ j.before = tree
  BY <1>1 DEF Alone, LateSteps, FindSteps
<1>4. k.before # None =>
        Shown(tree, k.req.path, k.req.depth) = k.found \cup Shown(tree, k.at, k.left) \cup ShownIn(tree, k.work)
  BY <1>1, <1>3 DEF Alone
<1>5. Alone(tree, k)
  BY <1>3, <1>4 DEF Alone, LateSteps, FindSteps
<1>6. QED
  BY <1>2, <1>5, DavGoes DEF FindSteps

\* ... and PROPFIND.
LEMMA FindKeeps ==
  ASSUME DavInv, NEW c \in Clients, Find(c) PROVE DavInv'
<1> DEFINE j == job[c]
<1>1. j \in DavJobs /\ j.pc = "PROPFIND" /\ j.at \in Paths
  BY JobOf DEF Find
<1>2. CASE cache[j.at] = None
  <2> DEFINE k == To(j, "findStat")
  <2>1. Look(c, k)
    BY <1>2 DEF Find
  <2>2. /\ k \in DavJobs /\ k.pc = "findStat" /\ k.req = j.req /\ k.at = j.at /\ k.left = j.left /\ k.work = j.work
        /\ k.found = j.found /\ k.code = j.code /\ k.owes = j.owes /\ k.before = j.before
    BY <1>1, ToFields DEF Steps
  <2> HIDE DEF k
  <2>3. Saw(tree, k)
    BY <2>2 DEF Saw
  <2>4. QED
    BY <1>1, <2>1, <2>2, <2>3, DavFinds DEF FindSteps
<1>3. CASE cache[j.at] # None
  <2> DEFINE e == cache[j.at]
             b == IF e = Props(tree, j.at) THEN j.before ELSE None
             m == [j EXCEPT !.stat = e.stat.value, !.before = b]
             k == To(m, "list")
  <2>1. Look(c, k)
    BY <1>3 DEF Find
  <2>2. e \in CacheEntries
    BY <1>1, <1>3 DEF DavInv
  <2>3. e.stat.value \in Entry /\ e.stat.err = None /\ e.stat = Answer(e.stat.err, e.stat.value)
    BY <2>2 DEF CacheEntries, Answer
  <2>4. b \in {None, j.before} /\ b \in Trees \cup {None} /\ (b # None => e = Props(tree, j.at))
    BY <1>1 DEF DavJobs
  <2> HIDE DEF e, b
  <2>5. /\ m \in DavJobs /\ m.req = j.req /\ m.at = j.at /\ m.left = j.left /\ m.work = j.work
        /\ m.found = j.found /\ m.code = j.code /\ m.owes = j.owes /\ m.before = b /\ m.stat = e.stat.value
    BY <1>1, <2>3, <2>4 DEF DavJobs
  <2> HIDE DEF m
  <2>6. /\ k \in DavJobs /\ k.pc = "list" /\ k.req = j.req /\ k.at = j.at /\ k.left = j.left /\ k.work = j.work
        /\ k.found = j.found /\ k.code = j.code /\ k.owes = j.owes /\ k.before = b /\ k.stat = e.stat.value
    BY <2>5, ToFields DEF Steps
  <2> HIDE DEF k
  <2>7. Saw(tree, k)
    BY <2>6 DEF Saw
  <2>8. k.before # None => Stat(tree, k.at) = Answer(None, k.stat)
    BY <2>3, <2>4, <2>6 DEF Props
  <2>9. QED
    BY <1>1, <2>1, <2>4, <2>6, <2>7, <2>8, DavFinds DEF FindSteps
<1>4. QED
  BY <1>2, <1>3

\* A path that is left out: it is the answer, or it shows nothing.
LEMMA DavSkips ==
  ASSUME DavInv, NEW c \in Clients, job[c].pc \in FindSteps, NEW err \in Errors, Look(c, SkipPath(job[c], err)),
         job[c].before # None => Shown(tree, job[c].at, job[c].left) = {}
  PROVE  DavInv'
<1> DEFINE j == job[c]
<1>1. j \in DavJobs /\ OfOp(j) /\ Alone(tree, j) /\ j.req.op = "PROPFIND" /\ j.code = "" /\ j.pc \notin LateSteps \cup {"idle", "acquire"}
  BY JobOf DEF OfOp, FindSteps, LateSteps
<1>2. CASE j.at = j.req.path
  <2>1. Look(c, Reply(j, err)) /\ err \in DavCodes \ {"ok", "429"}
    BY <1>2 DEF SkipPath, DavCodes, Errors
  <2>2. QED
    BY <1>1, <2>1, DavFail
<1>3. CASE j.at # j.req.path
  <2>1. Look(c, NextPath(j))
    BY <1>3 DEF SkipPath
  <2>2. j.before # None => /\ j.before = tree
                           /\ Shown(tree, j.req.path, j.req.depth) = j.found \cup ShownIn(tree, j.work)
    BY <1>1 DEF Alone
  <2>3. QED
    BY <1>1, <2>1, <2>2, DavNextPath
<1>4. QED
  BY <1>2, <1>3

LEMMA FindStatKeeps ==
  ASSUME DavInv, NEW c \in Clients, FindStat(c) PROVE DavInv'
<1> DEFINE j == job[c]
           s == Stat(tree, j.at)
           m == [j EXCEPT !.stat = s.value, !.dirty = FALSE]
           k == To(m, "findRead")
<1>1. j \in DavJobs /\ j.pc = "findStat" /\ j.at \in Paths /\ tree \in Trees /\ WellFormed(tree) /\ j.left \in Nat
  BY JobOf DEF FindStat, DavJobs
<1>2. s.value \in Entry /\ s.err \in {None, "ENOENT"} /\ s = Answer(s.err, s.value) /\ (s.err = None <=> Found(tree, j.at))
  BY <1>1, StatFacts
<1>3. CASE s.err # None
  <2>1. Look(c, SkipPath(j, "ENOENT")) /\ "ENOENT" \in Errors
    BY <1>2, <1>3 DEF FindStat, Errors
  <2>2. Shown(tree, j.at, j.left) = {}
    BY <1>1, <1>2, <1>3, ShownNothing
  <2>3. QED
    BY <1>1, <2>1, <2>2, DavSkips DEF FindSteps
<1>4. CASE s.err = None
  <2>1. Look(c, k) /\ s = Answer(None, s.value)
    BY <1>2, <1>4 DEF FindStat
  <2>2. /\ m \in DavJobs /\ m.req = j.req /\ m.at = j.at /\ m.left = j.left /\ m.work = j.work
        /\ m.found = j.found /\ m.code = j.code /\ m.owes = j.owes /\ m.before = j.before /\ m.stat = s.value
    BY <1>1, <1>2 DEF DavJobs
  <2> HIDE DEF m
  <2>3. /\ k \in DavJobs /\ k.pc = "findRead" /\ k.req = j.req /\ k.at = j.at /\ k.left = j.left /\ k.work = j.work
        /\ k.found = j.found /\ k.code = j.code /\ k.owes = j.owes /\ k.before = j.before /\ k.stat = s.value
    BY <2>2, ToFields DEF Steps
  <2> HIDE DEF k
  <2>4. Stat(tree, k.at) = Answer(None, k.stat)
    BY <2>1, <2>3
  <2>5. Saw(tree, k)
    BY <2>3, <2>4 DEF Saw
  <2>6. QED
    BY <1>1, <2>1, <2>3, <2>4, <2>5, DavFinds DEF FindSteps
<1>5. QED
  BY <1>3, <1>4

LEMMA FindReadKeeps ==
  ASSUME DavInv, NEW c \in Clients, FindRead(c) PROVE DavInv'
<1> DEFINE j == job[c]
           r == Read(tree, j.at)
           m == [j EXCEPT !.body = r.value]
           k == To(m, "findSet")
<1>1. /\ j \in DavJobs /\ j.pc = "findRead" /\ j.at \in Paths /\ tree \in Trees /\ Saw(tree, j) /\ Alone(tree, j)
      /\ Look(c, k)
  BY JobOf DEF FindRead
<1>2. r.value \in Data \cup {Empty}
  BY <1>1, ReadFacts
<1>3. /\ m \in DavJobs /\ m.req = j.req /\ m.at = j.at /\ m.left = j.left /\ m.work = j.work /\ m.dirty = j.dirty
      /\ m.found = j.found /\ m.code = j.code /\ m.owes = j.owes /\ m.before = j.before /\ m.stat = j.stat
      /\ m.body = r.value
  BY <1>1, <1>2 DEF DavJobs
<1> HIDE DEF m
<1>4. /\ k \in DavJobs /\ k.pc = "findSet" /\ k.req = j.req /\ k.at = j.at /\ k.left = j.left /\ k.work = j.work
      /\ k.found = j.found /\ k.code = j.code /\ k.owes = j.owes /\ k.before = j.before /\ k.stat = j.stat
      /\ k.body = r.value /\ k.dirty = j.dirty
  BY <1>3, ToFields DEF Steps
<1> HIDE DEF k
<1>5. Saw(tree, k)
  BY <1>1, <1>4 DEF Saw
<1>6. k.before # None => Stat(tree, k.at) = Answer(None, k.stat)
  BY <1>1, <1>4 DEF Alone, LateSteps
<1>7. QED
  BY <1>1, <1>4, <1>5, <1>6, DavFinds DEF FindSteps

LEMMA FindSetKeeps ==
  ASSUME DavInv, NEW c \in Clients, FindSet(c) PROVE DavInv'
<1> DEFINE j == job[c]
           k == To(j, "list")
           e == [stat |-> Answer(None, j.stat), etag |-> j.body]
<1>1. /\ j \in DavJobs /\ j.pc = "findSet" /\ j.at \in Paths /\ OfOp(j) /\ Owing(j) /\ Saw(tree, j) /\ Alone(tree, j)
      /\ Step(c, k) /\ cache' = [cache EXCEPT ![j.at] = e] /\ j.req.op = "PROPFIND"
      /\ forgiven' = IF j.dirty THEN forgiven \cup {j.at} ELSE forgiven \ {j.at}
  BY JobOf DEF FindSet, OfOp, FindSteps
<1>2. /\ k \in DavJobs /\ k.pc = "list" /\ k.req = j.req /\ k.at = j.at /\ k.left = j.left /\ k.work = j.work
      /\ k.found = j.found /\ k.code = j.code /\ k.owes = j.owes /\ k.before = j.before /\ k.stat = j.stat
  BY <1>1, ToFields DEF Steps
<1> HIDE DEF k
<1>3. e \in CacheEntries /\ (~j.dirty => e = Props(tree, j.at))
  <2>1. e \in CacheEntries
    BY <1>1 DEF DavJobs, CacheEntries, Answer
  <2>2. ~j.dirty => Stat(tree, j.at) = Answer(None, j.stat) /\ Read(tree, j.at).value = j.body
    BY <1>1 DEF Saw
  <2>3. QED
    BY <2>1, <2>2 DEF Props
<1> HIDE DEF e
<1>4. OfOp(k) /\ Owing(k) /\ Saw(tree, k)
  BY <1>1, <1>2 DEF OfOp, Owing, Saw, Methods, CopySteps, FindSteps, LateSteps
<1>5. Alone(tree, k)
  BY <1>1, <1>2 DEF Alone, LateSteps, FindSteps
<1>6. cache' \in [Paths -> CacheEntries \cup {None}] /\ forgiven' \subseteq Paths
  BY <1>1, <1>3 DEF DavInv
<1>7. StaleHasReason'
  <2>1. job \in [Clients -> DavJobs] /\ cache \in [Paths -> CacheEntries \cup {None}]
    BY DEF DavInv
  <2>2. tree' = tree /\ \A d \in Clients : job'[d].owes = job[d].owes
    BY <1>1, <1>2, <2>1 DEF Step
  <2> SUFFICES ASSUME NEW q \in Paths, cache'[q] # None, cache'[q] # Props(tree, q)
               PROVE  q \in forgiven' \/ \E d \in Clients : q \in job'[d].owes
    BY <2>2 DEF StaleHasReason
  <2>3. CASE q = j.at
    <3>1. cache'[q] = e
      BY <1>1, <2>1, <2>3
    <3>2. j.dirty
      BY <1>3, <2>3, <3>1
    <3>3. QED
      BY <1>1, <2>3, <3>2
  <2>4. CASE q # j.at
    <3>1. cache'[q] = cache[q]
      BY <1>1, <2>1, <2>4
    <3>2. q \in forgiven \/ \E d \in Clients : q \in job[d].owes
      BY <3>1 DEF DavInv, StaleHasReason
    <3>3. QED
      BY <1>1, <2>2, <2>4, <3>2
  <2>5. QED
    BY <2>3, <2>4
<1>8. k.code # "429"
  BY <1>2, <1>4 DEF OfOp
<1>9. QED
  BY <1>1, <1>2, <1>4, <1>5, <1>6, <1>7, <1>8, StepKeeps DEF Sound

LEMMA ListKeeps ==
  ASSUME DavInv, NEW c \in Clients, List(c) PROVE DavInv'
<1> DEFINE j == job[c]
           k == [j EXCEPT !.found = @ \cup {j.at}]
<1>1. /\ j \in DavJobs /\ j.pc = "list" /\ j.at \in Paths /\ OfOp(j) /\ Alone(tree, j) /\ tree \in Trees
      /\ WellFormed(tree) /\ j.left \in Nat /\ j.req.op = "PROPFIND" /\ j.code = "" /\ j.pc \in FindSteps
  BY JobOf DEF List, OfOp, FindSteps, DavJobs
<1>2. /\ k \in DavJobs /\ k.req = j.req /\ k.owes = j.owes /\ k.code = j.code /\ k.before = j.before /\ k.work = j.work
      /\ k.found = j.found \cup {j.at}
  BY <1>1 DEF DavJobs
<1>3. ASSUME j.before # None
      PROVE  /\ j.before = tree /\ Found(tree, j.at) /\ Stat(tree, j.at).value = j.stat
             /\ Shown(tree, j.req.path, j.req.depth) = j.found \cup Shown(tree, j.at, j.left) \cup ShownIn(tree, j.work)
  <2>1. /\ j.before = tree /\ Stat(tree, j.at) = Answer(None, j.stat)
        /\ Shown(tree, j.req.path, j.req.depth) = j.found \cup Shown(tree, j.at, j.left) \cup ShownIn(tree, j.work)
    BY <1>1, <1>3 DEF Alone, LateSteps
  <2>2. Stat(tree, j.at).err = None /\ Stat(tree, j.at).value = j.stat
    BY <2>1 DEF Answer
  <2>3. QED
    BY <1>1, <2>1, <2>2, StatFacts
<1>4. CASE j.left = 0 \/ j.stat.kind # "dir"
  <2>1. Look(c, NextPath(k))
    BY <1>4 DEF List
  <2> HIDE DEF k
  <2>2. ASSUME j.before # None
        PROVE  Shown(tree, j.req.path, j.req.depth) = k.found \cup ShownIn(tree, k.work)
    <3>1. Shown(tree, j.at, j.left) = {j.at}
      BY <1>1, <1>3, <1>4, <2>2, ShownAlone
    <3>2. QED
      BY <1>2, <1>3, <2>2, <3>1
  <2>3. QED
    BY <1>1, <1>2, <1>3, <2>1, <2>2, DavNextPath
<1>5. CASE ~(j.left = 0 \/ j.stat.kind # "dir") /\ ~Listable(tree, j.at)
  <2>1. Look(c, SkipPath(j, "ENOTDIR")) /\ "ENOTDIR" \in Errors
    BY <1>5 DEF List, Errors
  <2>2. j.before = None
    BY <1>1, <1>3, <1>5, FoundListable
  <2>3. QED
    BY <1>1, <2>1, <2>2, DavSkips
<1>6. CASE ~(j.left = 0 \/ j.stat.kind # "dir") /\ Listable(tree, j.at)
  <2> DEFINE W == { [at |-> q, left |-> j.left - 1] : q \in Children(tree, j.at) }
             m == [k EXCEPT !.work = @ \cup W]
  <2>1. Look(c, NextPath(m))
    BY <1>6 DEF List
  <2> HIDE DEF k
  <2>2. W \in SUBSET [at : Paths, left : Nat]
    <3>1. Children(tree, j.at) \subseteq Paths
      BY <1>1 DEF Children, Trees
    <3>2. j.left - 1 \in Nat
      <4>1. j.left \in Nat /\ j.left # 0
        BY <1>1, <1>6
      <4>2. \A n \in Nat : n # 0 => n - 1 \in Nat
        OBVIOUS
      <4>3. QED
        BY <4>1, <4>2
    <3>3. QED
      BY <3>1, <3>2
  <2>3. ASSUME j.before # None PROVE ShownIn(tree, W) \cup {j.at} = Shown(tree, j.at, j.left)
    <3>1. Shown(tree, j.at, j.left) = {j.at} \cup UNION { Shown(tree, q, j.left - 1) : q \in Children(tree, j.at) }
      <4>1. Found(tree, j.at) /\ Stat(tree, j.at).value.kind = "dir" /\ j.left # 0
        BY <1>3, <1>6, <2>3
      <4>2. QED
        BY <1>1, <4>1, ShownDir
    <3>2. \A w \in W : \E q \in Children(tree, j.at) : w.at = q /\ w.left = j.left - 1
      OBVIOUS
    <3>3. \A q \in Children(tree, j.at) : \E w \in W : w.at = q /\ w.left = j.left - 1
      <4>1. ASSUME NEW q \in Children(tree, j.at) PROVE \E w \in W : w.at = q /\ w.left = j.left - 1
        <5> DEFINE w == [at |-> q, left |-> j.left - 1]
        <5>1. w \in W /\ w.at = q /\ w.left = j.left - 1
          OBVIOUS
        <5> HIDE DEF w, W
        <5>2. QED
          BY <5>1
      <4>2. QED
        BY <4>1
    <3> HIDE DEF W
    <3>4. ShownIn(tree, W) = UNION { Shown(tree, q, j.left - 1) : q \in Children(tree, j.at) }
      BY <3>2, <3>3 DEF ShownIn
    <3>5. QED
      BY <3>1, <3>4
  <2> HIDE DEF W
  <2>4. /\ m \in DavJobs /\ m.req = j.req /\ m.owes = j.owes /\ m.code = j.code /\ m.before = j.before
        /\ m.work = j.work \cup W /\ m.found = j.found \cup {j.at}
    BY <1>2, <2>2 DEF DavJobs
  <2> HIDE DEF m
  <2>5. ShownIn(tree, j.work \cup W) = ShownIn(tree, j.work) \cup ShownIn(tree, W)
    BY DEF ShownIn
  <2>6. ASSUME j.before # None
        PROVE  Shown(tree, j.req.path, j.req.depth) = m.found \cup ShownIn(tree, m.work)
    BY <1>3, <2>3, <2>4, <2>5, <2>6
  <2>7. QED
    BY <1>1, <1>3, <2>1, <2>4, <2>6, DavNextPath
<1>7. QED
  BY <1>4, <1>5, <1>6

-----------------------------------------------------------------------------
\* A goroutine that is idle.
LEMMA IdleSound ==
  ASSUME NEW t \in Trees PROVE Idle \in DavJobs /\ Sound(t, Idle)
<1>1. NoRequest \in Request /\ HasHeaders(NoRequest)
  BY PathsAssumption DEF NoRequest, Request, HasHeaders, Methods
<1>2. NoEntry \in Entry
  BY DEF NoEntry, IntermediateDir, Entry, Kinds
<1>3. /\ Idle.pc = "idle" /\ Idle.req = NoRequest /\ Idle.at = <<>> /\ Idle.owes = {} /\ Idle.before = None
      /\ NoRequest.path = <<>>
  BY DEF Idle, NoRequest
<1>4. Idle \in DavJobs
  BY <1>1, <1>2, PathsAssumption DEF Idle, DavJobs, Steps, DavCodes
<1>5. OfOp(Idle) /\ Owing(Idle) /\ Saw(t, Idle)
  BY <1>3 DEF OfOp, Owing, Saw, Methods, CopySteps, FindSteps
<1>6. Alone(t, Idle)
  BY <1>3 DEF Alone
<1>7. QED
  BY <1>4, <1>5, <1>6 DEF Sound

\* The first step of a handler.
LEMMA FirstStep ==
  ASSUME NEW r \in Request
  PROVE  \/ First(r) = "write" /\ r.op = "PUT" /\ r.ifMatch = None
         \/ First(r) = "match" /\ r.op \in {"PUT", "COPY", "MOVE"}
         \/ First(r) = "invalidate" /\ r.op = "PROPPATCH"
         \/ First(r) = r.op /\ r.op \in {"GET", "HEAD", "DELETE", "MKCOL", "PROPFIND", "SEARCH"}
<1>1. r.op \in Methods
  BY DEF Request
<1>2. CASE r.op = "PUT"
  BY <1>2 DEF First
<1>3. CASE r.op \in {"COPY", "MOVE"}
  BY <1>3 DEF First
<1>4. CASE r.op = "PROPPATCH"
  BY <1>4 DEF First
<1>5. CASE r.op \notin {"PUT", "COPY", "MOVE", "PROPPATCH"}
  BY <1>1, <1>5 DEF First, Methods
<1>6. QED
  BY <1>2, <1>3, <1>4, <1>5

\* A request that comes to its handler.
LEMMA HandleSound ==
  ASSUME NEW t \in Trees, NEW j \in DavJobs, j.at = j.req.path, j.left = j.req.depth, j.work = {}, j.found = {},
         j.body = Empty, j.code = "", j.owes = {}, j.before \in {None, t}
  PROVE  LET k == Handle(j) IN
         k \in DavJobs /\ Sound(t, k) /\ k.owes = {} /\ k.pc \notin {"idle", "acquire"} /\ k.code # "429"
<1>1. CASE conf.readOnly /\ j.req.op \notin {"GET", "HEAD", "PROPFIND", "SEARCH"}
  <2> DEFINE k == Reply(j, "403")
  <2>1. "403" \in DavCodes
    BY DEF DavCodes
  <2>2. /\ k \in DavJobs /\ k.pc = "reply" /\ k.req = j.req /\ k.at = j.at /\ k.code = "403" /\ k.before = j.before
        /\ k.owes = j.owes
    BY <2>1, ReplyFields
  <2>3. Handle(j) = k
    BY <1>1 DEF Handle
  <2> HIDE DEF k
  <2>4. OfOp(k) /\ Owing(k) /\ Saw(t, k)
    BY <2>2 DEF OfOp, Owing, Saw, Methods, CopySteps, FindSteps
  <2>5. k.before # None => Failed(t, k)
    BY <2>2 DEF Failed, OnlyChanged
  <2>6. Alone(t, k)
    BY <2>2, <2>5 DEF Alone, LateSteps, FindSteps
  <2>7. QED
    BY <2>2, <2>3, <2>4, <2>6 DEF Sound
<1>2. CASE ~(conf.readOnly /\ j.req.op \notin {"GET", "HEAD", "PROPFIND", "SEARCH"})
  <2> DEFINE l == First(j.req)
             k == To(j, l)
  <2>1. j.req \in Request /\ HasHeaders(j.req)
    BY DEF DavJobs
  <2>2. \/ l = "write" /\ j.req.op = "PUT" /\ j.req.ifMatch = None
        \/ l = "match" /\ j.req.op \in {"PUT", "COPY", "MOVE"}
        \/ l = "invalidate" /\ j.req.op = "PROPPATCH"
        \/ l = j.req.op /\ j.req.op \in {"GET", "HEAD", "DELETE", "MKCOL", "PROPFIND", "SEARCH"}
    BY <2>1, FirstStep
  <2> HIDE DEF l
  <2>3. l \in Steps
    BY <2>2 DEF Steps, Methods
  <2>4. /\ k \in DavJobs /\ k.pc = l /\ k.req = j.req /\ k.at = j.at /\ k.left = j.left /\ k.work = j.work
        /\ k.found = j.found /\ k.body = j.body /\ k.code = j.code /\ k.before = j.before /\ k.owes = j.owes
    BY <2>3, ToFields
  <2>5. Handle(j) = k
    BY <1>2 DEF Handle, l
  <2> HIDE DEF k
  <2>6. OfOp(k) /\ Owing(k)
    BY <2>2, <2>4 DEF OfOp, Owing, Methods, CopySteps, FindSteps, LateSteps
  <2>7. Saw(t, k)
    BY <2>2, <2>4 DEF Saw
  <2>8. j.req.ifMatch = None => MatchHolds(t, j.req)
    BY DEF MatchHolds
  <2>9. k.before # None /\ l = "invalidate" => Done(t, k)
    <3>1. l = "invalidate" => j.req.op = "PROPPATCH" /\ j.req.ifMatch = None
      BY <2>1, <2>2 DEF HasHeaders
    <3>2. QED
      BY <2>4, <2>8, <3>1 DEF Done, OnlyChanged
  <2>10. k.before # None /\ l = "PROPFIND" =>
           Shown(t, k.req.path, k.req.depth) = k.found \cup Shown(t, k.at, k.left) \cup ShownIn(t, k.work)
    <3>1. ShownIn(t, {}) = {}
      BY DEF ShownIn
    <3>2. QED
      BY <2>4, <3>1
  <2>11. k.before # None => k.before = t
    BY <2>4
  <2>12. Alone(t, k)
    BY <2>2, <2>4, <2>8, <2>9, <2>10, <2>11 DEF Alone, LateSteps, FindSteps
  <2>13. k.pc \notin {"idle", "acquire"} /\ k.code # "429"
    BY <2>2, <2>4
  <2>14. QED
    BY <2>4, <2>5, <2>6, <2>7, <2>12, <2>13 DEF Sound
<1>3. QED
  BY <1>1, <1>2

\* What a scenario gives.
LEMMA ConfFacts ==
  ASSUME conf \in Scenarios
  PROVE  /\ conf.tree \in Trees /\ WellFormed(conf.tree) /\ conf.requests \subseteq { r \in Request : HasHeaders(r) }
         /\ conf.maxConns \in Nat /\ conf.rate \in Nat /\ conf.burst \in Nat /\ conf.ttl \in Nat /\ conf.maxTicks \in Nat
         /\ Places \subseteq Nat
         /\ \A i \in Places : /\ PathAt(i) \in Paths \ {<<>>} /\ EntryAt(i) \in Entry \cup {None}
                              /\ conf.config[i] = [path |-> PathAt(i), entry |-> EntryAt(i)]
<1> DEFINE T == [path : Paths \ {<<>>}, entry : Entry \cup {None}]
<1>1. conf.config \in Seq(T)
  BY ScenarioAssumption
<1> HIDE DEF T
<1>2. Places \subseteq Nat /\ \A i \in Places : conf.config[i] \in T
  BY <1>1 DEF Places
<1>3. \A i \in Places : /\ PathAt(i) \in Paths \ {<<>>} /\ EntryAt(i) \in Entry \cup {None}
                        /\ conf.config[i] = [path |-> PathAt(i), entry |-> EntryAt(i)]
  BY <1>2 DEF PathAt, EntryAt, T
<1>4. QED
  BY <1>2, <1>3, ScenarioAssumption

\* Time that passes lets through what the rate makes in it.
LEMMA RateTime ==
  ASSUME NEW r \in Nat, NEW l \in Nat, NEW d \in Nat, NEW n \in Nat, l + d <= n
  PROVE  r * l \in Nat /\ r * d \in Nat /\ r * n \in Nat /\ r * l + r * d <= r * n
<1>1. r * l \in Nat /\ r * d \in Nat /\ r * n \in Nat
  OBVIOUS
<1>2. PICK e \in Nat : n = l + d + e
  <2>1. n - (l + d) \in Nat /\ n = l + d + (n - (l + d))
    OBVIOUS
  <2>2. QED
    BY <2>1
<1>3. r * (l + d + e) = r * l + r * d + r * e
  OBVIOUS
<1>4. r * e \in Nat
  OBVIOUS
<1>5. QED
  BY <1>1, <1>2, <1>3, <1>4

\* What a full bucket and a drop let through.
LEMMA CapFacts ==
  ASSUME conf \in Scenarios
  PROVE  /\ Cap \in Nat /\ Cap >= 1 /\ Cap >= conf.burst /\ (conf.burst = 0 => Cap = 1) /\ (conf.burst # 0 => Cap = conf.burst)
         /\ Gain \in Nat /\ Gain >= Cap - conf.rate * (conf.ttl + 1) /\ conf.rate * (conf.ttl + 1) \in Nat
<1>1. conf.rate \in Nat /\ conf.burst \in Nat /\ conf.ttl + 1 \in Nat
  BY ConfFacts
<1>2. /\ Cap \in Nat /\ Cap >= 1 /\ Cap >= conf.burst /\ (conf.burst = 0 => Cap = 1) /\ (conf.burst # 0 => Cap = conf.burst)
  BY <1>1 DEF Cap
<1> DEFINE refill == conf.rate * (conf.ttl + 1)
<1>3. refill \in Nat /\ Gain = IF Cap > refill THEN Cap - refill ELSE 0
  BY <1>1 DEF Gain
<1> HIDE DEF refill
<1>4. Gain \in Nat /\ Gain >= Cap - refill
  BY <1>2, <1>3
<1>5. QED
  BY <1>2, <1>3, <1>4 DEF refill

\* A product with the number of drops.
LEMMA DropsFacts ==
  ASSUME NEW n \in Nat, NEW m \in Nat PROVE n * m \in Nat /\ (n + 1) * m = n * m + m
  OBVIOUS

\* What a bucket holds and what was let through is no more than the first bucket, the rate
\* and the drops make until now.
LEMMA RefilledBounded ==
  ASSUME conf \in Scenarios, LimitsInv, bucket # None
  PROVE  Refilled(bucket) \in Int /\ admitted + Refilled(bucket) <= Cap + conf.rate * now + dropped * Gain
<1>1. /\ conf.rate \in Nat /\ conf.burst \in Nat /\ now \in Nat /\ admitted \in Nat /\ dropped \in Nat
      /\ Cap \in Nat /\ Gain \in Nat
  BY ConfFacts, CapFacts DEF LimitsInv
<1>2. /\ bucket.tokens \in Int /\ bucket.last \in Nat /\ bucket.last <= now
      /\ admitted + Left(bucket) <= Cap + conf.rate * bucket.last + dropped * Gain
  BY DEF LimitsInv
<1> DEFINE d == now - bucket.last
           n == bucket.tokens + d * conf.rate
           g == dropped * Gain
<1>3. d \in Nat /\ bucket.last + d <= now
  BY <1>1, <1>2
<1>4. Refilled(bucket) = IF n > conf.burst THEN conf.burst ELSE n
  BY DEF Refilled
<1>5. g \in Nat /\ admitted + Left(bucket) <= Cap + conf.rate * bucket.last + g
  BY <1>1, <1>2, DropsFacts
<1> HIDE DEF d, g
<1>6. /\ conf.rate * bucket.last \in Nat /\ conf.rate * d \in Nat /\ conf.rate * now \in Nat
      /\ conf.rate * bucket.last + conf.rate * d <= conf.rate * now
  BY <1>1, <1>2, <1>3, RateTime
<1>7. d * conf.rate = conf.rate * d
  BY <1>1, <1>3
<1>8. n \in Int /\ n = bucket.tokens + conf.rate * d
  BY <1>2, <1>6, <1>7
<1> HIDE DEF n
<1>9. Left(bucket) \in Nat /\ bucket.tokens <= Left(bucket)
  BY <1>2 DEF Left
<1>10. admitted + n <= Cap + conf.rate * now + g
  BY <1>1, <1>2, <1>5, <1>6, <1>8, <1>9
<1>11. Refilled(bucket) \in Int /\ Refilled(bucket) <= n
  BY <1>1, <1>4, <1>8
<1>12. admitted + Refilled(bucket) <= Cap + conf.rate * now + g
  BY <1>1, <1>5, <1>6, <1>8, <1>10, <1>11
<1>13. QED
  BY <1>11, <1>12 DEF g

\* So is what was let through alone, and a drop takes its time.
LEMMA AdmittedBounded ==
  ASSUME conf \in Scenarios, LimitsInv, conf.rate > 0
  PROVE  admitted <= Cap + conf.rate * now + dropped * Gain /\ dropped * (conf.ttl + 1) <= now
<1>1. /\ conf.rate \in Nat /\ conf.ttl + 1 \in Nat /\ now \in Nat /\ admitted \in Nat /\ dropped \in Nat
      /\ Cap \in Nat /\ Gain \in Nat
  <2>1. conf.rate \in Nat /\ conf.ttl + 1 \in Nat
    BY ConfFacts
  <2>2. now \in Nat /\ admitted \in Nat /\ dropped \in Nat
    BY DEF LimitsInv
  <2>3. QED
    BY <2>1, <2>2, CapFacts
<1> DEFINE g == dropped * Gain
           t == dropped * (conf.ttl + 1)
<1>2. g \in Nat /\ t \in Nat /\ conf.rate * now \in Nat
  BY <1>1, DropsFacts
<1>3. CASE bucket = None
  <2>1. admitted <= conf.rate * now + g /\ t <= now
    BY <1>1, <1>3 DEF LimitsInv
  <2> HIDE DEF g, t
  <2>2. admitted <= Cap + conf.rate * now + g /\ t <= now
    BY <1>1, <1>2, <2>1
  <2>3. QED
    BY <2>2 DEF g, t
<1>4. CASE bucket # None
  <2>1. /\ bucket.tokens \in Int /\ bucket.last \in Nat /\ bucket.last <= now
        /\ admitted + Left(bucket) <= Cap + conf.rate * bucket.last + g /\ t <= bucket.last
    BY <1>4 DEF LimitsInv
  <2> HIDE DEF g, t
  <2>2. /\ conf.rate * bucket.last \in Nat /\ conf.rate * 0 \in Nat /\ conf.rate * bucket.last + conf.rate * 0 <= conf.rate * now
    BY <1>1, <2>1, RateTime
  <2>3. Left(bucket) \in Nat
    BY <2>1 DEF Left
  <2>4. admitted <= Cap + conf.rate * now + g /\ t <= now
    BY <1>1, <1>2, <2>1, <2>2, <2>3
  <2>5. QED
    BY <2>4 DEF g, t
<1>5. QED
  BY <1>3, <1>4

\* A check of the limiter.
LEMMA CheckKeeps ==
  ASSUME conf \in Scenarios, LimitsInv, bucket' = Checked, admitted' = IF Allowed THEN admitted + 1 ELSE admitted,
         UNCHANGED <<now, dropped, conf>>
  PROVE  /\ admitted' \in Nat /\ bucket' \in [tokens : Int, last : Nat] \cup {None}
         /\ bucket' = None => ~(conf.rate > 0)
         /\ bucket' # None => /\ conf.rate > 0 /\ bucket'.last <= now /\ dropped * (conf.ttl + 1) <= bucket'.last
                              /\ admitted' + Left(bucket') <= Cap + conf.rate * bucket'.last + dropped * Gain
<1>1. /\ conf.rate \in Nat /\ conf.burst \in Nat /\ now \in Nat /\ admitted \in Nat /\ dropped \in Nat
      /\ Cap \in Nat /\ Gain \in Nat /\ Cap >= 1 /\ (conf.burst = 0 => Cap = 1) /\ (conf.burst # 0 => Cap = conf.burst)
  BY ConfFacts, CapFacts DEF LimitsInv
<1>2. admitted' \in Nat
  BY <1>1
<1>3. CASE conf.rate = 0
  BY <1>2, <1>3 DEF Checked
<1>4. CASE conf.rate # 0
  <2> DEFINE g == dropped * Gain
             n == IF bucket = None THEN conf.burst - 1 ELSE IF Allowed THEN Refilled(bucket) - 1 ELSE Refilled(bucket)
  <2>1. conf.rate > 0 /\ dropped * (conf.ttl + 1) <= now
    BY <1>1, <1>4, AdmittedBounded
  <2>2. g \in Nat /\ conf.rate * now \in Nat
    BY <1>1, DropsFacts
  <2>3. bucket' = [tokens |-> n, last |-> now]
    BY <1>4 DEF Checked
  <2>4. bucket'.tokens = n /\ bucket'.last = now /\ Left(bucket') = IF n > 0 THEN n ELSE 0
    BY <2>3 DEF Left
  <2>5. n \in Int /\ admitted' + Left(bucket') <= Cap + conf.rate * now + g
    <3>1. CASE bucket = None
      <4>1. admitted <= conf.rate * now + g
        BY <2>1, <3>1 DEF LimitsInv
      <4>2. admitted' = admitted + 1 /\ n = conf.burst - 1
        BY <3>1 DEF Allowed
      <4> HIDE DEF g, n
      <4>3. n \in Int /\ Left(bucket') + 1 <= Cap /\ Left(bucket') \in Nat
        BY <1>1, <2>4, <4>2
      <4>4. QED
        BY <1>1, <2>2, <4>1, <4>2, <4>3
    <3>2. CASE bucket # None /\ Refilled(bucket) >= 1
      <4>1. Refilled(bucket) \in Int /\ admitted + Refilled(bucket) <= Cap + conf.rate * now + g
        BY <3>2, RefilledBounded
      <4>2. admitted' = admitted + 1 /\ n = Refilled(bucket) - 1
        BY <3>2 DEF Allowed
      <4> HIDE DEF g, n
      <4>3. n \in Nat /\ Left(bucket') = Refilled(bucket) - 1
        BY <2>4, <3>2, <4>1, <4>2
      <4>4. QED
        BY <1>1, <2>2, <4>1, <4>2, <4>3
    <3>3. CASE bucket # None /\ ~(Refilled(bucket) >= 1)
      <4>1. Refilled(bucket) \in Int
        BY <3>3, RefilledBounded
      <4>2. admitted' = admitted /\ n = Refilled(bucket) /\ admitted <= Cap + conf.rate * now + g
        BY <1>4, <2>1, <3>3, AdmittedBounded DEF Allowed
      <4> HIDE DEF g, n
      <4>3. n \in Int /\ Left(bucket') = 0
        BY <2>4, <3>3, <4>1, <4>2
      <4>4. QED
        BY <1>1, <2>2, <4>2, <4>3
    <3>4. QED
      BY <3>1, <3>2, <3>3
  <2> HIDE DEF n
  <2>6. bucket' \in [tokens : Int, last : Nat]
    BY <1>1, <2>3, <2>5
  <2>7. bucket' # None
    BY <2>6, NoneAssumption
  <2>8. QED
    BY <1>2, <2>1, <2>4, <2>5, <2>6, <2>7, <1>1
<1>5. QED
  BY <1>3, <1>4

\* A step of c that leaves the tree and the cache alone and is about c's request.
LEMMA RequestKept ==
  ASSUME DavInv, NEW c \in Clients, NEW k \in DavJobs, Sound(tree, k), job' = [job EXCEPT ![c] = k],
         UNCHANGED <<tree, cache, reload, conf>>, forgiven \subseteq forgiven', forgiven' \subseteq Paths,
         job[c].owes \subseteq forgiven' \cup k.owes, LimitsInv'
  PROVE  DavInv'
<1>1. job \in [Clients -> DavJobs] /\ \A d \in Clients : Sound(tree, job[d])
  BY DEF DavInv
<1>2. job' \in [Clients -> DavJobs] /\ job'[c] = k /\ \A d \in Clients \ {c} : job'[d] = job[d]
  BY <1>1
<1>3. \A d \in Clients : Sound(tree, job[d])'
  BY <1>1, <1>2
<1>4. StaleHasReason'
  <2> SUFFICES ASSUME NEW q \in Paths, cache[q] # None, cache[q] # Props(tree, q)
               PROVE  q \in forgiven' \/ \E d \in Clients : q \in job'[d].owes
    BY DEF StaleHasReason
  <2>1. q \in forgiven \/ \E d \in Clients : q \in job[d].owes
    BY DEF DavInv, StaleHasReason
  <2>2. ASSUME NEW d \in Clients, q \in job[d].owes PROVE q \in forgiven' \/ q \in job'[d].owes
    BY <1>2, <2>2
  <2>3. QED
    BY <2>1, <2>2
<1>5. ReloadTyped' /\ ReloadInv'
  BY ReloadKept
<1>6. QED
  BY <1>2, <1>3, <1>4, <1>5 DEF DavInv

\* Requests come through the limiters, and leave.
LEMMA DavBeginKeeps ==
  ASSUME DavInv, NEW c \in Clients, NEW r \in conf.requests, Begin(c, r) PROVE DavInv'
<1> DEFINE j == [Idle EXCEPT !.req = r, !.at = r.path, !.left = r.depth, !.before = tree]
           k == IF ~Allowed THEN Reply(j, "429") ELSE IF conf.maxConns > 0 THEN To(j, "acquire") ELSE Handle(j)
<1>1. /\ job[c].pc = "idle" /\ started' = started + 1 /\ bucket' = Checked
      /\ admitted' = IF Allowed THEN admitted + 1 ELSE admitted
      /\ job' = [job EXCEPT ![c] = k] /\ UNCHANGED <<tree, cache, sem, now, dropped, reload, forgiven, conf>>
  BY DEF Begin
<1>2. conf \in Scenarios /\ tree \in Trees /\ LimitsInv /\ forgiven \subseteq Paths /\ job \in [Clients -> DavJobs]
  BY DEF DavInv
<1>3. conf.maxConns \in Nat /\ r \in Request /\ HasHeaders(r)
  BY <1>2, ConfFacts
<1>4. Idle \in DavJobs /\ r.path \in Paths /\ r.depth \in Nat
  BY <1>2, <1>3, IdleSound DEF Request
<1>5. /\ j \in DavJobs /\ j.at = j.req.path /\ j.left = j.req.depth /\ j.work = {} /\ j.found = {} /\ j.body = Empty
      /\ j.code = "" /\ j.owes = {} /\ j.before = tree
  BY <1>2, <1>3, <1>4 DEF DavJobs, Idle
<1> HIDE DEF j
<1>6. /\ k \in DavJobs /\ Sound(tree, k) /\ k.owes = {}
      /\ conf.maxConns > 0 => k.pc = "acquire" \/ k.code = "429"
  <2>1. CASE ~Allowed
    <3>1. "429" \in DavCodes
      BY DEF DavCodes
    <3>2. /\ k \in DavJobs /\ k.pc = "reply" /\ k.req = j.req /\ k.at = j.at /\ k.code = "429" /\ k.before = j.before
          /\ k.owes = j.owes
      BY <1>5, <2>1, <3>1, ReplyFields
    <3> HIDE DEF k
    <3>3. OfOp(k) /\ Owing(k) /\ Saw(tree, k)
      BY <1>5, <3>2 DEF OfOp, Owing, Saw, Methods, CopySteps, FindSteps
    <3>4. Failed(tree, k)
      BY <1>5, <3>2 DEF Failed, OnlyChanged
    <3>5. Alone(tree, k)
      BY <3>2, <3>4 DEF Alone, LateSteps, FindSteps
    <3>6. QED
      BY <1>5, <3>2, <3>3, <3>5 DEF Sound
  <2>2. CASE Allowed /\ conf.maxConns > 0
    <3>1. k = To(j, "acquire") /\ "acquire" \in Steps
      BY <2>2 DEF Steps
    <3> HIDE DEF k
    <3>2. /\ k \in DavJobs /\ k.pc = "acquire" /\ k.req = j.req /\ k.at = j.at /\ k.left = j.left /\ k.work = j.work
          /\ k.found = j.found /\ k.body = j.body /\ k.code = j.code /\ k.before = j.before /\ k.owes = j.owes
      BY <1>5, <3>1, ToFields
    <3>3. OfOp(k) /\ Owing(k) /\ Saw(tree, k)
      BY <1>5, <3>2 DEF OfOp, Owing, Saw, Methods, CopySteps, FindSteps
    <3>4. Alone(tree, k)
      BY <1>5, <3>2 DEF Alone, LateSteps, FindSteps
    <3>5. QED
      BY <1>5, <3>2, <3>3, <3>4 DEF Sound
  <2>3. CASE Allowed /\ ~(conf.maxConns > 0)
    <3>1. k = Handle(j)
      BY <2>3
    <3> HIDE DEF k
    <3>2. QED
      BY <1>2, <1>5, <2>3, <3>1, HandleSound
  <2>4. QED
    BY <2>1, <2>2, <2>3
<1> HIDE DEF k
<1>7. job'[c] = k /\ \A d \in Clients \ {c} : job'[d] = job[d]
  BY <1>1, <1>2
<1>8. LimitsInv'
  <2>1. /\ admitted' \in Nat /\ bucket' \in [tokens : Int, last : Nat] \cup {None}
        /\ bucket' = None => ~(conf.rate > 0)
        /\ bucket' # None => /\ conf.rate > 0 /\ bucket'.last <= now /\ dropped * (conf.ttl + 1) <= bucket'.last
                             /\ admitted' + Left(bucket') <= Cap + conf.rate * bucket'.last + dropped * Gain
    BY <1>1, <1>2, CheckKeeps
  <2>2. started' \in Nat /\ dropped \in Nat
    BY <1>1 DEF DavInv, LimitsInv
  <2>3. IsFiniteSet(Busy) /\ sem = (IF conf.maxConns > 0 THEN Cardinality(Busy) ELSE 0) /\ sem \in Nat /\ now \in Nat /\ sem <= conf.maxConns
    BY <1>2 DEF LimitsInv
  <2>4. c \notin Busy
    BY <1>1 DEF Busy
  <2>5. Busy' \subseteq Busy \cup {c}
    BY <1>7 DEF Busy
  <2>6. Busy \subseteq Busy'
    BY <1>7, <2>4 DEF Busy
  <2>7. IsFiniteSet(Busy')
    BY <2>3, <2>5, FS_AddElement, FS_Subset
  <2>8. conf.maxConns > 0 => c \notin Busy'
    BY <1>6, <1>7 DEF Busy
  <2>9. conf.maxConns > 0 => Busy' = Busy
    BY <2>5, <2>6, <2>8
  <2>10. sem' = IF conf'.maxConns > 0 THEN Cardinality(Busy') ELSE 0
    BY <1>1, <2>3, <2>9
  <2>11. Cap' = Cap /\ Gain' = Gain /\ UNCHANGED <<sem, now, dropped, conf>>
    BY <1>1 DEF Cap, Gain
  <2>12. /\ sem' \in Nat /\ now' \in Nat /\ admitted' \in Nat /\ started' \in Nat /\ dropped' \in Nat
         /\ sem' <= conf'.maxConns /\ bucket' \in [tokens : Int, last : Nat] \cup {None}
    BY <2>1, <2>2, <2>3, <2>11
  <2>13. bucket' = None => ~(conf'.rate > 0)
    BY <2>1, <2>11
  <2>14. bucket' # None => /\ conf'.rate > 0 /\ bucket'.last <= now' /\ dropped' * (conf'.ttl + 1) <= bucket'.last
                          /\ admitted' + Left(bucket') <= Cap' + conf'.rate * bucket'.last + dropped' * Gain'
    BY <2>1, <2>11, Zenon
  <2>15. QED
    BY <2>7, <2>10, <2>12, <2>13, <2>14, Zenon DEF LimitsInv
<1>9. job[c].owes = {}
  <2>1. Owing(job[c])
    BY JobOf
  <2>2. QED
    BY <1>1, <2>1 DEF Owing, LateSteps
<1>10. QED
  BY <1>1, <1>2, <1>6, <1>8, <1>9, RequestKept

LEMMA AcquireKeeps ==
  ASSUME DavInv, NEW c \in Clients, Acquire(c) PROVE DavInv'
<1> DEFINE j == job[c]
           k == Handle(j)
<1>1. /\ j.pc = "acquire" /\ sem < conf.maxConns /\ sem' = sem + 1 /\ job' = [job EXCEPT ![c] = k]
      /\ UNCHANGED <<tree, cache, started, bucket, now, admitted, dropped, reload, forgiven, conf>>
  BY DEF Acquire
<1>2. conf \in Scenarios /\ tree \in Trees /\ LimitsInv /\ forgiven \subseteq Paths /\ job \in [Clients -> DavJobs]
  BY DEF DavInv
<1>3. conf.maxConns \in Nat
  BY <1>2, ConfFacts
<1>4. j \in DavJobs /\ OfOp(j) /\ Owing(j) /\ Alone(tree, j)
  BY JobOf
<1>5. /\ j.at = j.req.path /\ j.left = j.req.depth /\ j.work = {} /\ j.found = {} /\ j.body = Empty
      /\ j.code = "" /\ j.owes = {} /\ j.before \in {None, tree}
  BY <1>1, <1>4 DEF OfOp, Owing, Alone, LateSteps
<1>6. k \in DavJobs /\ Sound(tree, k) /\ k.owes = {} /\ k.pc \notin {"idle", "acquire"} /\ k.code # "429"
  BY <1>2, <1>4, <1>5, HandleSound
<1> HIDE DEF k
<1>7. job'[c] = k /\ \A d \in Clients \ {c} : job'[d] = job[d]
  BY <1>1, <1>2
<1>8. LimitsInv'
  <2>1. IsFiniteSet(Busy) /\ sem = (IF conf.maxConns > 0 THEN Cardinality(Busy) ELSE 0) /\ sem \in Nat
    BY <1>2 DEF LimitsInv
  <2>2. Busy' = Busy \cup {c} /\ c \notin Busy
    BY <1>1, <1>6, <1>7 DEF Busy
  <2>3. IsFiniteSet(Busy') /\ Cardinality(Busy') = Cardinality(Busy) + 1
    BY <2>1, <2>2, FS_AddElement
  <2>4. conf.maxConns > 0 /\ sem = Cardinality(Busy) /\ sem' \in Nat /\ sem' <= conf.maxConns
    BY <1>1, <1>3, <2>1
  <2>5. QED
    BY <1>1, <1>2, <2>3, <2>4 DEF LimitsInv, Cap, Gain
<1>9. QED
  BY <1>1, <1>2, <1>5, <1>6, <1>8, RequestKept

LEMMA DavEndKeeps ==
  ASSUME DavInv, NEW c \in Clients, End(c) PROVE DavInv'
<1> DEFINE j == job[c]
<1>1. /\ j.pc = "reply" /\ sem' = IF conf.maxConns > 0 /\ j.code # "429" THEN sem - 1 ELSE sem
      /\ forgiven' = IF j.code = "ok" THEN forgiven ELSE forgiven \cup j.owes
      /\ job' = [job EXCEPT ![c] = Idle] /\ UNCHANGED <<tree, cache, started, bucket, now, admitted, dropped, reload, conf>>
  BY DEF End
<1>2. conf \in Scenarios /\ tree \in Trees /\ LimitsInv /\ forgiven \subseteq Paths /\ job \in [Clients -> DavJobs]
  BY DEF DavInv
<1>3. conf.maxConns \in Nat
  BY <1>2, ConfFacts
<1>4. j \in DavJobs /\ Owing(j)
  BY JobOf
<1>5. Idle \in DavJobs /\ Sound(tree, Idle) /\ Idle.pc = "idle"
  BY <1>2, IdleSound DEF Idle
<1>6. j.owes \subseteq Paths /\ j.owes \subseteq forgiven' /\ forgiven \subseteq forgiven' /\ forgiven' \subseteq Paths
  BY <1>1, <1>2, <1>4 DEF Owing, DavJobs
<1>7. job'[c] = Idle /\ \A d \in Clients \ {c} : job'[d] = job[d]
  BY <1>1, <1>2
<1>8. LimitsInv'
  <2>1. IsFiniteSet(Busy) /\ sem = (IF conf.maxConns > 0 THEN Cardinality(Busy) ELSE 0) /\ sem <= conf.maxConns
    BY <1>2 DEF LimitsInv
  <2>2. Busy' = Busy \ {c} /\ (c \in Busy <=> j.code # "429")
    BY <1>1, <1>5, <1>7 DEF Busy
  <2>3. /\ IsFiniteSet(Busy')
        /\ Cardinality(Busy') = IF c \in Busy THEN Cardinality(Busy) - 1 ELSE Cardinality(Busy)
    BY <2>1, <2>2, FS_RemoveElement
  <2>4. Cardinality(Busy) \in Nat /\ Cardinality(Busy') \in Nat
    BY <2>1, <2>3, FS_CardinalityType
  <2>5. sem' = (IF conf.maxConns > 0 THEN Cardinality(Busy') ELSE 0)
    BY <1>1, <2>1, <2>2, <2>3
  <2>6. sem' \in Nat /\ sem' <= conf.maxConns
    BY <1>1, <1>3, <2>1, <2>4, <2>5
  <2>7. QED
    BY <1>1, <1>2, <2>3, <2>5, <2>6 DEF LimitsInv, Cap, Gain
<1>9. QED
  BY <1>1, <1>5, <1>6, <1>8, RequestKept

\* The limiter's time, and the cache's.
LEMMA CleanupKeeps ==
  ASSUME DavInv, Cleanup PROVE DavInv'
<1>1. /\ bucket # None /\ now - bucket.last > conf.ttl /\ bucket' = None /\ dropped' = dropped + 1
      /\ UNCHANGED <<tree, cache, job, started, sem, now, admitted, reload, forgiven, conf>>
  BY DEF Cleanup, Stale
<1>2. conf \in Scenarios /\ LimitsInv
  BY DEF DavInv
<1>3. /\ conf.rate \in Nat /\ conf.ttl \in Nat /\ conf.ttl + 1 \in Nat /\ Cap \in Nat /\ Gain \in Nat
      /\ Gain >= Cap - conf.rate * (conf.ttl + 1) /\ dropped \in Nat /\ now \in Nat /\ admitted \in Nat
  <2>1. dropped \in Nat /\ now \in Nat /\ admitted \in Nat
    BY <1>2 DEF LimitsInv
  <2>2. conf.rate \in Nat /\ conf.ttl \in Nat /\ conf.ttl + 1 \in Nat
    BY <1>2, ConfFacts
  <2>3. Cap \in Nat /\ Gain \in Nat /\ Gain >= Cap - conf.rate * (conf.ttl + 1)
    BY <1>2, CapFacts
  <2>4. QED
    BY <2>1, <2>2, <2>3
<1> DEFINE e == conf.ttl + 1
           g == dropped * Gain
           t == dropped * e
<1>4. g \in Nat /\ t \in Nat /\ (dropped + 1) * Gain = g + Gain /\ (dropped + 1) * e = t + e
  BY <1>3, DropsFacts
<1>5. /\ bucket.tokens \in Int /\ bucket.last \in Nat /\ t <= bucket.last
      /\ admitted + Left(bucket) <= Cap + conf.rate * bucket.last + g
  BY <1>1, <1>2 DEF LimitsInv
<1>6. e \in Nat /\ bucket.last + e <= now /\ Gain >= Cap - conf.rate * e
  BY <1>1, <1>3, <1>5
<1> HIDE DEF e, g, t
<1>7. /\ conf.rate * bucket.last \in Nat /\ conf.rate * e \in Nat /\ conf.rate * now \in Nat
      /\ conf.rate * bucket.last + conf.rate * e <= conf.rate * now
  BY <1>3, <1>5, <1>6, RateTime
<1>8. Left(bucket) \in Nat
  BY <1>5 DEF Left
<1>9. admitted <= conf.rate * now + (dropped + 1) * Gain /\ (dropped + 1) * e <= now
  BY <1>3, <1>4, <1>5, <1>6, <1>7, <1>8
<1>10. LimitsInv'
  <2>1. admitted <= conf.rate * now + dropped' * Gain' /\ dropped' * (conf.ttl + 1) <= now /\ dropped' \in Nat
    BY <1>1, <1>3, <1>9 DEF e, Gain, Cap
  <2>2. Busy' = Busy
    BY <1>1 DEF Busy
  <2>3. QED
    BY <1>1, <1>2, <2>1, <2>2 DEF LimitsInv
<1>11. ReloadTyped' /\ ReloadInv'
  BY <1>1, ReloadKept
<1>12. QED
  BY <1>1, <1>10, <1>11 DEF DavInv, StaleHasReason

LEMMA TickKeeps ==
  ASSUME DavInv, Tick PROVE DavInv'
<1>1. now' = now + 1 /\ UNCHANGED <<tree, cache, job, started, sem, bucket, admitted, dropped, reload, forgiven, conf>>
  BY DEF Tick
<1>2. conf \in Scenarios /\ LimitsInv
  BY DEF DavInv
<1>3. conf.rate \in Nat /\ conf.ttl + 1 \in Nat /\ now \in Nat /\ admitted \in Nat /\ dropped \in Nat /\ Gain \in Nat
  <2>1. conf.rate \in Nat /\ conf.ttl + 1 \in Nat /\ Gain \in Nat
    BY <1>2, ConfFacts, CapFacts
  <2>2. QED
    BY <1>2, <2>1 DEF LimitsInv
<1> DEFINE g == dropped * Gain
           t == dropped * (conf.ttl + 1)
<1>4. g \in Nat /\ t \in Nat
  BY <1>3, DropsFacts
<1>5. now + 0 <= now + 1 /\ now + 1 \in Nat
  BY <1>3
<1>6. /\ conf.rate * now \in Nat /\ conf.rate * (now + 1) \in Nat
      /\ conf.rate * now + conf.rate * 0 <= conf.rate * (now + 1)
  BY <1>3, <1>5, RateTime
<1>7. conf.rate * 0 = 0
  BY <1>3
<1>8. bucket = None /\ conf.rate > 0 => admitted <= conf.rate * (now + 1) + g /\ t <= now + 1
  <2>1. bucket = None /\ conf.rate > 0 => admitted <= conf.rate * now + g /\ t <= now
    BY <1>2 DEF LimitsInv
  <2> HIDE DEF g, t
  <2>2. QED
    BY <1>3, <1>4, <1>6, <1>7, <2>1
<1>9. bucket # None => bucket.last <= now + 1
  <2>1. bucket # None => bucket.last \in Nat /\ bucket.last <= now
    BY <1>2 DEF LimitsInv
  <2>2. QED
    BY <1>3, <2>1
<1>10. LimitsInv'
  <2>1. Busy' = Busy
    BY <1>1 DEF Busy
  <2>2. Cap' = Cap /\ Gain' = Gain
    BY <1>1 DEF Cap, Gain
  <2>3. bucket' = None /\ conf'.rate > 0 => /\ admitted' <= conf'.rate * now' + dropped' * Gain'
                                           /\ dropped' * (conf'.ttl + 1) <= now'
    BY <1>1, <1>8, <2>2, Zenon
  <2>4. bucket' # None => /\ conf'.rate > 0 /\ bucket'.last <= now' /\ dropped' * (conf'.ttl + 1) <= bucket'.last
                         /\ admitted' + Left(bucket') <= Cap' + conf'.rate * bucket'.last + dropped' * Gain'
    <3>1. bucket # None => /\ conf.rate > 0 /\ dropped * (conf.ttl + 1) <= bucket.last
                           /\ admitted + Left(bucket) <= Cap + conf.rate * bucket.last + dropped * Gain
      BY <1>2 DEF LimitsInv
    <3>2. QED
      BY <1>1, <1>9, <2>2, <3>1, Zenon
  <2>5. /\ sem' \in Nat /\ now' \in Nat /\ admitted' \in Nat /\ started' \in Nat /\ dropped' \in Nat
        /\ IsFiniteSet(Busy') /\ sem' = IF conf'.maxConns > 0 THEN Cardinality(Busy') ELSE 0
        /\ sem' <= conf'.maxConns /\ bucket' \in [tokens : Int, last : Nat] \cup {None}
    BY <1>1, <1>2, <1>5, <2>1 DEF LimitsInv
  <2>6. QED
    BY <2>3, <2>4, <2>5, Zenon DEF LimitsInv
<1>11. ReloadTyped' /\ ReloadInv'
  BY <1>1, ReloadKept
<1>12. QED
  BY <1>1, <1>10, <1>11 DEF DavInv, StaleHasReason

LEMMA ExpireKeeps ==
  ASSUME DavInv, NEW p \in Paths, Expire(p) PROVE DavInv'
<1>1. /\ cache' = [cache EXCEPT ![p] = None] /\ forgiven' = forgiven \ {p}
      /\ UNCHANGED <<tree, job, started, limits, reload, conf>>
  BY DEF Expire
<1>2. cache' \in [Paths -> CacheEntries \cup {None}] /\ forgiven' \subseteq Paths /\ cache'[p] = None
  BY <1>1 DEF DavInv
<1>3. \A q \in Paths \ {p} : cache'[q] = cache[q]
  BY <1>1 DEF DavInv
<1>4. StaleHasReason'
  BY <1>1, <1>2, <1>3 DEF DavInv, StaleHasReason
<1>5. LimitsInv'
  <2>1. UNCHANGED <<sem, bucket, now, admitted, dropped>> /\ Busy' = Busy
    BY <1>1 DEF limits, Busy
  <2>2. QED
    BY <1>1, <2>1 DEF DavInv, LimitsInv, Cap, Gain
<1>6. ReloadTyped' /\ ReloadInv'
  BY <1>1, ReloadKept
<1>7. QED
  BY <1>1, <1>2, <1>4, <1>5, <1>6 DEF DavInv

-----------------------------------------------------------------------------
\* A reload: a change that it makes, and its end.
LEMMA DavReloads ==
  ASSUME DavInv, NEW p \in Paths, NEW u, NEW r, ChangedAt(tree, u, p), ReloadChange(p, u, r), ReloadTyped', ReloadInv'
  PROVE  DavInv'
<1>1. /\ tree' = u /\ job' = [c \in Clients |-> Disturbed(job[c], u)] /\ forgiven' = forgiven \cup {p}
      /\ UNCHANGED <<cache, started, limits, conf>>
  BY DEF ReloadChange
<1>2. job \in [Clients -> DavJobs] /\ (\A c \in Clients : Sound(tree, job[c])) /\ tree \in Trees
  BY DEF DavInv
<1>3. u \in Trees /\ WellFormed(u)
  BY DEF ChangedAt
<1>4. \A c \in Clients : /\ job'[c] \in DavJobs /\ Sound(u, job'[c]) /\ job'[c].owes = job[c].owes
                         /\ job'[c].pc = job[c].pc /\ job'[c].code = job[c].code
  BY <1>1, <1>2, <1>3, DisturbedSound
<1>5. job' \in [Clients -> DavJobs] /\ \A c \in Clients : Sound(tree, job[c])'
  BY <1>1, <1>4
<1>6. LimitsInv'
  BY <1>1, <1>4, BusyKept DEF DavInv
<1>7. StaleHasReason'
  <2> SUFFICES ASSUME NEW q \in Paths, cache[q] # None, cache[q] # Props(u, q), q # p
               PROVE  q \in forgiven' \/ \E c \in Clients : q \in job'[c].owes
    BY <1>1 DEF StaleHasReason
  <2>1. cache[q] # Props(tree, q)
    BY <1>2, StaleKept DEF DavInv
  <2>2. q \in forgiven \/ \E c \in Clients : q \in job[c].owes
    BY <2>1 DEF DavInv, StaleHasReason
  <2>3. QED
    BY <1>1, <1>4, <2>2
<1>8. forgiven' \subseteq Paths /\ conf' \in Scenarios /\ cache' \in [Paths -> CacheEntries \cup {None}]
  BY <1>1 DEF DavInv
<1>9. QED
  BY <1>1, <1>3, <1>5, <1>6, <1>7, <1>8 DEF DavInv

\* A step of a reload that changes nothing else.
LEMMA ReloadOnly ==
  ASSUME DavInv, UNCHANGED <<tree, cache, job, started, limits, forgiven, conf>>, ReloadTyped', ReloadInv'
  PROVE  DavInv'
<1>1. LimitsInv'
  <2>1. UNCHANGED <<sem, bucket, now, admitted, dropped>> /\ Busy' = Busy
    BY DEF limits, Busy
  <2>2. QED
    BY <2>1 DEF DavInv, LimitsInv, Cap, Gain
<1>2. QED
  BY <1>1 DEF DavInv, StaleHasReason

\* The invariant of a reload after a step to r and the tree u.
LEMMA ReloadNext ==
  ASSUME conf' = conf, NEW r \in ReloadStates, reload' = r, Parses, r.todo.modified \cup r.todo.added \subseteq Places,
         r.mount # None => r.mount \in Places, NEW u, tree' = u,
         r.before # None => LastPlaces(r.before, r) /\ Reached(u, r.before, r)
  PROVE  ReloadTyped' /\ ReloadInv'
<1>1. ReloadTyped'
  BY DEF ReloadTyped, ReloadStates
<1>2. Parses' /\ Places' = Places
  BY DEF Parses, Places
<1>3. r.before # None => LastPlaces(r.before, r)'
  BY DEF LastPlaces, Old, PathAt, Places
<1>4. r.before # None => Reached(u, r.before, r)'
  BY DEF Reached, Listed, PathAt, EntryAt, Places
<1>5. QED
  BY <1>1, <1>2, <1>3, <1>4 DEF ReloadInv

\* The end of a reload that nobody interfered with is right.
EndsRight == reload.before # None /\ reload'.pc = "done" =>
               IF reload'.err = None THEN Applied(tree') ELSE Stopped(reload.before, tree', reload'.err)

\* The end of a reload.
LEMMA ReloadEndKeeps ==
  ASSUME DavInv, NEW err \in Errors \cup {None}, ReloadEnd(err),
         reload.before # None => IF err = None THEN Applied(tree) ELSE Stopped(reload.before, tree, err)
  PROVE  DavInv' /\ EndsRight
<1>1. /\ reload' = [NoReload EXCEPT !.pc = "done", !.err = err, !.count = reload.count]
      /\ UNCHANGED <<tree, cache, job, started, limits, forgiven, conf>>
  BY DEF ReloadEnd
<1>2. reload.count \in Nat
  BY DEF DavInv, ReloadTyped, ReloadStates
<1>3. ReloadTyped' /\ reload'.pc = "done" /\ reload'.err = err
  BY <1>1, <1>2 DEF ReloadTyped, ReloadStates, NoReload
<1>4. ReloadInv'
  BY <1>3 DEF ReloadInv
<1>5. DavInv'
  BY <1>1, <1>3, <1>4, ReloadOnly
<1>6. EndsRight
  BY <1>1, <1>3 DEF EndsRight
<1>7. QED
  BY <1>5, <1>6

\* What a reload can rely on at its next step.
LEMMA ReloadFacts ==
  ASSUME DavInv, reload.pc = "run"
  PROVE  LET b == reload.before IN
         /\ reload \in ReloadStates /\ tree \in Trees /\ WellFormed(tree) /\ Parses
         /\ Places \subseteq Nat /\ Listed \subseteq Paths /\ None \notin Nat
         /\ reload.todo.modified \cup reload.todo.added \subseteq Places /\ (reload.mount # None => reload.mount \in Places)
         /\ \A i \in Places : /\ PathAt(i) \in Paths /\ PathAt(i) \in Listed /\ EntryAt(i) \in Entry /\ EntryAt(i) # None
                              /\ conf.config[i] = [path |-> PathAt(i), entry |-> EntryAt(i)]
         /\ b # None => b \in Trees /\ LastPlaces(b, reload) /\ Reached(tree, b, reload)
<1>1. reload \in ReloadStates /\ tree \in Trees /\ WellFormed(tree) /\ ReloadInv /\ conf \in Scenarios
  BY DEF DavInv, ReloadTyped
<1>2. /\ Parses /\ reload.todo.modified \cup reload.todo.added \subseteq Places /\ (reload.mount # None => reload.mount \in Places)
      /\ reload.before # None => LastPlaces(reload.before, reload) /\ Reached(tree, reload.before, reload)
  BY <1>1 DEF ReloadInv
<1>3. Places \subseteq Nat /\ \A i \in Places : PathAt(i) \in Paths /\ EntryAt(i) \in Entry \cup {None}
  BY <1>1, ConfFacts
<1>4. \A i \in Places : PathAt(i) \in Listed /\ EntryAt(i) # None /\ conf.config[i] = [path |-> PathAt(i), entry |-> EntryAt(i)]
  <2>1. \A i \in Places : PathAt(i) \in Listed /\ EntryAt(i) # None
    BY <1>2 DEF Listed, PathAt, EntryAt, Places, Parses
  <2>2. \A i \in Places : conf.config[i] = [path |-> PathAt(i), entry |-> EntryAt(i)]
    BY <1>1, ConfFacts
  <2>3. QED
    BY <2>1, <2>2
<1>5. Listed \subseteq Paths
  BY <1>3 DEF Listed, PathAt, Places
<1>6. None \notin Nat /\ (reload.before # None => reload.before \in Trees)
  BY <1>1, NoneAssumption DEF ReloadStates
<1>7. QED
  BY <1>1, <1>2, <1>3, <1>4, <1>5, <1>6

\* The difference that a reload starts from, ...
LEMMA ReloadBeginKeeps ==
  ASSUME DavInv, ReloadBegin PROVE DavInv'
<1> DEFINE plan == Diff(Snapshot(tree), conf.config)
           n == reload.count + 1
           r == [NoReload EXCEPT !.count = reload.count + 1]
           s == [r EXCEPT !.pc = "run", !.todo = plan, !.before = tree]
<1>1. reload' = (IF Parses THEN s ELSE [r EXCEPT !.pc = "done", !.err = "EINVAL"])
  BY DEF ReloadBegin
<1>2. UNCHANGED <<tree, cache, job, started, limits, forgiven, conf>>
  BY DEF ReloadBegin
<1>3. conf \in Scenarios /\ tree \in Trees /\ n \in Nat
  BY DEF DavInv, ReloadTyped, ReloadStates
<1>4. CASE ~Parses
  <2>1. reload' = [NoReload EXCEPT !.pc = "done", !.err = "EINVAL", !.count = n]
    BY <1>1, <1>4 DEF NoReload
  <2> HIDE DEF n
  <2>2. ReloadTyped' /\ reload'.pc = "done"
    BY <1>3, <2>1 DEF ReloadTyped, ReloadStates, NoReload, Errors
  <2>3. ReloadInv'
    BY <2>2 DEF ReloadInv
  <2>4. QED
    BY <1>2, <2>2, <2>3, ReloadOnly
<1>5. CASE Parses
  <2>1. Places \subseteq Nat /\ \A i \in Places : PathAt(i) \in Paths
    BY <1>3, ConfFacts
  <2>2. plan.modified = Old(tree) /\ plan.added = Places \ Old(tree)
    BY <2>1 DEF Diff, Snapshot, Old, Places, PathAt
  <2>3. plan.removed = { q \in Paths \ Listed : Mounted(tree, q) }
    BY DEF Diff, Snapshot, Listed
  <2>4. plan \in [removed : SUBSET Paths, modified : SUBSET Nat, added : SUBSET Nat]
    <3>1. plan = [removed |-> plan.removed, modified |-> plan.modified, added |-> plan.added]
      BY DEF Diff
    <3> HIDE DEF plan
    <3>2. plan.removed \subseteq Paths /\ plan.modified \subseteq Nat /\ plan.added \subseteq Nat
      BY <2>1, <2>2, <2>3 DEF Old
    <3>3. QED
      BY <3>1, <3>2
  <2>5. s = [NoReload EXCEPT !.pc = "run", !.todo = plan, !.before = tree, !.count = n]
    BY DEF NoReload
  <2> HIDE DEF plan, n
  <2>6. s \in ReloadStates /\ s.todo = plan /\ s.before = tree /\ s.mount = None
    BY <1>3, <2>4, <2>5 DEF ReloadStates, NoReload
  <2> HIDE DEF s
  <2>7. LastPlaces(tree, s)
    BY <2>2, <2>6 DEF LastPlaces, Upward
  <2>8. Reached(tree, tree, s)
    BY <2>2, <2>3, <2>6 DEF Reached
  <2>9. s.todo.modified \cup s.todo.added \subseteq Places
    BY <2>2, <2>6 DEF Old
  <2>10. reload' = s
    BY <1>1, <1>5
  <2>11. ReloadTyped' /\ ReloadInv'
    BY <1>2, <1>5, <2>6, <2>7, <2>8, <2>9, <2>10, ReloadNext
  <2>12. QED
    BY <1>2, <2>11, ReloadOnly
<1>6. QED
  BY <1>4, <1>5

\* ... and its steps: what is not in the configuration goes, ...
LEMMA ReloadRemoves ==
  ASSUME DavInv, reload.pc = "run", NEW p \in reload.todo.removed,
         ReloadUnmount(p, [reload EXCEPT !.todo.removed = @ \ {p}])
  PROVE  DavInv' /\ EndsRight
<1> DEFINE b == reload.before
           r == [reload EXCEPT !.todo.removed = @ \ {p}]
           u == Unmount(tree, p)
<1>1. reload \in ReloadStates /\ tree \in Trees /\ WellFormed(tree) /\ p \in Paths
  BY ReloadFacts DEF ReloadStates
<1>2. b # None => Mounted(tree, p) /\ p \notin Listed /\ reload.mount = None
  BY ReloadFacts DEF Reached, LastPlaces
<1>3. CASE ~Mounted(tree, p)
  <2>1. ReloadEnd("ENOENT") /\ "ENOENT" \in Errors
    BY <1>3 DEF ReloadUnmount, Errors
  <2>2. QED
    BY <1>2, <1>3, <2>1, ReloadEndKeeps
<1>4. CASE Mounted(tree, p)
  <2>1. ReloadChange(p, u, r)
    BY <1>4 DEF ReloadUnmount
  <2>2. ChangedAt(tree, u, p) /\ u.mount[p] = None
    BY <1>1, UnmountChanges
  <2>3. /\ r \in ReloadStates /\ r.pc = "run" /\ r.before = b /\ r.mount = reload.mount
        /\ r.todo.removed = reload.todo.removed \ {p}
        /\ r.todo.modified = reload.todo.modified /\ r.todo.added = reload.todo.added
    BY <1>1 DEF ReloadStates
  <2> HIDE DEF r, u
  <2>4. tree' = u /\ reload' = r /\ conf' = conf
    BY <2>1 DEF ReloadChange
  <2>5. \A q \in Paths \ {p} : u.mount[q] = tree.mount[q]
    BY <2>2 DEF ChangedAt
  <2>6. ASSUME b # None PROVE LastPlaces(b, r) /\ Reached(u, b, r)
    <3>1. LastPlaces(b, reload) /\ Reached(tree, b, reload) /\ Listed \subseteq Paths /\ \A i \in Places : PathAt(i) \in Listed
      BY <2>6, ReloadFacts
    <3>2. LastPlaces(b, r)
      BY <1>2, <2>3, <2>6, <3>1 DEF LastPlaces
    <3>3. \A q \in Listed : u.mount[q] = tree.mount[q]
      BY <1>2, <2>5, <2>6, <3>1
    <3>4. r.todo.removed = { q \in Paths \ Listed : Mounted(u, q) }
      BY <2>2, <2>3, <2>5, <3>1 DEF Reached, Mounted
    <3>5. Reached(u, b, r)
      BY <1>2, <2>3, <2>6, <3>1, <3>3, <3>4 DEF Reached, Mounted
    <3>6. QED
      BY <3>2, <3>5
  <2>7. ReloadTyped' /\ ReloadInv'
    BY <2>3, <2>4, <2>6, ReloadFacts, ReloadNext
  <2>8. EndsRight
    BY <2>3, <2>4 DEF EndsRight
  <2>9. QED
    BY <1>1, <2>1, <2>2, <2>7, <2>8, DavReloads
<1>5. QED
  BY <1>3, <1>4

\* ... what is in it and is mounted is unmounted, ...
LEMMA ReloadModifies ==
  ASSUME DavInv, reload.pc = "run", reload.todo.removed = {}, reload.mount = None,
         NEW m, IsFirst(m, reload.todo.modified), ReloadModified(m)
  PROVE  DavInv' /\ EndsRight
<1> DEFINE b == reload.before
           rest == reload.todo
           p == PathAt(m)
           r == [reload EXCEPT !.todo.modified = @ \ {m}, !.mount = m]
           u == Unmount(tree, p)
<1>1. /\ reload \in ReloadStates /\ tree \in Trees /\ WellFormed(tree) /\ m \in Places /\ m \in Nat /\ m # None
      /\ p \in Paths /\ p \in Listed /\ m \in rest.modified /\ (\A k \in rest.modified : m <= k) /\ Listed \subseteq Paths
      /\ Places \subseteq Nat /\ rest.modified \cup rest.added \subseteq Places
  BY ReloadFacts DEF IsFirst
<1>2. ReloadUnmount(p, r)
  BY DEF ReloadModified, PathAt
<1>3. b # None => LastPlaces(b, reload) /\ Reached(tree, b, reload) /\ \A i \in Places : PathAt(i) \in Listed
  BY ReloadFacts
<1>4. b # None => Mounted(b, p) /\ Mounted(tree, p)
  BY <1>1, <1>3 DEF LastPlaces, Reached, Old
<1>5. CASE ~Mounted(tree, p)
  <2>1. ReloadEnd("ENOENT") /\ "ENOENT" \in Errors
    BY <1>2, <1>5 DEF ReloadUnmount, Errors
  <2>2. QED
    BY <1>4, <1>5, <2>1, ReloadEndKeeps
<1>6. CASE Mounted(tree, p)
  <2>1. ReloadChange(p, u, r)
    BY <1>2, <1>6 DEF ReloadUnmount
  <2>2. ChangedAt(tree, u, p) /\ u.mount[p] = None
    BY <1>1, UnmountChanges
  <2>3. /\ r \in ReloadStates /\ r.pc = "run" /\ r.before = b /\ r.mount = m /\ r.todo.removed = {}
        /\ r.todo.modified = rest.modified \ {m} /\ r.todo.added = rest.added
    BY <1>1 DEF ReloadStates
  <2> HIDE DEF r, u, p
  <2>4. tree' = u /\ reload' = r /\ conf' = conf
    BY <2>1 DEF ReloadChange
  <2>5. \A q \in Paths \ {p} : u.mount[q] = tree.mount[q]
    BY <2>2 DEF ChangedAt
  <2>6. ASSUME b # None PROVE LastPlaces(b, r)
    <3>1. /\ rest.modified \subseteq Old(b) /\ (\A i \in rest.modified, k \in Old(b) : k > i => k \in rest.modified)
          /\ rest.added \subseteq Places \ Old(b) /\ Upward(rest.added, Places \ Old(b)) /\ Old(b) \subseteq Nat
      BY <1>1, <1>3, <2>6 DEF LastPlaces, Upward, Old
    <3>2. \A i \in rest.modified \ {m}, k \in Old(b) : k > i => k \in rest.modified \ {m}
      BY <1>1, <3>1
    <3>3. \A k \in Old(b) : k \in rest.modified \ {m} <=> k > m
      BY <1>1, <3>1
    <3>4. QED
      BY <1>1, <2>3, <3>1, <3>2, <3>3 DEF LastPlaces, Upward
  <2>7. ASSUME b # None PROVE Reached(u, b, r)
    <3>1. r.todo.removed = { q \in Paths \ Listed : Mounted(u, q) }
      BY <1>1, <1>3, <2>3, <2>5, <2>7 DEF Reached, Mounted
    <3>2. ~Mounted(u, PathAt(r.mount)) /\ r.mount # None /\ PathAt(r.mount) = p
      BY <1>1, <2>2, <2>3 DEF Mounted, p
    <3>3. ASSUME NEW q \in Listed
          PROVE  /\ Mounted(b, q) => Mounted(u, q) \/ q = p
                 /\ Mounted(u, q) /\ ~Mounted(b, q) => \E k \in Places \ r.todo.added : PathAt(k) = q
                 /\ \/ u.mount[q] = b.mount[q] \/ q = p
                    \/ \E k \in Places : conf.config[k] = [path |-> q, entry |-> u.mount[q]]
      <4>1. CASE q = p
        BY <2>2, <4>1 DEF Mounted
      <4>2. CASE q # p
        <5>1. u.mount[q] = tree.mount[q]
          BY <1>1, <2>5, <3>3, <4>2
        <5>2. QED
          BY <1>3, <2>3, <2>7, <3>3, <5>1 DEF Reached, Mounted
      <4>3. QED
        BY <4>1, <4>2
    <3>4. ASSUME NEW i \in Places, i \notin r.todo.modified \cup r.todo.added, i # r.mount,
                 \A k \in Places : k > i /\ PathAt(k) = PathAt(i) => k \in r.todo.modified \cup r.todo.added
          PROVE  u.mount[PathAt(i)] = EntryAt(i)
      <4>1. PathAt(i) # p
        <5> SUFFICES ASSUME PathAt(i) = p PROVE FALSE
          OBVIOUS
        <5>1. i \in Old(b) /\ m \in Old(b) /\ m \notin rest.added
          BY <1>1, <1>3, <1>4, <2>7 DEF Old, LastPlaces, p
        <5>2. CASE i < m
          BY <1>1, <2>3, <3>4, <5>1, <5>2 DEF p
        <5>3. CASE i > m
          BY <1>1, <1>3, <2>3, <2>7, <3>4, <5>1, <5>3 DEF LastPlaces, Upward
        <5>4. i \in Nat /\ i # m
          BY <1>1, <2>3, <3>4
        <5>5. QED
          BY <1>1, <5>2, <5>3, <5>4
      <4>2. u.mount[PathAt(i)] = tree.mount[PathAt(i)]
        BY <1>1, <1>3, <2>5, <2>7, <4>1
      <4>3. i \notin rest.modified \cup rest.added /\ i # reload.mount
        BY <1>1, <2>3, <3>4, ReloadFacts
      <4>4. \A k \in Places : k > i /\ PathAt(k) = PathAt(i) => k \in rest.modified \cup rest.added
        BY <2>3, <3>4
      <4>5. QED
        BY <1>3, <2>7, <4>2, <4>3, <4>4 DEF Reached
    <3>5. QED
      BY <3>1, <3>2, <3>3, <3>4 DEF Reached
  <2>8. ReloadTyped' /\ ReloadInv'
    <3>1. Parses /\ r.todo.modified \cup r.todo.added \subseteq Places /\ r.mount \in Places
      BY <1>1, <2>3, ReloadFacts
    <3>2. QED
      BY <2>3, <2>4, <2>6, <2>7, <3>1, ReloadNext
  <2>9. EndsRight
    BY <2>3, <2>4 DEF EndsRight
  <2>10. QED
    BY <1>1, <2>1, <2>2, <2>8, <2>9, DavReloads
<1>7. QED
  BY <1>5, <1>6

\* The mount of a place of the configuration, anew or for the first time.
LEMMA ReloadMounts ==
  ASSUME DavInv, reload.pc = "run", NEW m \in Places, NEW r \in ReloadStates, ReloadMount(m, r),
         r.pc = "run", r.before = reload.before, r.mount = None, r.todo.removed = reload.todo.removed,
         r.todo.modified = reload.todo.modified,
         \/ m = reload.mount /\ r.todo.added = reload.todo.added
         \/ /\ IsFirst(m, reload.todo.added) /\ r.todo.added = reload.todo.added \ {m}
            /\ reload.mount = None /\ reload.todo.removed = {} /\ reload.todo.modified = {}
  PROVE  DavInv' /\ EndsRight
<1> DEFINE b == reload.before
           rest == reload.todo
           p == PathAt(m)
           e == EntryAt(m)
           u == Mount(tree, p, e)
           err == MountError(tree, p, e)
<1>1. /\ tree \in Trees /\ WellFormed(tree) /\ p \in Paths /\ p \in Listed /\ e \in Entry /\ e # None /\ m \in Nat
      /\ Places \subseteq Nat /\ Listed \subseteq Paths /\ None \notin Nat /\ rest.modified \cup rest.added \subseteq Places
      /\ conf.config[m] = [path |-> p, entry |-> e]
  BY ReloadFacts
<1>2. b # None => LastPlaces(b, reload) /\ Reached(tree, b, reload) /\ \A i \in Places : PathAt(i) \in Listed
  BY ReloadFacts
<1>3. /\ IF err # None THEN ReloadEnd(err) ELSE ReloadChange(p, u, r)
      /\ err \in {"EINVAL", "ENOSPC", "EEXIST", None} /\ (err = "EEXIST" => Mounted(tree, p))
  BY MountErrorFacts DEF ReloadMount, PathAt, EntryAt
<1> HIDE DEF p, e
<1>4. ASSUME b # None
      PROVE  /\ LastPlaces(b, r) /\ m \notin r.todo.modified \cup r.todo.added /\ rest.removed = {}
             /\ (reload.mount # None => reload.mount = m /\ ~Mounted(tree, p))
             /\ \A k \in Places : PathAt(k) = p /\ k > m => k \in r.todo.modified \cup r.todo.added
             /\ r.todo.added = rest.added \ {m} /\ r.todo.modified = rest.modified \ {m}
             /\ Mounted(tree, p) => \E k \in Places : k < m /\ PathAt(k) = p
  <2>1. /\ rest.modified \subseteq Old(b) /\ Upward(rest.modified, Old(b)) /\ Old(b) \subseteq Places
        /\ rest.added \subseteq Places \ Old(b) /\ Upward(rest.added, Places \ Old(b))
        /\ \A k \in Places : k \in Old(b) <=> Mounted(b, PathAt(k))
    BY <1>2, <1>4 DEF LastPlaces, Old
  <2>2. CASE m = reload.mount /\ r.todo.added = rest.added
    <3>1. reload.mount # None
      BY <1>1, <2>2
    <3>2. /\ m \in Old(b) /\ rest.removed = {} /\ (\A k \in Old(b) : k \in rest.modified <=> k > m) /\ ~Mounted(tree, p)
      BY <1>2, <1>4, <2>2, <3>1 DEF LastPlaces, Reached, p
    <3>3. m \notin rest.modified /\ m \notin rest.added
      BY <1>1, <2>1, <3>2
    <3>4. \A k \in Places : PathAt(k) = p /\ k > m => k \in rest.modified
      BY <2>1, <3>2 DEF p
    <3>5. LastPlaces(b, r)
      BY <2>1, <2>2 DEF LastPlaces
    <3>6. QED
      BY <2>2, <3>2, <3>3, <3>4, <3>5
  <2>3. CASE /\ IsFirst(m, rest.added) /\ r.todo.added = rest.added \ {m}
             /\ reload.mount = None /\ rest.removed = {} /\ rest.modified = {}
    <3>1. m \in rest.added /\ (\A k \in rest.added : m <= k) /\ ~Mounted(b, p)
      BY <2>1, <2>3 DEF IsFirst, p
    <3>2. \A k \in Places : PathAt(k) = p /\ k > m => k \in rest.added /\ k # m
      BY <1>1, <2>1, <3>1 DEF Upward, p
    <3>3. Upward(rest.added \ {m}, Places \ Old(b))
      <4>1. \A i \in rest.added, k \in Places \ Old(b) : k > i => k \in rest.added
        BY <2>1 DEF Upward
      <4>2. ASSUME NEW i \in rest.added, NEW k \in Places, k > i PROVE k # m
        <5>1. m <= i /\ i \in Nat /\ k \in Nat /\ m \in Nat
          BY <1>1, <3>1
        <5>2. QED
          BY <4>2, <5>1
      <4>3. QED
        BY <4>1, <4>2 DEF Upward
    <3>4. LastPlaces(b, r)
      BY <2>1, <2>3, <3>3 DEF LastPlaces
    <3>5. Mounted(tree, p) => \E k \in Places : k < m /\ PathAt(k) = p
      <4> SUFFICES ASSUME Mounted(tree, p) PROVE \E k \in Places : k < m /\ PathAt(k) = p
        OBVIOUS
      <4>1. PICK k \in Places \ rest.added : PathAt(k) = p
        BY <1>1, <1>2, <1>4, <3>1 DEF Reached
      <4>2. k # m /\ ~(k > m) /\ k \in Nat
        BY <1>1, <3>1, <3>2, <4>1
      <4>3. QED
        BY <1>1, <4>1, <4>2
    <3>6. QED
      BY <2>3, <3>2, <3>4, <3>5
  <2>4. QED
    BY <2>2, <2>3
<1>5. CASE err # None
  <2>1. ReloadEnd(err) /\ err \in Errors
    BY <1>3, <1>5 DEF Errors
  <2>2. ASSUME b # None PROVE Stopped(b, tree, err)
    <3>1. /\ conf.config[m].path = p /\ conf.config[m].entry = e /\ m \in DOMAIN conf.config
      BY <1>1 DEF Places
    <3>2. err = "EEXIST" => \E k \in DOMAIN conf.config : k < m /\ conf.config[k].path = p
      BY <1>3, <1>4, <2>2 DEF Places, PathAt
    <3>3. \A q \in Paths \ Listed : ~Mounted(tree, q)
      BY <1>2, <1>4, <2>2 DEF Reached
    <3>4. ASSUME NEW q \in Listed
          PROVE  \/ tree.mount[q] = b.mount[q]
                 \/ \E k \in DOMAIN conf.config : conf.config[k] = [path |-> q, entry |-> tree.mount[q]]
                 \/ q = p /\ ~Mounted(tree, q)
      <4>1. \/ tree.mount[q] = b.mount[q] \/ (reload.mount # None /\ q = PathAt(reload.mount))
            \/ \E k \in Places : conf.config[k] = [path |-> q, entry |-> tree.mount[q]]
        BY <1>2, <2>2, <3>4 DEF Reached
      <4>2. QED
        BY <1>4, <2>2, <4>1 DEF Places, p
    <3> HIDE DEF err
    <3>5. err = MountError(tree, conf.config[m].path, conf.config[m].entry)
      BY <3>1 DEF err
    <3>6. QED
      BY <3>1, <3>2, <3>3, <3>4, <3>5 DEF Stopped
  <2> HIDE DEF err
  <2>3. QED
    BY <1>5, <2>1, <2>2, ReloadEndKeeps
<1>6. CASE err = None
  <2>1. ReloadChange(p, u, r)
    BY <1>3, <1>6
  <2>2. ChangedAt(tree, u, p) /\ u.mount[p] = e
    BY <1>1, MountChanges
  <2> HIDE DEF u
  <2>3. tree' = u /\ reload' = r /\ conf' = conf
    BY <2>1 DEF ReloadChange
  <2>4. \A q \in Paths \ {p} : u.mount[q] = tree.mount[q]
    BY <2>2 DEF ChangedAt
  <2>5. ASSUME b # None PROVE Reached(u, b, r)
    <3>1. Reached(tree, b, reload)
      BY <1>2, <2>5
    <3>2. r.todo.removed = { q \in Paths \ Listed : Mounted(u, q) }
      BY <1>1, <2>4, <3>1 DEF Reached, Mounted
    <3>3. ASSUME NEW q \in Listed
          PROVE  /\ Mounted(b, q) => Mounted(u, q)
                 /\ Mounted(u, q) /\ ~Mounted(b, q) => \E k \in Places \ r.todo.added : PathAt(k) = q
                 /\ \/ u.mount[q] = b.mount[q]
                    \/ \E k \in Places : conf.config[k] = [path |-> q, entry |-> u.mount[q]]
      <4>1. CASE q = p
        <5>1. Mounted(u, q) /\ m \in Places \ r.todo.added /\ PathAt(m) = q
          BY <1>1, <1>4, <2>2, <2>5, <4>1 DEF Mounted, p
        <5>2. conf.config[m] = [path |-> q, entry |-> u.mount[q]]
          BY <1>1, <2>2, <4>1
        <5>3. QED
          BY <5>1, <5>2
      <4>2. CASE q # p
        <5>1. u.mount[q] = tree.mount[q] /\ ~(reload.mount # None /\ q = PathAt(reload.mount))
          BY <1>1, <1>4, <2>4, <2>5, <3>3, <4>2 DEF p
        <5>2. /\ Mounted(b, q) => Mounted(tree, q)
              /\ Mounted(tree, q) /\ ~Mounted(b, q) => \E k \in Places \ rest.added : PathAt(k) = q
              /\ \/ tree.mount[q] = b.mount[q]
                 \/ \E k \in Places : conf.config[k] = [path |-> q, entry |-> tree.mount[q]]
          BY <3>1, <3>3, <5>1 DEF Reached
        <5>3. r.todo.added \subseteq rest.added
          BY <1>4, <2>5
        <5>4. QED
          BY <5>1, <5>2, <5>3 DEF Mounted
      <4>3. QED
        BY <4>1, <4>2
    <3>4. ASSUME NEW i \in Places, i \notin r.todo.modified \cup r.todo.added, i # r.mount,
                 \A k \in Places : k > i /\ PathAt(k) = PathAt(i) => k \in r.todo.modified \cup r.todo.added
          PROVE  u.mount[PathAt(i)] = EntryAt(i)
      <4>1. CASE PathAt(i) = p
        <5>1. ~(i < m)
          BY <1>4, <2>5, <3>4, <4>1 DEF p
        <5>2. ~(i > m)
          BY <1>4, <2>5, <3>4, <4>1
        <5>3. i \in Nat
          BY <1>1
        <5>4. i = m
          BY <1>1, <5>1, <5>2, <5>3
        <5>5. QED
          BY <2>2, <4>1, <5>4 DEF e
      <4>2. CASE PathAt(i) # p
        <5>1. i # m
          BY <4>2 DEF p
        <5>2. i \notin rest.modified \cup rest.added /\ i # reload.mount
          BY <1>1, <1>4, <2>5, <3>4, <5>1
        <5>3. \A k \in Places : k > i /\ PathAt(k) = PathAt(i) => k \in rest.modified \cup rest.added
          BY <1>4, <2>5, <3>4
        <5>4. tree.mount[PathAt(i)] = EntryAt(i)
          BY <3>1, <5>2, <5>3 DEF Reached
        <5>5. QED
          BY <1>1, <1>2, <2>4, <2>5, <4>2, <5>4
      <4>3. QED
        BY <4>1, <4>2
    <3>5. QED
      BY <3>2, <3>3, <3>4 DEF Reached
  <2>6. ReloadTyped' /\ ReloadInv'
    <3>1. Parses /\ r.todo.modified \cup r.todo.added \subseteq Places
      BY <1>1, ReloadFacts
    <3>2. QED
      BY <1>4, <2>3, <2>5, <3>1, ReloadNext
  <2>7. EndsRight
    BY <2>3 DEF EndsRight
  <2>8. QED
    BY <1>1, <2>1, <2>2, <2>6, <2>7, DavReloads
<1>7. QED
  BY <1>5, <1>6

\* A step of a reload; one that nobody interferes with ends as it should.
LEMMA ReloadStepKeeps ==
  ASSUME DavInv, ReloadStep
  PROVE  DavInv' /\ EndsRight
<1> DEFINE rest == reload.todo
           b == reload.before
<1>1. /\ reload.pc = "run" /\ reload \in ReloadStates /\ None \notin Nat
      /\ rest.modified \cup rest.added \subseteq Places /\ Places \subseteq Nat
      /\ (reload.mount # None => reload.mount \in Places)
  BY ReloadFacts DEF ReloadStep
<1>2. ASSUME NEW p \in rest.removed, ReloadUnmount(p, [reload EXCEPT !.todo.removed = @ \ {p}])
      PROVE  DavInv' /\ EndsRight
  BY <1>1, <1>2, ReloadRemoves
<1>3. ASSUME rest.removed = {}, reload.mount = None, NEW m, IsFirst(m, rest.modified), ReloadModified(m)
      PROVE  DavInv' /\ EndsRight
  BY <1>1, <1>3, ReloadModifies
<1>4. ASSUME reload.mount # None, ReloadMount(reload.mount, [reload EXCEPT !.mount = None])
      PROVE  DavInv' /\ EndsRight
  <2> DEFINE r == [reload EXCEPT !.mount = None]
  <2>1. /\ r \in ReloadStates /\ r.pc = "run" /\ r.before = b /\ r.mount = None /\ r.todo.removed = rest.removed
        /\ r.todo.modified = rest.modified /\ r.todo.added = rest.added
    BY <1>1 DEF ReloadStates
  <2>2. ReloadMount(reload.mount, r) /\ reload.mount \in Places
    BY <1>1, <1>4
  <2> HIDE DEF r
  <2>3. QED
    BY <1>1, <2>1, <2>2, ReloadMounts
<1>5. ASSUME rest.removed = {}, rest.modified = {}, reload.mount = None, NEW m, IsFirst(m, rest.added),
             ReloadMount(m, [reload EXCEPT !.todo.added = @ \ {m}])
      PROVE  DavInv' /\ EndsRight
  <2> DEFINE r == [reload EXCEPT !.todo.added = @ \ {m}]
  <2>1. /\ r \in ReloadStates /\ r.pc = "run" /\ r.before = b /\ r.mount = None /\ r.todo.removed = rest.removed
        /\ r.todo.modified = rest.modified /\ r.todo.added = rest.added \ {m}
    BY <1>1, <1>5 DEF ReloadStates
  <2>2. ReloadMount(m, r) /\ m \in Places
    BY <1>1, <1>5 DEF IsFirst
  <2> HIDE DEF r
  <2>3. QED
    BY <1>1, <1>5, <2>1, <2>2, ReloadMounts
<1>6. ASSUME rest.removed = {}, rest.modified \cup rest.added = {}, reload.mount = None, ReloadEnd(None)
      PROVE  DavInv' /\ EndsRight
  <2>1. ASSUME b # None PROVE Applied(tree)
    <3>1. Reached(tree, b, reload) /\ \A i \in Places : PathAt(i) \in Listed /\ i # None
      BY <1>1, <2>1, ReloadFacts
    <3>2. \A q \in Paths \ Listed : ~Mounted(tree, q)
      BY <1>6, <3>1 DEF Reached
    <3>3. ASSUME NEW i \in Places, \A k \in Places : k > i => PathAt(k) # PathAt(i)
          PROVE  tree.mount[PathAt(i)] = EntryAt(i)
      <4>1. /\ i \notin rest.modified \cup rest.added /\ i # reload.mount
            /\ \A k \in Places : k > i /\ PathAt(k) = PathAt(i) => k \in rest.modified \cup rest.added
        BY <1>6, <3>1, <3>3
      <4>2. QED
        BY <3>1, <4>1 DEF Reached
    <3>4. QED
      BY <3>2, <3>3 DEF Applied, LastOfItsPath, Places, PathAt, EntryAt
  <2>2. QED
    BY <1>6, <2>1, ReloadEndKeeps
<1>7. QED
  BY <1>2, <1>3, <1>4, <1>5, <1>6 DEF ReloadStep

-----------------------------------------------------------------------------
\* The invariant holds at the start, and every step keeps it.
LEMMA InitDavInv == Init => DavInv
<1> SUFFICES ASSUME Init PROVE DavInv
  OBVIOUS
<1>1. /\ conf \in Scenarios /\ tree = conf.tree /\ cache = [p \in Paths |-> None] /\ forgiven = {}
      /\ job = [c \in Clients |-> Idle] /\ started = 0 /\ sem = 0 /\ bucket = None /\ now = 0 /\ admitted = 0
      /\ dropped = 0 /\ reload = NoReload
  BY DEF Init
<1>2. tree \in Trees /\ WellFormed(tree) /\ conf.rate \in Nat /\ conf.maxConns \in Nat
  BY <1>1, ConfFacts
<1>3. Idle \in DavJobs /\ Sound(tree, Idle) /\ Idle.pc = "idle"
  BY <1>2, IdleSound DEF Idle
<1>4. job \in [Clients -> DavJobs] /\ (\A c \in Clients : Sound(tree, job[c])) /\ \A c \in Clients : job[c].pc = "idle"
  BY <1>1, <1>3
<1>5. StaleHasReason
  BY <1>1 DEF StaleHasReason
<1>6. LimitsInv
  <2>1. Busy = {}
    BY <1>4 DEF Busy
  <2>2. Gain \in Nat /\ conf.ttl + 1 \in Nat
    BY <1>1, CapFacts, ConfFacts
  <2>3. conf.rate * now = 0 /\ dropped * Gain = 0 /\ dropped * (conf.ttl + 1) = 0
    BY <1>1, <1>2, <2>2
  <2>4. QED
    BY <1>1, <1>2, <2>1, <2>3, FS_EmptySet DEF LimitsInv
<1>7. ReloadTyped /\ ReloadInv
  BY <1>1 DEF ReloadTyped, ReloadStates, ReloadInv, NoReload
<1>8. QED
  BY <1>1, <1>2, <1>4, <1>5, <1>6, <1>7 DEF DavInv

LEMMA DavServeKeeps ==
  ASSUME DavInv, NEW c \in Clients, Serve(c) PROVE DavInv'
  BY AcquireKeeps, DavEndKeeps, GetReadKeeps, GetTypeKeeps, HeadStatKeeps, HeadTagKeeps, MatchKeeps, WriteKeeps,
     WriteBlobKeeps, MkcolKeeps, DeleteKeeps, NoneMatchKeeps, OverwriteKeeps, ClearKeeps, ClearDstKeeps,
     SourceKeeps, SourceDataKeeps, TargetKeeps, UnmountSrcKeeps, InvalidateSrcKeeps, InvalidateDstKeeps,
     FindKeeps, FindStatKeeps, FindReadKeeps, FindSetKeeps, ListKeeps, SearchKeeps, SearchReadKeeps DEF Serve

LEMMA NextDavInv == DavInv /\ [Next]_vars => DavInv'
<1> SUFFICES ASSUME DavInv, [Next]_vars PROVE DavInv'
  OBVIOUS
<1>1. ASSUME NEW c \in Clients, Serve(c) PROVE DavInv'
  BY <1>1, DavServeKeeps
<1>2. ASSUME NEW c \in Clients, NEW r \in conf.requests, Begin(c, r) PROVE DavInv'
  BY <1>2, DavBeginKeeps
<1>3. CASE Cleanup
  BY <1>3, CleanupKeeps
<1>4. CASE Tick
  BY <1>4, TickKeeps
<1>5. ASSUME NEW p \in Paths, Expire(p) PROVE DavInv'
  BY <1>5, ExpireKeeps
<1>6. CASE ReloadBegin
  BY <1>6, ReloadBeginKeeps
<1>7. CASE ReloadStep
  BY <1>7, ReloadStepKeeps
<1>8. CASE UNCHANGED vars
  <2>1. UNCHANGED <<tree, cache, job, started, limits, forgiven, conf>> /\ reload' = reload
    BY <1>8 DEF vars, limits
  <2>2. ReloadTyped' /\ ReloadInv'
    BY <2>1, ReloadKept
  <2>3. QED
    BY <2>1, <2>2, ReloadOnly
<1>9. QED
  BY <1>1, <1>2, <1>3, <1>4, <1>5, <1>6, <1>7, <1>8 DEF Next

\* The invariant of the WebDAV server.
LEMMA DavInvHolds == Spec => []DavInv
  BY InitDavInv, NextDavInv, PTL DEF Spec

\* The slots of the connection limiter are those of the requests in the handlers, whatever
\* way they end, and the rate limiter lets through no more than the first bucket and the
\* rate make and each drop of an idle bucket gains (middleware.go, rate_limit.go: Allow,
\* cleanup, Acquire), for every number of goroutines and slots and every rate, burst, 0
\* among them, and TTL.
THEOREM DavAdmissionBounded == Spec => []AdmissionBounded
<1>1. DavInv => AdmissionBounded
  <2> SUFFICES ASSUME DavInv PROVE AdmissionBounded
    OBVIOUS
  <2>1. conf \in Scenarios /\ LimitsInv /\ tree \in Trees /\ forgiven \subseteq Paths
    BY DEF DavInv
  <2>2. conf.rate \in Nat /\ conf.burst \in Nat /\ conf.maxConns \in Nat
    BY <2>1, ConfFacts
  <2>3. sem \in 0 .. conf.maxConns
    BY <2>1, <2>2 DEF LimitsInv
  <2>4. conf.maxConns > 0 =>
          sem = Cardinality({ c \in Clients : job[c].pc \notin {"idle", "acquire"} /\ job[c].code # "429" })
    BY <2>1 DEF LimitsInv, Busy
  <2>5. conf.rate > 0 => admitted <= Cap + conf.rate * now + dropped * Gain /\ dropped * (conf.ttl + 1) <= now
    BY <2>1, AdmittedBounded
  <2>6. \A p \in Paths : cache[p] # None => cache[p].stat.value \in Entry /\ cache[p].etag \in Data \cup {Empty}
    <3>1. \A p \in Paths : cache[p] # None => cache[p] \in CacheEntries
      BY DEF DavInv
    <3>2. QED
      BY <3>1 DEF CacheEntries
  <2>7. ASSUME NEW c \in Clients
        PROVE  LET j == job[c] IN
               /\ j.pc \in Steps /\ j.at \in Paths /\ j.stat \in Entry /\ j.body \in Data \cup {Empty}
               /\ j.before \in Trees \cup {None} /\ j.owes \cup j.found \subseteq Paths
    <3>1. job[c] \in DavJobs
      BY DEF DavInv
    <3>2. QED
      BY <3>1 DEF DavJobs
  <2>8. TypeOK
    BY <2>1, <2>3, <2>6, <2>7 DEF TypeOK
  <2>9. QED
    BY <2>4, <2>5, <2>8 DEF AdmissionBounded
<1>2. QED
  BY <1>1, DavInvHolds, PTL

\* An entry of the property cache is old only while somebody is about to invalidate it, or
\* for one of the reasons the code has (webdav.go, propCache; cache_test.go tests one
\* client at a time), for every tree, every number of requests and every order of their
\* steps.
THEOREM DavStaleHasReason == Spec => []StaleHasReason
<1>1. DavInv => StaleHasReason
  BY DEF DavInv
<1>2. QED
  BY <1>1, DavInvHolds, PTL

\* A request that nobody interfered with does what it says, or fails and has changed
\* nothing, but for a COPY or MOVE that had already removed its destination: every
\* handler of webdav.go, whatever is mounted, to every depth of a PROPFIND.
THEOREM DavAloneExact == Spec => []AloneExact
<1>1. DavInv => AloneExact
  <2> SUFFICES ASSUME DavInv, NEW c \in Clients, job[c].pc = "reply", job[c].before # None
               PROVE  IF job[c].code = "ok" THEN Done(tree, job[c]) ELSE Failed(tree, job[c])
    BY DEF AloneExact
  <2>1. Alone(tree, job[c])
    BY JobOf
  <2>2. QED
    BY <2>1 DEF Alone
<1>2. QED
  BY <1>1, DavInvHolds, PTL

\* A PUT writes to a blob that holds what its If-Match was compared with, unless the path
\* was changed between the two looks of the handler (webdav.go, handlePut; filesystem.go,
\* writeBlob, which does not look at the kind again).
THEOREM DavWritesWhatItSaw == Spec => WritesWhatItSaw
<1> DEFINE W == \A c \in Clients : LET j == job[c] IN
                  job'[c].pc = "invalidate" /\ j.pc = "writeBlob" /\ ~j.dirty =>
                    tree.mount[j.at].kind = "blob" /\ j.req.ifMatch \in {None, "*", tree.mount[j.at].data}
<1>1. DavInv => W
  <2> SUFFICES ASSUME DavInv, NEW c \in Clients, job[c].pc = "writeBlob", ~job[c].dirty
               PROVE  /\ tree.mount[job[c].at].kind = "blob"
                      /\ job[c].req.ifMatch \in {None, "*", tree.mount[job[c].at].data}
    OBVIOUS
  <2> DEFINE s == Stat(tree, job[c].at)
  <2>1. Saw(tree, job[c]) /\ tree \in Trees /\ job[c].at \in Paths
    BY JobOf
  <2>2. /\ s.value.kind = "blob" /\ (job[c].req.ifMatch = None \/ Matches(tree, job[c]))
    BY <2>1 DEF Saw
  <2>3. s.value = tree.mount[job[c].at]
    BY <2>1, <2>2, StatFacts DEF IntermediateDir
  <2>4. QED
    BY <2>2, <2>3 DEF Matches
<1>2. DavInv /\ [Next]_vars => [W]_vars
  BY <1>1
<1>3. QED
  BY <1>2, DavInvHolds, PTL DEF Spec, WritesWhatItSaw

\* A reload that nobody interfered with ends with exactly the mounts of the configuration,
\* of a path listed twice the last, or stops where Mount refuses an entry (config.go,
\* Reload; filesystem.go, Mount: EINVAL, ENOSPC and EEXIST) and has then lost no other
\* mount that the configuration lists: whatever was mounted before and whatever the
\* configuration holds.
THEOREM DavReloadExact == Spec => ReloadExact
<1> DEFINE R == reload.pc = "run" /\ reload'.pc = "done" /\ reload.before # None =>
                  IF reload'.err = None THEN Applied(tree') ELSE Stopped(reload.before, tree', reload'.err)
<1>1. DavInv /\ [Next]_vars => [R]_vars
  <2> SUFFICES ASSUME DavInv, Next, reload.pc = "run", reload'.pc = "done", reload.before # None
               PROVE  IF reload'.err = None THEN Applied(tree') ELSE Stopped(reload.before, tree', reload'.err)
    BY DEF vars
  <2>1. reload.pc # reload'.pc /\ reload \in ReloadStates
    BY DEF DavInv, ReloadTyped
  <2>2. ASSUME NEW c \in Clients, NEW u, NEW p, NEW k, Change(c, u, p, k) PROVE reload'.pc = reload.pc
    BY <2>1, <2>2 DEF Change, ReloadStates
  <2>3. ASSUME NEW c \in Clients, NEW k, Look(c, k) \/ Step(c, k) PROVE reload' = reload
    BY <2>3 DEF Look, Step
  <2>4. ASSUME NEW c \in Clients, Serve(c) PROVE FALSE
    <3>1. CASE Acquire(c) \/ End(c)
      BY <2>1, <3>1 DEF Acquire, End
    <3>2. CASE GetRead(c) \/ GetType(c) \/ HeadStat(c) \/ HeadTag(c) \/ Match(c) \/ Write(c)
      BY <2>1, <2>3, <3>2 DEF GetRead, GetType, HeadStat, HeadTag, Match, Write
    <3>3. CASE WriteBlob(c)
      BY <2>1, <2>2, <2>3, <3>3 DEF WriteBlob
    <3>4. CASE Mkcol(c) \/ Delete(c) \/ Target(c) \/ UnmountSrc(c)
      BY <2>1, <2>2, <2>3, <3>4 DEF Mkcol, Delete, Target, UnmountSrc, MountAt, UnmountAt
    <3>5. CASE NoneMatch(c) \/ Overwrite(c) \/ Clear(c) \/ Source(c) \/ SourceData(c)
      BY <2>1, <2>3, <3>5 DEF NoneMatch, Overwrite, Clear, Source, SourceData
    <3>6. CASE ClearDst(c)
      BY <2>1, <2>2, <2>3, <3>6 DEF ClearDst
    <3>7. CASE InvalidateSrc(c) \/ InvalidateDst(c)
      BY <2>1, <2>3, <3>7 DEF InvalidateSrc, InvalidateDst, Invalidate
    <3>8. CASE Find(c) \/ FindStat(c) \/ FindRead(c) \/ FindSet(c) \/ List(c)
      BY <2>1, <2>3, <3>8 DEF Find, FindStat, FindRead, FindSet, List
    <3>9. CASE Search(c) \/ SearchRead(c)
      BY <2>1, <2>3, <3>9 DEF Search, SearchRead
    <3>10. QED
      BY <2>4, <3>1, <3>2, <3>3, <3>4, <3>5, <3>6, <3>7, <3>8, <3>9 DEF Serve
  <2>5. ASSUME NEW c \in Clients, NEW r \in conf.requests, Begin(c, r) PROVE FALSE
    BY <2>1, <2>5 DEF Begin
  <2>6. ~Cleanup /\ ~Tick /\ \A p \in Paths : ~Expire(p)
    BY <2>1 DEF Cleanup, Tick, Expire
  <2>7. ~ReloadBegin
    BY DEF ReloadBegin
  <2>8. ReloadStep
    BY <2>4, <2>5, <2>6, <2>7 DEF Next
  <2>9. QED
    BY <2>8, ReloadStepKeeps DEF EndsRight
<1>2. QED
  BY <1>1, DavInvHolds, PTL DEF Spec, ReloadExact
==============================================================================
