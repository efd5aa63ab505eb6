----------------------------- MODULE HubProofs ------------------------------
(***************************************************************************)
(* Theorems about Hub: types, that a page never goes back, that kicks are  *)
(* honoured, and that the trace of samples has one seam.  The first three  *)
(* follow from HubInv, which says how old the values at each station are:  *)
(* those under way to a page are in order, no newer than what is stored    *)
(* and no older than what the page has shown; what a poll has read is at   *)
(* least as new as all of them.  The last follows from SeamInv, which says *)
(* of a page and its queue where the samples join: what is drawn has no    *)
(* hole once its hello is behind it, and what is queued goes on from it.   *)
(***************************************************************************)
EXTENDS Hub, SequenceTheorems, FiniteSetTheorems, TLAPS

\* The message tells the page the state of the units.
Carries(m) == m.type \in {"hello", "units"}

\* The empty list of a hub that restarted may stand for any newer state.
Fresh(u, p) == u >= newest[p] \/ (u = 0 /\ count.restarts > 0)

Inside(p) ==
  \A i \in 1..Len(queue[p]) : Carries(queue[p][i]) =>
    /\ queue[p][i].units <= units
    /\ Fresh(queue[p][i].units, p)

InOrder(p) ==
  \A i, j \in 1..Len(queue[p]) :
    i < j /\ Carries(queue[p][i]) /\ Carries(queue[p][j])
      => queue[p][i].units <= queue[p][j].units

\* What the goroutine holds, what is stored and what pages have shown.
Ages ==
  /\ units <= world /\ asked <= world
  /\ hub.pc = "listed" => units <= hub.read /\ hub.read <= world
  /\ hub.pc = "stored" => units = hub.read
  /\ \A p \in Pages :
       /\ newest[p] <= world
       /\ Fresh(units, p)
       /\ hub.pc = "listed" => newest[p] <= hub.read

Queues == \A p \in Pages : Inside(p) /\ InOrder(p)

HubInv == TypeOK /\ Ages /\ Queues /\ NeverBack /\ KickHonoured

-----------------------------------------------------------------------------
(* Sequences and messages.                                                 *)

LEMMA NewestType ==
  ASSUME NEW S, NEW s \in Seq(S), NEW n \in Nat
  PROVE  Newest(s, n) \in Seq(S) /\ Len(Newest(s, n)) <= n
<1>. DEFINE a == IF Len(s) > n THEN Len(s) - n + 1 ELSE 1
<1>1. a \in Int /\ Len(s) \in Int
  OBVIOUS
<1>2. \A i \in a..Len(s) : s[i] \in S
  OBVIOUS
<1>3. /\ SubSeq(s, a, Len(s)) \in Seq(S)
      /\ Len(SubSeq(s, a, Len(s))) = IF a <= Len(s) THEN Len(s) - a + 1 ELSE 0
  BY <1>1, <1>2, SubSeqProperties
<1>. QED  BY <1>3 DEF Newest

LEMMA MessageKinds ==
  ASSUME NEW m \in Messages
  PROVE  /\ m.type \in {"hello", "units", "host", "other"}
         /\ Carries(m) => m.units \in 0..MaxChanges
         /\ m.type = "hello" => m.history \in Traces
         /\ m.type = "host" => m.sample \in 1..MaxSamples
  BY DEF Messages, Crowd, Carries

LEMMA MessagesAre ==
  /\ \A h \in Traces, u \in 0..MaxChanges : Hello(h, u) \in Messages
  /\ \A u \in 0..MaxChanges : Units(u) \in Messages
  /\ \A n \in 1..MaxSamples : Host(n) \in Messages
  /\ Crowd \in Messages
  BY DEF Messages, Hello, Units, Host, Crowd

-----------------------------------------------------------------------------
(* Types.                                                                  *)

LEMMA CountType ==
  ASSUME TypeOK
  PROVE  /\ count.samples < MaxSamples =>
              [count EXCEPT !.samples = @ + 1] \in
                [samples : 0..MaxSamples, refreshes : 0..MaxRefreshes, restarts : 0..MaxRestarts]
         /\ count.refreshes < MaxRefreshes =>
              [count EXCEPT !.refreshes = @ + 1] \in
                [samples : 0..MaxSamples, refreshes : 0..MaxRefreshes, restarts : 0..MaxRestarts]
         /\ count.restarts < MaxRestarts =>
              [count EXCEPT !.restarts = @ + 1] \in
                [samples : 0..MaxSamples, refreshes : 0..MaxRefreshes, restarts : 0..MaxRestarts]
<1>1. count \in [samples : 0..MaxSamples, refreshes : 0..MaxRefreshes, restarts : 0..MaxRestarts]
  BY DEF TypeOK
<1>. QED  BY <1>1, HubAssumption

LEMMA BroadcastType ==
  ASSUME TypeOK, NEW m \in Messages, Broadcast(m)
  PROVE  /\ conn' \in [Pages -> ConnStates]
         /\ queue' \in [Pages -> Seq(Messages)]
         /\ \A p \in Pages : Len(queue'[p]) <= QueueCap
  BY HubAssumption DEF TypeOK, Broadcast, HasRoom, ConnStates

LEMMA TypeInit == Init => TypeOK
  BY HubAssumption DEF Init, AtStart, TypeOK, Traces, ConnStates

LEMMA TypeNext == TypeOK /\ [Next]_vars => TypeOK'
<1>. SUFFICES ASSUME TypeOK, [Next]_vars PROVE TypeOK'
  OBVIOUS
<1>. USE HubAssumption
<1>1. CASE TickUnits
  BY <1>1 DEF TickUnits, StartPoll, kicks, page, TypeOK
<1>2. CASE TakeRefresh
  BY <1>2 DEF TakeRefresh, StartPoll, page, TypeOK
<1>3. CASE ListAll
  BY <1>3 DEF ListAll, kicks, page, TypeOK
<1>4. CASE StoreUnits
  BY <1>4, SMTT(30) DEF StoreUnits, kicks, page, TypeOK
<1>5. CASE SendUnits
  <2>1. hub.read \in 1..MaxChanges
    BY <1>5 DEF SendUnits, TypeOK
  <2>2. Units(hub.read) \in Messages
    BY <2>1, MessagesAre
  <2>. QED  BY <1>5, <2>2, BroadcastType DEF SendUnits, kicks, page, TypeOK
<1>6. CASE PollHost
  <2>1. count'.samples \in 1..MaxSamples
    BY <1>6 DEF PollHost, TypeOK
  <2>2. Append(history, count'.samples) \in Seq(1..MaxSamples)
    BY <2>1 DEF TypeOK, Traces
  <2>3. history' \in Traces
    BY <1>6, <2>2, NewestType DEF PollHost, Traces
  <2>4. count' \in [samples : 0..MaxSamples, refreshes : 0..MaxRefreshes,
                    restarts : 0..MaxRestarts]
    BY <1>6, CountType DEF PollHost
  <2>5. hub' \in [pc : {"sampled"}, read : 1..MaxSamples]
    BY <1>6, <2>1 DEF PollHost
  <2>. QED  BY <1>6, <2>3, <2>4, <2>5 DEF PollHost, kicks, page, TypeOK
<1>7. CASE SendHost
  <2>1. hub.read \in 1..MaxSamples
    BY <1>7 DEF SendHost, TypeOK
  <2>2. Host(hub.read) \in Messages
    BY <2>1, MessagesAre
  <2>. QED  BY <1>7, <2>2, BroadcastType DEF SendHost, kicks, page, TypeOK
<1>8. CASE RefreshUnits
  <2>1. count' \in [samples : 0..MaxSamples, refreshes : 0..MaxRefreshes,
                    restarts : 0..MaxRestarts]
    BY <1>8, CountType DEF RefreshUnits
  <2>2. /\ refresh' = 1 /\ asked' = world /\ later' = later + 2
        /\ UNCHANGED <<world, hub, units, history, conn, queue, shown, trace, newest>>
    BY <1>8 DEF RefreshUnits, Kick, poller, page
  <2>. QED  BY <2>1, <2>2 DEF TypeOK
<1>9. CASE KickLater
  BY <1>9 DEF KickLater, Kick, poller, page, TypeOK
<1>10. ASSUME NEW p \in Pages, Greet(p) PROVE TypeOK'
  <2>1. Hello(history, units) \in Messages
    BY MessagesAre DEF TypeOK
  <2>. QED  BY <1>10, <2>1 DEF Greet, poller, kicks, page, TypeOK, ConnStates
<1>11. ASSUME NEW p \in Pages, Join(p) PROVE TypeOK'
  BY <1>11 DEF Join, poller, kicks, page, TypeOK, ConnStates
<1>12. ASSUME NEW p \in Pages, Deliver(p) PROVE TypeOK'
  <2>. DEFINE msg == Head(queue[p])
  <2>1. msg \in Messages /\ Tail(queue[p]) \in Seq(Messages)
    BY <1>12 DEF Deliver, TypeOK
  <2>2. queue' \in [Pages -> Seq(Messages)] /\ \A q \in Pages : Len(queue'[q]) <= QueueCap
    BY <1>12, <2>1, SMTT(30) DEF Deliver, TypeOK
  <2>3. msg.type = "host" =>
          Append(Newest(trace[p], HistoryLen - 1), msg.sample) \in Traces
    <3>. SUFFICES ASSUME msg.type = "host"
                  PROVE  Append(Newest(trace[p], HistoryLen - 1), msg.sample) \in Traces
      OBVIOUS
    <3>1. msg.sample \in 1..MaxSamples
      BY <2>1, MessageKinds
    <3>2. HistoryLen - 1 \in Nat /\ trace[p] \in Seq(1..MaxSamples)
      BY DEF TypeOK, Traces
    <3>3. /\ Newest(trace[p], HistoryLen - 1) \in Seq(1..MaxSamples)
          /\ Len(Newest(trace[p], HistoryLen - 1)) <= HistoryLen - 1
      BY <3>2, NewestType
    <3>. QED  BY <3>1, <3>3, HubAssumption DEF Traces
  <2>4. /\ {shown', newest'} \subseteq [Pages -> 0..MaxChanges]
        /\ trace' \in [Pages -> Traces]
    <3>. USE <2>1, MessageKinds DEF TypeOK
    <3>1. CASE msg.type = "hello"
      <4>1. msg.units \in 0..MaxChanges /\ msg.history \in Traces
        BY <3>1 DEF Carries
      <4>2. /\ shown' = [shown EXCEPT ![p] = msg.units]
            /\ newest' = [newest EXCEPT ![p] = IF msg.units > @ THEN msg.units ELSE @]
            /\ trace' = [trace EXCEPT ![p] = msg.history]
        BY <3>1, <1>12 DEF Deliver
      <4>. QED  BY <4>1, <4>2
    <3>2. CASE msg.type = "units"
      <4>1. msg.units \in 0..MaxChanges
        BY <3>2 DEF Carries
      <4>2. /\ shown' = [shown EXCEPT ![p] = msg.units]
            /\ newest' = [newest EXCEPT ![p] = IF msg.units > @ THEN msg.units ELSE @]
            /\ UNCHANGED trace
        BY <3>2, <1>12 DEF Deliver
      <4>. QED  BY <4>1, <4>2
    <3>3. CASE msg.type = "host"
      BY <3>3, <1>12, <2>3, ZenonT(60) DEF Deliver, page
    <3>4. CASE msg.type = "other"
      BY <3>4, <1>12 DEF Deliver, page
    <3>. QED  BY <3>1, <3>2, <3>3, <3>4
  <2>. QED  BY <1>12, <2>2, <2>4 DEF Deliver, poller, kicks, TypeOK
<1>13. ASSUME NEW p \in Pages, Chatter(p) PROVE TypeOK'
  BY <1>13, MessagesAre DEF Chatter, HasRoom, poller, kicks, page, TypeOK
<1>14. ASSUME NEW p \in Pages, Lose(p) PROVE TypeOK'
  BY <1>14 DEF Lose, poller, kicks, page, TypeOK, ConnStates
<1>15. ASSUME NEW p \in Pages, Remove(p) PROVE TypeOK'
  BY <1>15 DEF Remove, poller, kicks, page, TypeOK, ConnStates
<1>16. CASE Change
  BY <1>16 DEF Change, poller, kicks, page, TypeOK
<1>17. CASE Restart
  <2>1. count' \in [samples : 0..MaxSamples, refreshes : 0..MaxRefreshes,
                    restarts : 0..MaxRestarts]
    BY <1>17, CountType DEF Restart
  <2>2. history' \in Traces /\ conn' \in [Pages -> ConnStates]
    BY <1>17 DEF Restart, Traces, ConnStates
  <2>. QED  BY <1>17, <2>1, <2>2, SMTT(30) DEF Restart, StartPoll, page, TypeOK
<1>18. CASE UNCHANGED vars
  BY <1>18 DEF vars, TypeOK
<1>. QED
  BY <1>1, <1>2, <1>3, <1>4, <1>5, <1>6, <1>7, <1>8, <1>9, <1>10, <1>11, <1>12,
     <1>13, <1>14, <1>15, <1>16, <1>17, <1>18 DEF Next, Poll, Sample

-----------------------------------------------------------------------------
(* Ages and order.  A broadcast of units comes from a poll that was stored *)
(* last, so its value closes every queue in order; a host sample carries   *)
(* no units.                                                               *)

LEMMA OrderInit == Init => Ages /\ Queues /\ NeverBack /\ KickHonoured
<1>. SUFFICES ASSUME Init PROVE Ages /\ Queues /\ NeverBack /\ KickHonoured
  OBVIOUS
<1>1. /\ world = 1 /\ units = 0 /\ asked = 0 /\ hub.pc = "listing"
      /\ \A p \in Pages : shown[p] = 0 /\ newest[p] = 0 /\ queue[p] = <<>>
  BY DEF Init, AtStart
<1>2. Ages
  <2>1. units <= world /\ asked <= world
    BY <1>1
  <2>2. \A p \in Pages : newest[p] <= world /\ units >= newest[p]
    BY <1>1
  <2>3. hub.pc # "listed" /\ hub.pc # "stored"
    BY <1>1
  <2>4. \A p \in Pages : Fresh(units, p)
    BY <2>2 DEF Fresh
  <2>. QED  BY <2>1, <2>2, <2>3, <2>4 DEF Ages
<1>4. NeverBack /\ KickHonoured
  BY <1>1 DEF NeverBack, KickHonoured
<1>3. Queues
  BY <1>1 DEF Queues, Inside, InOrder
<1>. QED  BY <1>2, <1>3, <1>4

\* What a message at the end of a queue has to be for the queue to stay in order.
Fits(m, p) == Carries(m) => m.units = units /\ Fresh(units, p)

LEMMA AppendKeepsOrder ==
  ASSUME TypeOK, NEW p \in Pages, NEW m \in Messages, Fits(m, p),
         Inside(p), InOrder(p), queue'[p] = Append(queue[p], m),
         units' = units, newest' = newest, count' = count
  PROVE  Inside(p)' /\ InOrder(p)'
<1>1. queue[p] \in Seq(Messages) /\ units \in Nat
  BY DEF TypeOK
<1>2. /\ Len(queue'[p]) = Len(queue[p]) + 1
      /\ queue'[p][Len(queue[p]) + 1] = m
      /\ \A i \in 1..Len(queue[p]) : queue'[p][i] = queue[p][i]
  BY <1>1
<1>3. \A i \in 1..Len(queue'[p]) : i \in 1..Len(queue[p]) \/ i = Len(queue[p]) + 1
  BY <1>1, <1>2
<1>4. Inside(p)'
  BY <1>1, <1>2, <1>3 DEF Inside, Fresh, Fits
<1>5. InOrder(p)'
  <2>. SUFFICES ASSUME NEW i \in 1..Len(queue'[p]), NEW j \in 1..Len(queue'[p]), i < j,
                       Carries(queue'[p][i]), Carries(queue'[p][j])
                PROVE  queue'[p][i].units <= queue'[p][j].units
    BY DEF InOrder, Carries
  <2>1. i \in 1..Len(queue[p]) /\ queue'[p][i] = queue[p][i]
    BY <1>1, <1>2, <1>3
  <2>2. CASE j \in 1..Len(queue[p])
    BY <1>2, <2>1, <2>2 DEF InOrder
  <2>3. CASE j = Len(queue[p]) + 1
    BY <1>2, <2>1, <2>3 DEF Inside, Fits
  <2>. QED  BY <1>3, <2>2, <2>3
<1>. QED  BY <1>4, <1>5

LEMMA EmptyIsInOrder ==
  ASSUME NEW p \in Pages, queue'[p] = <<>>
  PROVE  Inside(p)' /\ InOrder(p)'
  BY DEF Inside, InOrder

LEMMA BroadcastKeepsOrder ==
  ASSUME TypeOK, Queues, NEW m \in Messages, Broadcast(m),
         \A p \in Pages : Fits(m, p),
         units' = units, newest' = newest, count' = count
  PROVE  Queues'
<1>. SUFFICES ASSUME NEW p \in Pages PROVE Inside(p)' /\ InOrder(p)'
  BY DEF Queues, Inside, InOrder, Fresh
<1>. Inside(p) /\ InOrder(p)
  BY DEF Queues
<1>1. CASE queue'[p] = Append(queue[p], m)
  BY <1>1, AppendKeepsOrder
<1>2. CASE queue'[p] = <<>>
  BY <1>2, EmptyIsInOrder
<1>3. CASE queue'[p] = queue[p]
  BY <1>3 DEF Inside, InOrder, Fresh
<1>. QED  BY <1>1, <1>2, <1>3 DEF Broadcast

LEMMA OrderIsKept ==
  ASSUME Queues, UNCHANGED <<newest, queue>>, count'.restarts = count.restarts,
         units \in Nat, units' \in Nat, units <= units', TypeOK
  PROVE  Queues'
<1>. SUFFICES ASSUME NEW p \in Pages PROVE Inside(p)' /\ InOrder(p)'
  BY DEF Queues, Inside, InOrder, Fresh
<1>1. Inside(p) /\ InOrder(p) /\ queue[p] \in Seq(Messages)
  BY DEF Queues, TypeOK
<1>2. \A i \in 1..Len(queue[p]) : Carries(queue[p][i]) => queue[p][i].units \in Nat
  BY <1>1, MessageKinds
<1>. QED  BY <1>1, <1>2 DEF Inside, InOrder, Fresh

LEMMA OrderNext == HubInv /\ [Next]_vars => (Ages /\ Queues /\ NeverBack /\ KickHonoured)'
<1>. SUFFICES ASSUME HubInv, [Next]_vars
              PROVE  (Ages /\ Queues /\ NeverBack /\ KickHonoured)'
  OBVIOUS
<1>. USE HubAssumption
<1>t. TypeOK /\ Ages /\ Queues /\ NeverBack /\ KickHonoured
  BY DEF HubInv
<1>n. /\ {world, units, asked, later} \subseteq Nat
      /\ \A p \in Pages : newest[p] \in Nat /\ shown[p] \in Nat
  BY <1>t DEF TypeOK
<1>1. CASE TickUnits
  <2>1. Queues'
    BY <1>1, <1>t, <1>n, OrderIsKept DEF TickUnits, page
  <2>. QED  BY <2>1, <1>1, <1>t DEF TickUnits, StartPoll, kicks, page, Ages, Fresh, NeverBack, KickHonoured
<1>2. CASE TakeRefresh
  <2>1. Queues'
    BY <1>2, <1>t, <1>n, OrderIsKept DEF TakeRefresh, page
  <2>. QED  BY <2>1, <1>2, <1>t DEF TakeRefresh, StartPoll, page, Ages, Fresh, NeverBack, KickHonoured
<1>3. CASE ListAll
  <2>1. Queues'
    BY <1>3, <1>t, <1>n, OrderIsKept DEF ListAll, page
  <2>. QED  BY <2>1, <1>3, <1>t, <1>n DEF ListAll, kicks, page, Ages, Fresh, NeverBack, KickHonoured
<1>4. CASE StoreUnits
  <2>1. units' \in Nat /\ units <= units'
    BY <1>4, <1>t DEF StoreUnits, Ages, TypeOK
  <2>2. Queues'
    BY <2>1, <1>4, <1>t, <1>n, OrderIsKept DEF StoreUnits, page
  <2>. QED  BY <2>1, <2>2, <1>4, <1>t, <1>n DEF StoreUnits, kicks, page, Ages, Fresh, NeverBack, KickHonoured, TypeOK
<1>5. CASE SendUnits
  <2>1. hub.pc = "stored" /\ hub.read = units /\ units \in 1..MaxChanges
    BY <1>5, <1>t DEF SendUnits, TypeOK, Ages
  <2>2. Units(hub.read) \in Messages
    BY <2>1, MessagesAre
  <2>3. \A p \in Pages : Fits(Units(hub.read), p)
    BY <2>1, <1>t DEF Fits, Units, Ages
  <2>4. Queues'
    BY <2>2, <2>3, <1>5, <1>t, BroadcastKeepsOrder DEF SendUnits, page
  <2>. QED  BY <2>4, <1>5, <1>t DEF SendUnits, kicks, page, Ages, Fresh, NeverBack, KickHonoured
<1>6. CASE PollHost
  <2>1. count'.restarts = count.restarts
    BY <1>6, <1>t DEF PollHost, TypeOK
  <2>2. Queues'
    BY <2>1, <1>6, <1>t, <1>n, OrderIsKept DEF PollHost, page
  <2>3. hub'.pc = "sampled" /\ hub.pc = "idle"
    BY <1>6 DEF PollHost
  <2>4. UNCHANGED <<world, units, asked, refresh, shown, newest>>
    BY <1>6 DEF PollHost, kicks, page
  <2>. QED  BY <2>1, <2>2, <2>3, <2>4, <1>t DEF Ages, Fresh, NeverBack, KickHonoured
<1>7. CASE SendHost
  <2>1. Host(hub.read) \in Messages
    BY <1>7, <1>t, MessagesAre DEF SendHost, TypeOK
  <2>2. \A p \in Pages : Fits(Host(hub.read), p)
    BY DEF Fits, Host, Carries
  <2>3. Queues'
    BY <2>1, <2>2, <1>7, <1>t, BroadcastKeepsOrder DEF SendHost, page
  <2>. QED  BY <2>3, <1>7, <1>t DEF SendHost, kicks, page, Ages, Fresh, NeverBack, KickHonoured
<1>8. CASE RefreshUnits
  <2>1. count'.restarts = count.restarts
    BY <1>8, <1>t DEF RefreshUnits, TypeOK
  <2>2. Queues'
    BY <2>1, <1>8, <1>t, <1>n, OrderIsKept DEF RefreshUnits, poller, page
  <2>3. refresh' = 1 /\ asked' = world /\ UNCHANGED <<world, hub, units, shown, newest>>
    BY <1>8 DEF RefreshUnits, Kick, poller, page
  <2>. QED  BY <2>1, <2>2, <2>3, <1>t, <1>n DEF Ages, Fresh, NeverBack, KickHonoured
<1>9. CASE KickLater
  <2>1. Queues'
    BY <1>9, <1>t, <1>n, OrderIsKept DEF KickLater, poller, page
  <2>. QED  BY <2>1, <1>9, <1>t, <1>n DEF KickLater, Kick, poller, page, Ages, Fresh, NeverBack, KickHonoured
<1>10. ASSUME NEW p \in Pages, Greet(p)
       PROVE  (Ages /\ Queues /\ NeverBack /\ KickHonoured)'
  <2>1. Queues'
    <3>. SUFFICES ASSUME NEW q \in Pages PROVE Inside(q)' /\ InOrder(q)'
      BY DEF Queues, Inside, InOrder, Fresh
    <3>1. CASE q = p
      <4>1. queue'[q] = <<Hello(history, units)>>
        BY <3>1, <1>10, <1>t DEF Greet, TypeOK
      <4>2. Len(queue'[q]) = 1 /\ queue'[q][1].units = units
        BY <4>1 DEF Hello
      <4>3. Fresh(units, q) /\ UNCHANGED <<units, newest, count>>
        BY <1>10, <1>t DEF Greet, poller, page, Ages
      <4>. QED  BY <4>2, <4>3, <1>n DEF Inside, InOrder, Fresh
    <3>2. CASE q # p
      <4>1. queue'[q] = queue[q] /\ UNCHANGED <<units, newest, count>>
        BY <3>2, <1>10, <1>t DEF Greet, poller, page, TypeOK
      <4>. QED  BY <4>1, <1>t DEF Queues, Inside, InOrder, Fresh
    <3>. QED  BY <3>1, <3>2
  <2>. QED  BY <2>1, <1>10, <1>t DEF Greet, poller, kicks, page, Ages, Fresh, NeverBack, KickHonoured
<1>11. ASSUME NEW p \in Pages, Join(p)
       PROVE  (Ages /\ Queues /\ NeverBack /\ KickHonoured)'
  <2>1. Queues'
    BY <1>11, <1>t, <1>n, OrderIsKept DEF Join, poller, page
  <2>. QED  BY <2>1, <1>11, <1>t DEF Join, poller, kicks, page, Ages, Fresh, NeverBack, KickHonoured
<1>12. ASSUME NEW p \in Pages, Deliver(p)
       PROVE  (Ages /\ Queues /\ NeverBack /\ KickHonoured)'
  <2>. DEFINE msg == Head(queue[p])
  <2>1. /\ queue[p] \in Seq(Messages) /\ queue[p] # <<>>
        /\ msg \in Messages /\ msg = queue[p][1] /\ 1 \in 1..Len(queue[p])
        /\ queue' = [queue EXCEPT ![p] = Tail(@)]
        /\ UNCHANGED <<world, hub, units, refresh, asked, count>>
    BY <1>12, <1>t DEF Deliver, TypeOK, poller, kicks
  <2>2. Inside(p) /\ InOrder(p)
    BY <1>t DEF Queues
  \* What the page shows afterwards.
  <2>3. CASE Carries(msg)
    <3>1. /\ shown' = [shown EXCEPT ![p] = msg.units]
          /\ newest' = [newest EXCEPT ![p] = IF msg.units > @ THEN msg.units ELSE @]
      BY <2>3, <1>12 DEF Deliver, Carries
    <3>2. /\ msg.units \in Nat /\ msg.units <= units
          /\ Fresh(msg.units, p)
      BY <2>1, <2>2, <2>3, MessageKinds DEF Inside
    <3>3. \A q \in Pages : /\ newest'[q] = IF q = p /\ msg.units > newest[p]
                                             THEN msg.units ELSE newest[q]
                           /\ shown'[q] = IF q = p THEN msg.units ELSE shown[q]
      BY <3>1, <1>t DEF TypeOK
    <3>4. NeverBack'
      BY <2>1, <3>2, <3>3, <1>t, <1>n DEF NeverBack, Fresh
    <3>5. Ages'
      <4>1. \A q \in Pages : Fresh(units, q)'
        BY <2>1, <3>2, <3>3, <1>t, <1>n DEF Ages, Fresh
      <4>2. \A q \in Pages : newest'[q] \in Nat /\ newest'[q] <= world
        BY <3>2, <3>3, <1>t, <1>n DEF Ages
      <4>3. hub.pc = "listed" => hub.read \in Nat
        BY <1>t DEF TypeOK
      <4>4. hub.pc = "listed" => \A q \in Pages : newest'[q] <= hub.read
        BY <3>2, <3>3, <4>3, <1>t, <1>n DEF Ages
      <4>. QED  BY <2>1, <4>1, <4>2, <4>4, <1>t DEF Ages
    <3>6. Queues'
      <4>. SUFFICES ASSUME NEW q \in Pages PROVE Inside(q)' /\ InOrder(q)'
        BY DEF Queues, Inside, InOrder, Fresh
      <4>1. CASE q = p
        <5>1. /\ Len(queue'[p]) = Len(queue[p]) - 1
              /\ \A i \in 1..Len(queue'[p]) : /\ queue'[p][i] = queue[p][i + 1]
                                              /\ i + 1 \in 1..Len(queue[p]) /\ 1 < i + 1
          BY <2>1, <1>t DEF TypeOK
        <5>2. \A i \in 1..Len(queue'[p]) : Carries(queue'[p][i]) =>
                /\ queue'[p][i].units \in Nat /\ queue'[p][i].units <= units
                /\ msg.units <= queue'[p][i].units
                /\ Fresh(queue'[p][i].units, p)
          BY <5>1, <2>1, <2>2, <2>3, MessageKinds DEF Inside, InOrder
        <5>3. Inside(p)'
          BY <5>2, <2>1, <3>2, <3>3, <1>n DEF Inside, Fresh
        <5>4. InOrder(p)'
          <6>. SUFFICES ASSUME NEW i \in 1..Len(queue'[p]), NEW j \in 1..Len(queue'[p]), i < j,
                               Carries(queue'[p][i]), Carries(queue'[p][j])
                        PROVE  queue'[p][i].units <= queue'[p][j].units
            BY DEF InOrder, Carries
          <6>1. /\ queue'[p][i] = queue[p][i + 1] /\ i + 1 \in 1..Len(queue[p])
                /\ queue'[p][j] = queue[p][j + 1] /\ j + 1 \in 1..Len(queue[p])
                /\ i + 1 < j + 1
            BY <5>1
          <6>. QED  BY <6>1, <2>2 DEF InOrder
        <5>. QED  BY <5>3, <5>4, <4>1
      <4>2. CASE q # p
        <5>1. queue'[q] = queue[q] /\ newest'[q] = newest[q]
          BY <4>2, <2>1, <3>3, <1>t DEF TypeOK
        <5>. QED  BY <5>1, <2>1, <1>t DEF Queues, Inside, InOrder, Fresh
      <4>. QED  BY <4>1, <4>2
    <3>7. KickHonoured'
      BY <2>1, <1>t DEF KickHonoured
    <3>. QED  BY <3>4, <3>5, <3>6, <3>7
  <2>4. CASE ~Carries(msg)
    <3>1. UNCHANGED <<shown, newest>>
      BY <2>4, <1>12 DEF Deliver, Carries, page
    <3>2. Queues'
      <4>. SUFFICES ASSUME NEW q \in Pages PROVE Inside(q)' /\ InOrder(q)'
        BY DEF Queues, Inside, InOrder, Fresh
      <4>1. CASE q = p
        <5>1. /\ Len(queue'[p]) = Len(queue[p]) - 1
              /\ \A i \in 1..Len(queue'[p]) : /\ queue'[p][i] = queue[p][i + 1]
                                              /\ i + 1 \in 1..Len(queue[p])
          BY <2>1, <1>t DEF TypeOK
        <5>2. Inside(p)'
          BY <5>1, <2>1, <2>2, <3>1 DEF Inside, Fresh
        <5>3. InOrder(p)'
          <6>. SUFFICES ASSUME NEW i \in 1..Len(queue'[p]), NEW j \in 1..Len(queue'[p]), i < j,
                               Carries(queue'[p][i]), Carries(queue'[p][j])
                        PROVE  queue'[p][i].units <= queue'[p][j].units
            BY DEF InOrder, Carries
          <6>1. /\ queue'[p][i] = queue[p][i + 1] /\ i + 1 \in 1..Len(queue[p])
                /\ queue'[p][j] = queue[p][j + 1] /\ j + 1 \in 1..Len(queue[p])
                /\ i + 1 < j + 1
            BY <5>1
          <6>. QED  BY <6>1, <2>2 DEF InOrder
        <5>. QED  BY <5>2, <5>3, <4>1
      <4>2. CASE q # p
        <5>1. queue'[q] = queue[q]
          BY <4>2, <2>1, <1>t DEF TypeOK
        <5>. QED  BY <5>1, <2>1, <3>1, <1>t DEF Queues, Inside, InOrder, Fresh
      <4>. QED  BY <4>1, <4>2
    <3>. QED  BY <2>1, <3>1, <3>2, <1>t DEF Ages, Fresh, NeverBack, KickHonoured
  <2>. QED  BY <2>3, <2>4
<1>13. ASSUME NEW p \in Pages, Chatter(p)
       PROVE  (Ages /\ Queues /\ NeverBack /\ KickHonoured)'
  <2>1. Crowd \in Messages /\ Fits(Crowd, p)
    BY MessagesAre DEF Fits, Carries, Crowd
  <2>2. Queues'
    <3>. SUFFICES ASSUME NEW q \in Pages PROVE Inside(q)' /\ InOrder(q)'
      BY DEF Queues, Inside, InOrder, Fresh
    <3>0. /\ UNCHANGED <<units, newest, count>>
          /\ Inside(q) /\ InOrder(q)
      BY <1>13, <1>t DEF Chatter, poller, page, Queues
    <3>1. CASE q = p
      <4>1. queue'[q] = Append(queue[q], Crowd)
        BY <3>1, <1>13, <1>t DEF Chatter, TypeOK
      <4>. QED  BY <4>1, <3>0, <3>1, <2>1, <1>t, AppendKeepsOrder
    <3>2. CASE q # p
      <4>1. queue'[q] = queue[q]
        BY <3>2, <1>13, <1>t DEF Chatter, TypeOK
      <4>. QED  BY <4>1, <3>0 DEF Inside, InOrder, Fresh
    <3>. QED  BY <3>1, <3>2
  <2>. QED  BY <2>2, <1>13, <1>t DEF Chatter, poller, kicks, page, Ages, Fresh, NeverBack, KickHonoured
<1>14. ASSUME NEW p \in Pages, Lose(p)
       PROVE  (Ages /\ Queues /\ NeverBack /\ KickHonoured)'
  <2>1. Queues'
    <3>. SUFFICES ASSUME NEW q \in Pages PROVE Inside(q)' /\ InOrder(q)'
      BY DEF Queues, Inside, InOrder, Fresh
    <3>0. /\ UNCHANGED <<units, newest, count>>
          /\ Inside(q) /\ InOrder(q)
      BY <1>14, <1>t DEF Lose, poller, page, Queues
    <3>1. CASE q = p
      <4>1. queue'[q] = <<>>
        BY <3>1, <1>14, <1>t DEF Lose, TypeOK
      <4>. QED  BY <4>1, EmptyIsInOrder
    <3>2. CASE q # p
      <4>1. queue'[q] = queue[q]
        BY <3>2, <1>14, <1>t DEF Lose, TypeOK
      <4>. QED  BY <4>1, <3>0 DEF Inside, InOrder, Fresh
    <3>. QED  BY <3>1, <3>2
  <2>. QED  BY <2>1, <1>14, <1>t DEF Lose, poller, kicks, page, Ages, Fresh, NeverBack, KickHonoured
<1>15. ASSUME NEW p \in Pages, Remove(p)
       PROVE  (Ages /\ Queues /\ NeverBack /\ KickHonoured)'
  <2>1. Queues'
    BY <1>15, <1>t, <1>n, OrderIsKept DEF Remove, poller, page
  <2>. QED  BY <2>1, <1>15, <1>t DEF Remove, poller, kicks, page, Ages, Fresh, NeverBack, KickHonoured
<1>16. CASE Change
  <2>1. Queues'
    BY <1>16, <1>t, <1>n, OrderIsKept DEF Change, poller, page
  <2>2. world' = world + 1 /\ UNCHANGED <<hub, units, asked, refresh, shown, newest, count>>
    BY <1>16 DEF Change, poller, kicks, page
  <2>. QED  BY <2>1, <2>2, <1>t, <1>n, SMTT(30) DEF Ages, Fresh, NeverBack, KickHonoured, TypeOK
<1>17. CASE Restart
  <2>1. count'.restarts = count.restarts + 1 /\ count.restarts \in Nat
    BY <1>17, <1>t DEF Restart, TypeOK
  <2>2. \A p \in Pages : queue'[p] = <<>>
    BY <1>17 DEF Restart
  <2>3. Queues'
    BY <2>2 DEF Queues, Inside, InOrder
  <2>4. /\ hub'.pc = "listing" /\ units' = 0 /\ asked' = 0
        /\ UNCHANGED <<world, shown, newest>>
    BY <1>17 DEF Restart, StartPoll, page
  <2>. QED  BY <2>1, <2>3, <2>4, <1>t, <1>n DEF Ages, Fresh, NeverBack, KickHonoured
<1>18. CASE UNCHANGED vars
  <2>1. Queues'
    BY <1>18, <1>t, <1>n, OrderIsKept DEF vars
  <2>. QED  BY <2>1, <1>18, <1>t DEF vars, Ages, Fresh, NeverBack, KickHonoured
<1>. QED
  BY <1>1, <1>2, <1>3, <1>4, <1>5, <1>6, <1>7, <1>8, <1>9, <1>10, <1>11, <1>12,
     <1>13, <1>14, <1>15, <1>16, <1>17, <1>18 DEF Next, Poll, Sample

\* What is under way in the hub is as old as its station says, at all times.
THEOREM HubInvariant == Spec => []HubInv
<1>1. Init => HubInv
  BY TypeInit, OrderInit DEF HubInv
<1>2. HubInv /\ [Next]_vars => HubInv'
  BY TypeNext, OrderNext DEF HubInv
<1>. QED  BY <1>1, <1>2, PTL DEF Spec

-----------------------------------------------------------------------------
(* The theorems.                                                           *)

\* Every variable keeps its type; queues and traces keep their limits.
THEOREM TypeCorrect == Spec => []TypeOK
<1>1. HubInv => TypeOK
  BY DEF HubInv
<1>. QED  BY <1>1, HubInvariant, PTL

\* A page never returns to an older state of the units than it has shown.
THEOREM PagesNeverGoBack == Spec => []NeverBack
<1>1. HubInv => NeverBack
  BY DEF HubInv
<1>. QED  BY <1>1, HubInvariant, PTL

\* Every kick is followed by a poll that reads after it, though most are dropped.
THEOREM KicksAreHonoured == Spec => []KickHonoured
<1>1. HubInv => KickHonoured
  BY DEF HubInv
<1>. QED  BY <1>1, HubInvariant, PTL

-----------------------------------------------------------------------------
(* One seam.  The samples on their way to a page of the hub are numbered   *)
(* without holes up to the one the hub will broadcast next, so a trace is  *)
(* continued without a hole unless the sample after it is the first one    *)
(* after a hello.  A trace is then either regular, or it has had its seam  *)
(* and is continued by the very next sample.                               *)

\* The sample a client that is in the hub now will be sent next.
Due == IF hub.pc = "sampled" THEN hub.read ELSE count.samples + 1

\* The trace is in order, without holes but for at most one place.
Seamed(t) ==
  /\ \A i \in 1..(Len(t) - 1) : t[i] <= t[i + 1]
  /\ \A i, j \in Irregular(t) : i = j

\* Sample n may come after the trace.
Follows(t, n) ==
  /\ Seamed(t)
  /\ t # <<>> => /\ t[Len(t)] <= n
                 /\ t[Len(t)] = n - 1 \/ Irregular(t) = {}

\* e[i] is the sample expected after the first i messages of the queue, and d
\* the one after all of them.
Expects(q, e, d) ==
  /\ e[Len(q)] = d
  /\ \A i \in 1..Len(q) :
       /\ q[i].type = "host" => q[i].sample = e[i - 1] /\ e[i] = e[i - 1] + 1
       /\ q[i].type # "host" => e[i] = e[i - 1]
       /\ q[i].type = "hello" => i = 1

\* What a page with trace t will have when the hello under way, if any, arrives.
Base(q, t) == IF q # <<>> /\ q[1].type = "hello" THEN q[1].history ELSE t

Continues(q, t, d) ==
  \E e \in [0..Len(q) -> Nat] : Expects(q, e, d) /\ Follows(Base(q, t), e[0])

HistoryGrows ==
  /\ Irregular(history) = {}
  /\ history # <<>> => history[Len(history)] = count.samples
  /\ hub.pc = "sampled" => hub.read = count.samples

Greeted(p) ==
  conn[p] = "greeted" =>
    \E h \in Traces, u \in 0..MaxChanges :
      /\ queue[p] = <<Hello(h, u)>>
      /\ Irregular(h) = {}
      /\ h # <<>> => h[Len(h)] <= Due

Joined(p) == conn[p] = "joined" => Continues(queue[p], trace[p], Due)

Seams == /\ HistoryGrows
         /\ \A p \in Pages : Seamed(trace[p]) /\ Greeted(p) /\ Joined(p)

SeamInv == TypeOK /\ Seams

LEMMA SeamedIsOneSeam ==
  ASSUME NEW t, Seamed(t)
  PROVE  Cardinality(Irregular(t)) <= 1
<1>1. CASE Irregular(t) = {}
  BY <1>1, FS_EmptySet
<1>2. CASE Irregular(t) # {}
  <2>1. PICK i \in Irregular(t) : TRUE
    BY <1>2
  <2>2. Irregular(t) = {i}
    BY <2>1 DEF Seamed
  <2>. QED  BY <2>2, FS_Singleton
<1>. QED  BY <1>1, <1>2

\* The newest elements of a sequence are a tail of it.
LEMMA NewestIsTail ==
  ASSUME NEW S, NEW s \in Seq(S), NEW n \in Nat
  PROVE  /\ Newest(s, n) \in Seq(S)
         /\ \E k \in 0..Len(s) :
              /\ Len(Newest(s, n)) = Len(s) - k
              /\ \A i \in 1..(Len(s) - k) : Newest(s, n)[i] = s[i + k]
              /\ s # <<>> /\ n > 0 => k < Len(s)
<1>1. Newest(s, n) \in Seq(S) /\ Len(s) \in Nat
  BY NewestType
<1>2. CASE Len(s) > n
  <2>. DEFINE k == Len(s) - n
  <2>1. k \in 0..Len(s) /\ k + 1 \in 1..(Len(s) + 1) /\ Newest(s, n) = SubSeq(s, k + 1, Len(s))
    BY <1>2 DEF Newest
  <2>2. /\ Len(Newest(s, n)) = Len(s) - k
        /\ \A i \in 1..(Len(s) - k) : Newest(s, n)[i] = s[i + k]
    <3>. HIDE DEF k
    <3>1. Len(s) \in Nat /\ k \in Nat
      BY <2>1
    <3>2. \A i \in (k + 1)..Len(s) : s[i] \in S
      BY <3>1
    <3>. QED  BY <2>1, <3>1, <3>2, SubSeqProperties
  <2>3. n > 0 => k < Len(s)
    BY <1>2
  <2>. QED  BY <1>1, <2>1, <2>2, <2>3
<1>3. CASE Len(s) <= n
  <2>1. Newest(s, n) = SubSeq(s, 1, Len(s))
    <3>1. ~(Len(s) > n)
      BY <1>1, <1>3
    <3>. QED  BY <3>1 DEF Newest
  <2>2. Newest(s, n) = s
    BY <2>1, SubSeqFull
  <2>3. Len(s) \in Nat /\ (s # <<>> => 0 < Len(s))
    OBVIOUS
  <2>. DEFINE k == 0
  <2>4. /\ k \in 0..Len(s) /\ Len(Newest(s, n)) = Len(s) - k
        /\ \A i \in 1..(Len(s) - k) : Newest(s, n)[i] = s[i + k]
    BY <2>2, <2>3
  <2>. QED  BY <1>1, <2>3, <2>4
<1>. QED  BY <1>2, <1>3

LEMMA TailFollows ==
  ASSUME NEW t \in Seq(Nat), NEW u \in Seq(Nat), NEW k \in 0..Len(t), NEW n \in Nat,
         Len(u) = Len(t) - k, \A i \in 1..Len(u) : u[i] = t[i + k]
  PROVE  /\ Irregular(t) = {} => Irregular(u) = {}
         /\ Follows(t, n) => Follows(u, n)
<1>0. Len(t) \in Nat /\ Len(u) \in Nat /\ k \in Nat
  OBVIOUS
<1>1. \A i \in 1..(Len(u) - 1) : /\ i + k \in 1..(Len(t) - 1)
                                 /\ u[i] = t[i + k] /\ u[i + 1] = t[(i + k) + 1]
  <2>. SUFFICES ASSUME NEW i \in 1..(Len(u) - 1)
                PROVE  /\ i + k \in 1..(Len(t) - 1)
                       /\ u[i] = t[i + k] /\ u[i + 1] = t[(i + k) + 1]
    OBVIOUS
  <2>1. i \in 1..Len(u) /\ i + 1 \in 1..Len(u) /\ (i + 1) + k = (i + k) + 1
    BY <1>0
  <2>. QED  BY <1>0, <2>1
<1>2. \A i \in Irregular(u) : i + k \in Irregular(t)
  BY <1>1 DEF Irregular
<1>3. Seamed(t) => Seamed(u)
  <2>1. \A i \in Irregular(u) : i \in Int
    BY DEF Irregular
  <2>2. Seamed(t) => \A i, j \in Irregular(u) : i = j
    BY <1>0, <1>2, <2>1 DEF Seamed
  <2>3. Seamed(t) => \A i \in 1..(Len(u) - 1) : u[i] <= u[i + 1]
    BY <1>1 DEF Seamed
  <2>. QED  BY <2>2, <2>3 DEF Seamed
<1>4. u # <<>> => t # <<>> /\ u[Len(u)] = t[Len(t)]
  <2>1. u # <<>> => Len(u) \in 1..Len(u) /\ Len(u) + k = Len(t)
    BY <1>0
  <2>. QED  BY <1>0, <2>1, SMTT(30)
<1>5. Irregular(t) = {} => Irregular(u) = {}
  BY <1>2
<1>. QED  BY <1>3, <1>4, <1>5 DEF Follows

LEMMA SampleFollows ==
  ASSUME NEW t \in Seq(Nat), NEW n \in Nat, Follows(t, n)
  PROVE  Follows(Append(t, n), n + 1)
<1>. DEFINE u == Append(t, n)
<1>1. /\ u \in Seq(Nat) /\ Len(u) = Len(t) + 1 /\ u[Len(t) + 1] = n
      /\ \A i \in 1..Len(t) : u[i] = t[i] /\ t[i] \in Nat
  OBVIOUS
<1>. HIDE DEF u
<1>2. \A i \in 1..(Len(u) - 1) : \/ i = Len(t) /\ t # <<>> /\ u[i] = t[Len(t)] /\ u[i + 1] = n
                                 \/ i \in 1..(Len(t) - 1) /\ u[i] = t[i] /\ u[i + 1] = t[i + 1]
  BY <1>1, SMTT(30)
<1>3. \A i \in 1..(Len(u) - 1) : u[i] <= u[i + 1]
  BY <1>2 DEF Follows, Seamed
<1>4. ASSUME NEW i \in Irregular(u)
      PROVE  \/ i = Len(t) /\ Irregular(t) = {}
             \/ i \in Irregular(t) /\ t # <<>>
  <2>1. i \in 1..(Len(u) - 1) /\ u[i + 1] # u[i] + 1
    BY DEF Irregular
  <2>2. CASE i = Len(t) /\ t # <<>> /\ u[i] = t[Len(t)] /\ u[i + 1] = n
    <3>1. t[Len(t)] # n - 1
      BY <2>1, <2>2
    <3>. QED  BY <2>2, <3>1 DEF Follows
  <2>3. CASE i \in 1..(Len(t) - 1) /\ u[i] = t[i] /\ u[i + 1] = t[i + 1]
    BY <2>1, <2>3 DEF Irregular
  <2>. QED  BY <1>2, <2>1, <2>2, <2>3
<1>5. \A i, j \in Irregular(u) : i = j
  BY <1>4 DEF Follows, Seamed
<1>6. u # <<>> /\ u[Len(u)] = n /\ n = (n + 1) - 1
  BY <1>1
<1>7. Follows(u, n + 1)
  BY <1>3, <1>5, <1>6 DEF Follows, Seamed
<1>. QED  BY <1>7 DEF u

\* A regular trace stays regular, and of the newest elements only.
LEMMA HistoryStaysRegular ==
  ASSUME NEW h \in Seq(Nat), NEW n \in Nat, NEW l \in Nat \ {0}, Irregular(h) = {},
         h # <<>> => h[Len(h)] = n
  PROVE  LET g == Newest(Append(h, n + 1), l)
         IN  Irregular(g) = {} /\ g # <<>> /\ g[Len(g)] = n + 1
<1>. DEFINE a == Append(h, n + 1)
            g == Newest(a, l)
<1>1. /\ a \in Seq(Nat) /\ Len(a) = Len(h) + 1 /\ a[Len(h) + 1] = n + 1
      /\ \A i \in 1..Len(h) : a[i] = h[i]
  OBVIOUS
<1>. HIDE DEF a
<1>2. Irregular(a) = {}
  <2>. SUFFICES ASSUME NEW i \in 1..(Len(a) - 1) PROVE a[i + 1] = a[i] + 1
    BY DEF Irregular
  <2>1. CASE i = Len(h)
    BY <1>1, <2>1
  <2>2. CASE i # Len(h)
    <3>1. i \in 1..(Len(h) - 1) /\ a[i] = h[i] /\ a[i + 1] = h[i + 1]
      BY <1>1, <2>2
    <3>. QED  BY <3>1 DEF Irregular
  <2>. QED  BY <2>1, <2>2
<1>3. /\ g \in Seq(Nat)
      /\ \E k \in 0..Len(a) :
           /\ Len(g) = Len(a) - k
           /\ \A i \in 1..(Len(a) - k) : g[i] = a[i + k]
           /\ a # <<>> /\ l > 0 => k < Len(a)
  BY <1>1, NewestIsTail
<1>. HIDE DEF g
<1>4. PICK k \in 0..Len(a) : /\ Len(g) = Len(a) - k
                             /\ \A i \in 1..Len(g) : g[i] = a[i + k]
                             /\ k < Len(a)
  BY <1>1, <1>3
<1>5. Irregular(g) = {}
  BY <1>1, <1>2, <1>3, <1>4, TailFollows
<1>6. g # <<>> /\ g[Len(g)] = n + 1
  BY <1>1, <1>3, <1>4
<1>. QED  BY <1>5, <1>6 DEF g, a

LEMMA AppendContinues ==
  ASSUME NEW q \in Seq(Messages), NEW t, NEW d \in Nat, Continues(q, t, d),
         NEW m \in Messages, NEW c \in Nat, m.type # "hello",
         IF m.type = "host" THEN m.sample = d /\ c = d + 1 ELSE c = d
  PROVE  Continues(Append(q, m), t, c)
<1>. DEFINE r == Append(q, m)
<1>1. PICK e \in [0..Len(q) -> Nat] : Expects(q, e, d) /\ Follows(Base(q, t), e[0])
  BY DEF Continues
<1>. DEFINE f == [i \in 0..Len(r) |-> IF i <= Len(q) THEN e[i] ELSE c]
<1>2. /\ Len(q) \in Nat /\ Len(r) = Len(q) + 1 /\ r[Len(q) + 1] = m
      /\ \A i \in 1..Len(q) : r[i] = q[i]
  OBVIOUS
<1>. HIDE DEF r
<1>3. f \in [0..Len(r) -> Nat]
  BY <1>2
<1>4. f[Len(r)] = c /\ f[Len(q)] = d /\ f[0] = e[0] /\ \A i \in 0..Len(q) : f[i] = e[i]
  BY <1>1, <1>2 DEF Expects
<1>. HIDE DEF f
<1>5. Expects(r, f, c)
  <2>1. ASSUME NEW i \in 1..Len(q)
        PROVE  /\ r[i].type = "host" => r[i].sample = f[i - 1] /\ f[i] = f[i - 1] + 1
               /\ r[i].type # "host" => f[i] = f[i - 1]
               /\ r[i].type = "hello" => i = 1
    <3>1. i \in 0..Len(q) /\ i - 1 \in 0..Len(q)
      BY <1>2
    <3>. QED  BY <1>1, <1>2, <1>4, <3>1 DEF Expects
  <2>2. (Len(q) + 1) - 1 = Len(q) /\ \A i \in 1..Len(r) : i \in 1..Len(q) \/ i = Len(q) + 1
    BY <1>2
  <2>. QED  BY <1>2, <1>4, <2>1, <2>2 DEF Expects
<1>6. Base(r, t) = Base(q, t)
  <2>1. r # <<>>
    BY <1>2
  <2>2. CASE q = <<>>
    BY <1>2, <2>1, <2>2 DEF Base
  <2>3. CASE q # <<>>
    <3>1. 1 \in 1..Len(q)
      BY <2>3
    <3>. QED  BY <1>2, <2>1, <2>3, <3>1 DEF Base
  <2>. QED  BY <2>2, <2>3
<1>7. Continues(r, t, c)
  BY <1>1, <1>3, <1>4, <1>5, <1>6 DEF Continues
<1>. QED  BY <1>7 DEF r

LEMMA TailContinues ==
  ASSUME NEW q \in Seq(Messages), q # <<>>, NEW t \in Seq(Nat), NEW d \in Nat,
         Continues(q, t, d), NEW u,
         CASE Head(q).type = "hello" -> u = Head(q).history
           [] Head(q).type = "host" -> u = Append(Newest(t, HistoryLen - 1), Head(q).sample)
           [] OTHER -> u = t
  PROVE  /\ Continues(Tail(q), u, d)
         /\ Seamed(u)
<1>. DEFINE r == Tail(q)
<1>1. PICK e \in [0..Len(q) -> Nat] : Expects(q, e, d) /\ Follows(Base(q, t), e[0])
  BY DEF Continues
<1>. DEFINE f == [i \in 0..Len(r) |-> e[i + 1]]
<1>2. /\ Len(q) \in Nat /\ Len(q) > 0 /\ Len(r) = Len(q) - 1
      /\ Head(q) = q[1] /\ \A i \in 1..Len(r) : r[i] = q[i + 1]
  OBVIOUS
<1>. HIDE DEF r
<1>3. f \in [0..Len(r) -> Nat]
  BY <1>2
<1>4. \A i \in 0..Len(r) : f[i] = e[i + 1]
  OBVIOUS
<1>. HIDE DEF f
<1>5. Expects(r, f, d)
  <2>1. ASSUME NEW i \in 1..Len(r)
        PROVE  /\ r[i].type = "host" => r[i].sample = f[i - 1] /\ f[i] = f[i - 1] + 1
               /\ r[i].type # "host" => f[i] = f[i - 1]
               /\ r[i].type # "hello"
    <3>1. /\ i + 1 \in 1..Len(q) /\ i + 1 # 1 /\ (i + 1) - 1 = i
          /\ i \in 0..Len(r) /\ i - 1 \in 0..Len(r) /\ (i - 1) + 1 = i
      BY <1>2
    <3>2. f[i] = e[i + 1] /\ f[i - 1] = e[i] /\ r[i] = q[i + 1]
      BY <1>2, <1>4, <3>1
    <3>. QED  BY <1>1, <3>1, <3>2 DEF Expects
  <2>2. f[Len(r)] = d
    <3>1. Len(r) \in 0..Len(r) /\ Len(r) + 1 = Len(q)
      BY <1>2
    <3>. QED  BY <1>1, <1>4, <3>1 DEF Expects
  <2>. QED  BY <2>1, <2>2 DEF Expects
<1>6. Base(r, u) = u
  <2>1. CASE r = <<>>
    BY <2>1 DEF Base
  <2>2. CASE r # <<>>
    <3>1. 1 \in 1..Len(r) /\ 2 \in 1..Len(q) /\ r[1] = q[2]
      BY <1>2, <2>2 DEF r
    <3>. QED  BY <1>1, <3>1 DEF Base, Expects
  <2>. QED  BY <2>1, <2>2
<1>7. /\ f[0] = e[1] /\ e[0] \in Nat /\ e[1] \in Nat
      /\ q[1].type = "host" => q[1].sample = e[0] /\ e[1] = e[0] + 1
      /\ q[1].type # "host" => e[1] = e[0]
  <2>1. 1 \in 1..Len(q) /\ 0 \in 0..Len(r) /\ 0 \in 0..Len(q) /\ 1 \in 0..Len(q) /\ 1 - 1 = 0 /\ 0 + 1 = 1
    BY <1>2
  <2>. QED  BY <1>1, <1>4, <2>1 DEF Expects
<1>8. Follows(u, f[0])
  <2>1. CASE q[1].type = "hello"
    BY <1>1, <1>2, <1>7, <2>1 DEF Base
  <2>2. CASE q[1].type = "host"
    <3>. DEFINE n == Newest(t, HistoryLen - 1)
    <3>1. HistoryLen - 1 \in Nat
      BY HubAssumption
    <3>2. n \in Seq(Nat) /\ \E k \in 0..Len(t) :
                              /\ Len(n) = Len(t) - k
                              /\ \A i \in 1..(Len(t) - k) : n[i] = t[i + k]
      BY <3>1, NewestIsTail
    <3>. HIDE DEF n
    <3>3. Follows(t, e[0])
      BY <1>1, <2>2 DEF Base
    <3>4. Follows(n, e[0])
      BY <1>7, <3>2, <3>3, TailFollows
    <3>5. Follows(Append(n, e[0]), e[0] + 1)
      BY <1>7, <3>2, <3>4, SampleFollows
    <3>6. u = Append(n, e[0])
      BY <1>2, <1>7, <2>2 DEF n
    <3>. QED  BY <1>7, <2>2, <3>5, <3>6
  <2>3. CASE q[1].type # "hello" /\ q[1].type # "host"
    BY <1>1, <1>2, <1>7, <2>3 DEF Base
  <2>. QED  BY <2>1, <2>2, <2>3
<1>9. Continues(r, u, d)
  BY <1>3, <1>5, <1>6, <1>8 DEF Continues
<1>10. Seamed(u)
  BY <1>8 DEF Follows
<1>. QED  BY <1>9, <1>10 DEF r

LEMMA DueType == TypeOK => Due \in Nat /\ count.samples \in Nat
<1>. SUFFICES ASSUME TypeOK PROVE Due \in Nat /\ count.samples \in Nat
  OBVIOUS
<1>1. count.samples \in Nat
  BY HubAssumption DEF TypeOK
<1>2. hub.pc = "sampled" => hub.read \in Nat
  BY DEF TypeOK
<1>. QED  BY <1>1, <1>2 DEF Due

\* A sequence of one type is one of a wider type.
LEMMA TracesAre == \A t \in Traces : t \in Seq(Nat)
<1>. SUFFICES ASSUME NEW t \in Traces PROVE t \in Seq(Nat)
  OBVIOUS
<1>1. t \in Seq(1..MaxSamples) /\ 1..MaxSamples \subseteq Nat
  BY HubAssumption DEF Traces
<1>. QED  BY <1>1, SeqMonotonic

LEMMA SeamInit == Init => Seams
<1>. SUFFICES ASSUME Init PROVE Seams
  OBVIOUS
<1>1. HistoryGrows
  BY DEF Init, AtStart, HistoryGrows, Irregular
<1>2. ASSUME NEW p \in Pages PROVE Seamed(trace[p]) /\ Greeted(p) /\ Joined(p)
  BY DEF Init, AtStart, Seamed, Irregular, Greeted, Joined
<1>. QED  BY <1>1, <1>2 DEF Seams

\* The sample due next is no earlier one, and the same unless one is broadcast.
LEMMA SeamsStay ==
  ASSUME Seams, UNCHANGED <<history, trace, count>>, Due' = Due,
         hub'.pc = "sampled" => hub'.read = count.samples,
         \A p \in Pages : \/ conn'[p] = conn[p] /\ queue'[p] = queue[p]
                          \/ Greeted(p)' /\ Joined(p)'
  PROVE  Seams'
<1>1. HistoryGrows'
  BY DEF Seams, HistoryGrows
<1>2. ASSUME NEW p \in Pages PROVE Seamed(trace[p])' /\ Greeted(p)' /\ Joined(p)'
  BY DEF Seams, Greeted, Joined
<1>. QED  BY <1>1, <1>2 DEF Seams

\* A broadcast that is no hello; a host sample is the one that is due.
LEMMA BroadcastContinues ==
  ASSUME TypeOK, Seams, UNCHANGED trace, NEW m \in Messages, Broadcast(m),
         m.type # "hello", Due' \in Nat,
         IF m.type = "host" THEN m.sample = Due /\ Due' = Due + 1 ELSE Due' = Due,
         NEW p \in Pages
  PROVE  Greeted(p)' /\ Joined(p)'
<1>1. queue[p] \in Seq(Messages) /\ Due \in Nat
  BY DueType DEF TypeOK
<1>2. Greeted(p)'
  <2>. SUFFICES ASSUME conn'[p] = "greeted" PROVE Greeted(p)'
    BY DEF Greeted
  <2>1. conn[p] = "greeted" /\ queue'[p] = queue[p]
    BY DEF Broadcast, TypeOK
  <2>2. PICK h \in Traces, u \in 0..MaxChanges :
           queue[p] = <<Hello(h, u)>> /\ Irregular(h) = {} /\ (h # <<>> => h[Len(h)] <= Due)
    BY <2>1 DEF Seams, Greeted
  <2>3. h # <<>> => h[Len(h)] \in Nat
    BY TracesAre
  <2>4. h # <<>> => h[Len(h)] <= Due'
    BY <1>1, <2>2, <2>3
  <2>. QED  BY <2>1, <2>2, <2>4 DEF Greeted
<1>3. Joined(p)'
  <2>. SUFFICES ASSUME conn'[p] = "joined" PROVE Continues(queue'[p], trace'[p], Due')
    BY DEF Joined
  <2>1. conn[p] = "joined" /\ queue'[p] = Append(queue[p], m)
    BY DEF Broadcast, TypeOK
  <2>2. Continues(queue[p], trace[p], Due)
    BY <2>1 DEF Seams, Joined
  <2>. DEFINE d == Due
              c == Due'
              t == trace[p]
              q == queue[p]
  <2>3. Continues(Append(q, m), t, c)
    <3>1. /\ q \in Seq(Messages) /\ d \in Nat /\ c \in Nat /\ Continues(q, t, d)
          /\ IF m.type = "host" THEN m.sample = d /\ c = d + 1 ELSE c = d
      BY <1>1, <2>2
    <3>. HIDE DEF q, d, c, t
    <3>. QED  BY <3>1, AppendContinues
  <2>. QED  BY <2>1, <2>3
<1>. QED  BY <1>2, <1>3

LEMMA SeamNext == TypeOK /\ TypeOK' /\ Seams /\ [Next]_vars => Seams'
<1>. SUFFICES ASSUME TypeOK, TypeOK', Seams, [Next]_vars PROVE Seams'
  OBVIOUS
<1>d. Due \in Nat /\ count.samples \in Nat /\ Due' \in Nat
  <2>1. count'.samples \in Nat /\ (hub'.pc = "sampled" => hub'.read \in Nat)
    BY HubAssumption DEF TypeOK
  <2>. QED  BY <2>1, DueType DEF Due
<1>1. CASE TickUnits
  BY <1>1, SeamsStay DEF TickUnits, StartPoll, page, Due
<1>2. CASE TakeRefresh
  BY <1>2, SeamsStay DEF TakeRefresh, StartPoll, page, Due
<1>3. CASE ListAll
  BY <1>3, SeamsStay DEF ListAll, page, Due
<1>4. CASE StoreUnits
  <2>1. hub'.pc = "stored"
    BY <1>4 DEF StoreUnits, TypeOK
  <2>. QED  BY <1>4, <2>1, SeamsStay DEF StoreUnits, page, Due
<1>5. CASE SendUnits
  <2>1. Units(hub.read) \in Messages /\ Units(hub.read).type = "units"
    BY <1>5, MessagesAre DEF SendUnits, TypeOK, Units
  <2>2. Due' = Due /\ hub'.pc = "idle"
    BY <1>5 DEF SendUnits, Due
  <2>3. \A p \in Pages : Greeted(p)' /\ Joined(p)'
    BY <1>5, <1>d, <2>1, <2>2, BroadcastContinues DEF SendUnits, page
  <2>. QED  BY <1>5, <2>2, <2>3, SeamsStay DEF SendUnits, page
<1>6. CASE PollHost
  <2>1. /\ hub.pc = "idle" /\ hub'.pc = "sampled" /\ hub'.read = count.samples + 1
        /\ count'.samples = count.samples + 1
        /\ history' = Newest(Append(history, count.samples + 1), HistoryLen)
        /\ UNCHANGED <<trace, conn, queue>>
    BY <1>6 DEF PollHost, TypeOK, page
  <2>2. Due' = Due
    BY <2>1 DEF Due
  <2>3. HistoryGrows'
    <3>1. history \in Seq(Nat)
      BY TracesAre DEF TypeOK
    <3>2. /\ Irregular(history') = {} /\ history' # <<>>
          /\ history'[Len(history')] = count.samples + 1
      BY <1>d, <2>1, <3>1, HistoryStaysRegular, HubAssumption DEF Seams, HistoryGrows
    <3>. QED  BY <2>1, <3>2 DEF HistoryGrows, Irregular
  <2>. QED  BY <2>1, <2>2, <2>3 DEF Seams, Greeted, Joined
<1>7. CASE SendHost
  <2>1. /\ hub.pc = "sampled" /\ hub'.pc = "idle" /\ Broadcast(Host(hub.read))
        /\ UNCHANGED <<history, trace, count>>
    BY <1>7 DEF SendHost, page
  <2>2. Host(hub.read) \in Messages /\ Host(hub.read).type = "host" /\ Host(hub.read).sample = Due
    BY <2>1, MessagesAre DEF TypeOK, Host, Due
  <2>3. Due' = Due + 1
    BY <2>1 DEF Due, Seams, HistoryGrows
  <2>4. \A p \in Pages : Greeted(p)' /\ Joined(p)'
    BY <1>d, <2>1, <2>2, <2>3, BroadcastContinues
  <2>5. HistoryGrows'
    BY <2>1 DEF Seams, HistoryGrows
  <2>. QED  BY <2>1, <2>4, <2>5 DEF Seams
<1>8. CASE RefreshUnits
  <2>1. count'.samples = count.samples /\ UNCHANGED <<hub, history, trace, conn, queue>>
    BY <1>8 DEF RefreshUnits, TypeOK, poller, page
  <2>2. Due' = Due
    BY <2>1 DEF Due
  <2>. QED  BY <2>1, <2>2 DEF Seams, HistoryGrows, Greeted, Joined
<1>9. CASE KickLater
  BY <1>9, SeamsStay DEF KickLater, poller, page, Due, Seams, HistoryGrows
<1>10. ASSUME NEW p \in Pages, Greet(p) PROVE Seams'
  <2>1. /\ conn'[p] = "greeted" /\ queue'[p] = <<Hello(history, units)>>
        /\ \A q \in Pages : q # p => conn'[q] = conn[q] /\ queue'[q] = queue[q]
        /\ UNCHANGED <<hub, history, trace, count>>
    BY <1>10 DEF Greet, TypeOK, poller, page
  <2>2. Due' = Due
    BY <2>1 DEF Due
  <2>3. history # <<>> => history[Len(history)] <= Due
    BY <1>d DEF Seams, HistoryGrows, Due
  <2>4. Greeted(p)' /\ Joined(p)'
    BY <2>1, <2>2, <2>3 DEF Greeted, Joined, Seams, HistoryGrows, TypeOK
  <2>. QED  BY <2>1, <2>2, <2>4, SeamsStay DEF Seams, HistoryGrows
<1>11. ASSUME NEW p \in Pages, Join(p) PROVE Seams'
  <2>1. /\ conn[p] = "greeted" /\ conn'[p] = "joined"
        /\ \A q \in Pages : q # p => conn'[q] = conn[q]
        /\ UNCHANGED <<hub, history, queue, trace, count>>
    BY <1>11 DEF Join, TypeOK, poller, page
  <2>2. Due' = Due
    BY <2>1 DEF Due
  <2>3. PICK h \in Traces, u \in 0..MaxChanges :
           queue[p] = <<Hello(h, u)>> /\ Irregular(h) = {} /\ (h # <<>> => h[Len(h)] <= Due)
    BY <2>1 DEF Seams, Greeted
  <2>4. Follows(h, Due)
    <3>1. \A i \in 1..(Len(h) - 1) : h[i] <= h[i + 1]
      <4>1. h \in Seq(Nat)
        BY TracesAre
      <4>2. \A i \in 1..(Len(h) - 1) : h[i] \in Nat /\ h[i + 1] = h[i] + 1
        BY <2>3, <4>1 DEF Irregular
      <4>. QED  BY <4>2
    <3>. QED  BY <2>3, <3>1 DEF Follows, Seamed
  <2>5. Continues(queue[p], trace[p], Due)
    <3>. DEFINE q == <<Hello(h, u)>>
                d == Due
                e == [i \in 0..Len(q) |-> d]
    <3>1. Len(q) = 1 /\ q # <<>> /\ q[1].type = "hello" /\ q[1].history = h
      BY DEF Hello
    <3>2. e \in [0..Len(q) -> Nat] /\ e[0] = d /\ e[1] = d
      BY <1>d, <3>1
    <3>3. Expects(q, e, d)
      <4>. HIDE DEF q, d, e
      <4>1. \A i \in 1..Len(q) : i = 1 /\ i - 1 = 0
        BY <3>1
      <4>. QED  BY <3>1, <3>2, <4>1 DEF Expects
    <3>4. Base(q, trace[p]) = h
      BY <3>1 DEF Base
    <3>5. Continues(q, trace[p], d)
      <4>. HIDE DEF q, e
      <4>. QED  BY <2>4, <3>2, <3>3, <3>4 DEF Continues
    <3>. QED  BY <2>3, <3>5
  <2>6. Greeted(p)' /\ Joined(p)'
    BY <2>1, <2>2, <2>5 DEF Greeted, Joined
  <2>. QED  BY <2>1, <2>2, <2>6, SeamsStay DEF Seams, HistoryGrows
<1>12. ASSUME NEW p \in Pages, Deliver(p) PROVE Seams'
  <2>. DEFINE q == queue[p]
              t == trace[p]
              d == Due
              u == trace'[p]
  <2>1. /\ conn[p] = "joined" /\ q # <<>> /\ queue'[p] = Tail(q)
        /\ \A r \in Pages : r # p => queue'[r] = queue[r] /\ trace'[r] = trace[r]
        /\ UNCHANGED <<hub, history, conn, count>>
    BY <1>12 DEF Deliver, TypeOK, poller, page
  <2>2. Due' = Due
    BY <2>1 DEF Due
  <2>3. (CASE Head(q).type = "hello" -> u = Head(q).history
           [] Head(q).type = "host" -> u = Append(Newest(t, HistoryLen - 1), Head(q).sample)
           [] OTHER -> u = t)
    <3>1. CASE Head(q).type = "hello"
      BY <1>12, <3>1 DEF Deliver, TypeOK
    <3>2. CASE Head(q).type = "host"
      BY <1>12, <3>2 DEF Deliver, TypeOK
    <3>3. CASE Head(q).type # "hello" /\ Head(q).type # "host"
      BY <1>12, <3>3 DEF Deliver, TypeOK, page
    <3>. QED  BY <3>1, <3>2, <3>3
  <2>4. q \in Seq(Messages) /\ t \in Seq(Nat) /\ d \in Nat /\ Continues(q, t, d)
    BY <1>d, <2>1, TracesAre DEF TypeOK, Seams, Joined
  <2>5. Continues(Tail(q), u, d) /\ Seamed(u)
    <3>. HIDE DEF q, t, d, u
    <3>. QED  BY <2>1, <2>3, <2>4, TailContinues
  <2>6. Seamed(trace[p])' /\ Greeted(p)' /\ Joined(p)'
    BY <2>1, <2>2, <2>5 DEF Greeted, Joined, Seamed, Irregular
  <2>7. ASSUME NEW r \in Pages, r # p
        PROVE  Seamed(trace[r])' /\ Greeted(r)' /\ Joined(r)'
    BY <2>1, <2>2, <2>7 DEF Seams, Greeted, Joined, Seamed, Irregular
  <2>8. HistoryGrows'
    BY <2>1 DEF Seams, HistoryGrows
  <2>. QED  BY <2>6, <2>7, <2>8 DEF Seams
<1>13. ASSUME NEW p \in Pages, Chatter(p) PROVE Seams'
  <2>. DEFINE q == queue[p]
              t == trace[p]
              d == Due
  <2>1. /\ conn[p] = "joined" /\ queue'[p] = Append(q, Crowd)
        /\ \A r \in Pages : r # p => queue'[r] = queue[r]
        /\ UNCHANGED <<hub, history, conn, trace, count>>
    BY <1>13 DEF Chatter, TypeOK, poller, page
  <2>2. Due' = Due
    BY <2>1 DEF Due
  <2>3. q \in Seq(Messages) /\ d \in Nat /\ Continues(q, t, d)
    BY <1>d, <2>1 DEF TypeOK, Seams, Joined
  <2>4. Crowd \in Messages /\ Crowd.type # "hello" /\ Crowd.type # "host"
    BY MessagesAre DEF Crowd
  <2>5. Continues(Append(q, Crowd), t, d)
    <3>. HIDE DEF q, t, d
    <3>. QED  BY <2>3, <2>4, AppendContinues
  <2>6. Greeted(p)' /\ Joined(p)'
    BY <2>1, <2>2, <2>5 DEF Greeted, Joined
  <2>. QED  BY <2>1, <2>2, <2>6, SeamsStay DEF Seams, HistoryGrows
<1>14. ASSUME NEW p \in Pages, Lose(p) PROVE Seams'
  <2>1. /\ conn'[p] = "leaving"
        /\ \A q \in Pages : q # p => conn'[q] = conn[q] /\ queue'[q] = queue[q]
        /\ UNCHANGED <<hub, history, trace, count>>
    BY <1>14 DEF Lose, TypeOK, poller, page
  <2>. QED  BY <2>1, SeamsStay DEF Seams, HistoryGrows, Due, Greeted, Joined
<1>15. ASSUME NEW p \in Pages, Remove(p) PROVE Seams'
  <2>1. /\ conn'[p] = "none"
        /\ \A q \in Pages : q # p => conn'[q] = conn[q]
        /\ UNCHANGED <<hub, history, queue, trace, count>>
    BY <1>15 DEF Remove, TypeOK, poller, page
  <2>. QED  BY <2>1, SeamsStay DEF Seams, HistoryGrows, Due, Greeted, Joined
<1>16. CASE Change
  BY <1>16, SeamsStay DEF Change, poller, page, Due, Seams, HistoryGrows
<1>17. CASE Restart
  <2>1. /\ hub'.pc = "listing" /\ history' = <<>> /\ UNCHANGED trace
        /\ \A p \in Pages : conn'[p] = "none"
    BY <1>17 DEF Restart, StartPoll, page
  <2>2. HistoryGrows'
    BY <2>1 DEF HistoryGrows, Irregular
  <2>. QED  BY <2>1, <2>2 DEF Seams, Greeted, Joined
<1>18. CASE UNCHANGED vars
  BY <1>18, SeamsStay DEF vars, Due, Seams, HistoryGrows
<1>. QED
  BY <1>1, <1>2, <1>3, <1>4, <1>5, <1>6, <1>7, <1>8, <1>9, <1>10, <1>11, <1>12,
     <1>13, <1>14, <1>15, <1>16, <1>17, <1>18 DEF Next, Poll, Sample

\* Whatever page, connection and restart: the trace a page draws is in order,
\* and has at most one place where a sample is missing or twice.
THEOREM TracesHaveOneSeam == Spec => []TraceHasOneSeam
<1>1. Init => SeamInv
  BY TypeInit, SeamInit DEF SeamInv
<1>2. SeamInv /\ [Next]_vars => SeamInv'
  BY TypeNext, SeamNext DEF SeamInv
<1>3. SeamInv => TraceHasOneSeam
  BY SeamedIsOneSeam DEF SeamInv, Seams, Seamed, TraceHasOneSeam
<1>. QED  BY <1>1, <1>2, <1>3, PTL DEF Spec

=============================================================================
