-------------------------------- MODULE Hub ---------------------------------
(***************************************************************************)
(* The hub and the pages it feeds: agent/internal/api/hub.go, the hello in *)
(* ws.go, and what web/src/lib/live.svelte.ts does with the messages.      *)
(*                                                                         *)
(* One goroutine polls: units when a ticker fires and somebody is there,   *)
(* or when an action asked for it (refresh); host statistics on a ticker   *)
(* of their own.  A poll stores its result, and only then broadcasts it.   *)
(* A connection starts with a hello made of what is stored, and is added   *)
(* to the hub after that.                                                  *)
(*                                                                         *)
(* Abstractions.  The units' state is the number of changes it has gone    *)
(* through (0 is the empty list a hub starts with), and an unavailable     *)
(* provider is one such state: ListAll then returns its error instead of   *)
(* its units, and the poll goes on as ever.  A host sample is its number;  *)
(* a failed Collect leaves no trace and is no step.  A page is one         *)
(* connection at a time: that its successor can overlap with it on the     *)
(* server would only make the hub poll more.  Audit and log messages share *)
(* the queue as Crowd.                                                     *)
(***************************************************************************)
EXTENDS Integers, Sequences, FiniteSets

CONSTANTS
  Pages,        \* pages open in browsers
  HistoryLen,   \* historyLen, and HISTORY of the page (150 in the code)
  QueueCap,     \* capacity of a client's send queue (128 in the code)
  MaxChanges,   \* bound: changes of the units' state
  MaxSamples,   \* bound: host samples taken
  MaxRefreshes, \* bound: calls of RefreshUnits
  MaxRestarts   \* bound: restarts of dashd

ASSUME HubAssumption ==
  /\ HistoryLen \in Nat \ {0} /\ QueueCap \in Nat \ {0}
  /\ MaxChanges \in Nat \ {0}
  /\ MaxSamples \in Nat /\ MaxRefreshes \in Nat /\ MaxRestarts \in Nat

VARIABLES
  world,      \* what the providers would answer now
  hub,        \* the goroutine of Run: where it is, and what its poll read
  units,      \* h.units
  history,    \* h.history
  refresh,    \* messages in h.refresh, which has room for one
  later,      \* AfterFunc timers of RefreshUnits that are still to fire
  conn,       \* each page's connection
  queue,      \* each connection's messages, from cl.send to the page
  shown,      \* live.units of each page
  trace,      \* live.history of each page
  count,      \* how many samples, refreshes and restarts there were
  asked,      \* history: what the providers would have answered at the last kick
  newest      \* history: the newest units each page has shown

vars == <<world, hub, units, history, refresh, later, conn, queue, shown,
          trace, count, asked, newest>>

poller == <<hub, units, history>>
kicks  == <<refresh, later, asked>>
page   == <<shown, trace, newest>>

\* "joined": in h.clients and served; "leaving": cancelled, but still in it.
ConnStates == {"none", "greeted", "joined", "leaving"}

Clients == {p \in Pages : conn[p] \in {"joined", "leaving"}}    \* h.clients

Hello(h, u) == [type |-> "hello", history |-> h, units |-> u]
Units(u)    == [type |-> "units", units |-> u]
Host(n)     == [type |-> "host", sample |-> n]
Crowd       == [type |-> "other"]

\* The newest n elements of a sequence.
Newest(s, n) == SubSeq(s, IF Len(s) > n THEN Len(s) - n + 1 ELSE 1, Len(s))

-----------------------------------------------------------------------------
(* Broadcast: to everyone in h.clients, all under h.mu; a client whose     *)
(* queue is full is cancelled instead (trySend).                           *)

HasRoom(p) == Len(queue[p]) < QueueCap

\* Mutant of Broadcast: a full queue loses the message, not the client.
MBroadcast(msg) ==
  /\ queue' = [p \in Pages |-> IF conn[p] = "joined" /\ HasRoom(p)
                                 THEN Append(queue[p], msg) ELSE queue[p]]
  /\ UNCHANGED conn

Broadcast(msg) ==
  /\ queue' = [p \in Pages |-> IF conn[p] = "joined"
                                 THEN IF HasRoom(p) THEN Append(queue[p], msg) ELSE <<>>
                                 ELSE queue[p]]
  /\ conn' = [p \in Pages |-> IF conn[p] = "joined" /\ ~HasRoom(p)
                                THEN "leaving" ELSE conn[p]]

-----------------------------------------------------------------------------
(* The hub's goroutine.                                                    *)

StartPoll == hub' = [pc |-> "listing", read |-> 0]

\* Mutant of TickUnits: a single page is not enough.
MTickUnits ==
  /\ hub.pc = "idle" /\ Cardinality(Clients) > 1
  /\ StartPoll
  /\ UNCHANGED <<world, units, history, kicks, conn, queue, page, count>>

\* The ticker: polls only when somebody looks.
TickUnits ==
  /\ hub.pc = "idle" /\ Clients # {}
  /\ StartPoll
  /\ UNCHANGED <<world, units, history, kicks, conn, queue, page, count>>

\* <-h.refresh: polls whether or not somebody looks.
TakeRefresh ==
  /\ hub.pc = "idle" /\ refresh = 1
  /\ refresh' = 0
  /\ StartPoll
  /\ UNCHANGED <<world, units, history, later, asked, conn, queue, page, count>>

\* ListAll: the units' state at some moment while it runs.
ListAll ==
  /\ hub.pc = "listing"
  /\ hub' = [pc |-> "listed", read |-> world]
  /\ UNCHANGED <<world, units, history, kicks, conn, queue, page, count>>

\* Mutant of StoreUnits: the poll's result is broadcast only.
MStoreUnits ==
  /\ hub.pc = "listed"
  /\ hub' = [hub EXCEPT !.pc = "stored"]
  /\ UNCHANGED <<world, units, history, kicks, conn, queue, page, count>>

StoreUnits ==
  /\ hub.pc = "listed"
  /\ units' = hub.read
  /\ hub' = [hub EXCEPT !.pc = "stored"]
  /\ UNCHANGED <<world, history, kicks, conn, queue, page, count>>

SendUnits ==
  /\ hub.pc = "stored"
  /\ Broadcast(Units(hub.read))
  /\ hub' = [pc |-> "idle", read |-> 0]
  /\ UNCHANGED <<world, units, history, kicks, page, count>>

\* pollHost: Collect, then the sample is appended under h.mu ...
PollHost ==
  /\ hub.pc = "idle" /\ count.samples < MaxSamples
  /\ count' = [count EXCEPT !.samples = @ + 1]
  /\ history' = Newest(Append(history, count'.samples), HistoryLen)
  /\ hub' = [pc |-> "sampled", read |-> count'.samples]
  /\ UNCHANGED <<world, units, kicks, conn, queue, page>>

\* ... and broadcast under h.mu again.
SendHost ==
  /\ hub.pc = "sampled"
  /\ Broadcast(Host(hub.read))
  /\ hub' = [pc |-> "idle", read |-> 0]
  /\ UNCHANGED <<world, units, history, kicks, page, count>>

-----------------------------------------------------------------------------
(* RefreshUnits, at the end of every action request: one kick now, two     *)
(* more by timers.  A kick that finds the channel full is dropped.         *)

\* Mutant of Kick: a channel without room, which a hub that polls does not read.
MKick == /\ refresh' = IF hub.pc = "idle" THEN 1 ELSE refresh
         /\ asked' = world

Kick == /\ refresh' = 1
        /\ asked' = world

RefreshUnits ==
  /\ count.refreshes < MaxRefreshes
  /\ count' = [count EXCEPT !.refreshes = @ + 1]
  /\ Kick
  /\ later' = later + 2
  /\ UNCHANGED <<world, poller, conn, queue, page>>

KickLater ==
  /\ later > 0
  /\ Kick
  /\ later' = later - 1
  /\ UNCHANGED <<world, poller, conn, queue, page, count>>

-----------------------------------------------------------------------------
(* Connections.                                                            *)

\* ws(): hello is made of the stored history and units and put into the queue
\* of its own (the two reads are of unrelated data) ...
Greet(p) ==
  /\ conn[p] = "none"
  /\ conn' = [conn EXCEPT ![p] = "greeted"]
  /\ queue' = [queue EXCEPT ![p] = <<Hello(history, units)>>]
  /\ UNCHANGED <<world, poller, kicks, page, count>>

\* ... and then the client is added to the hub.
Join(p) ==
  /\ conn[p] = "greeted"
  /\ conn' = [conn EXCEPT ![p] = "joined"]
  /\ UNCHANGED <<world, poller, kicks, queue, page, count>>

\* The write loop sends and onmessage receives the oldest message.
Deliver(p) ==
  /\ conn[p] = "joined" /\ queue[p] # <<>>
  /\ queue' = [queue EXCEPT ![p] = Tail(@)]
  /\ LET msg == Head(queue[p])
         apply(u) == /\ shown'  = [shown EXCEPT ![p] = u]
                     /\ newest' = [newest EXCEPT ![p] = IF u > @ THEN u ELSE @]
     IN \/ /\ msg.type = "hello"
           /\ apply(msg.units)
           /\ trace' = [trace EXCEPT ![p] = msg.history]
        \/ /\ msg.type = "units"
           /\ apply(msg.units)
           /\ UNCHANGED trace
        \/ /\ msg.type = "host"
           /\ trace' = [trace EXCEPT ![p] =
                          Append(Newest(@, HistoryLen - 1), msg.sample)]
           /\ UNCHANGED <<shown, newest>>
        \/ /\ msg.type = "other"
           /\ UNCHANGED page
  /\ UNCHANGED <<world, poller, kicks, conn, count>>

\* An audit broadcast or a log batch takes a place in the queue.
Chatter(p) ==
  /\ conn[p] = "joined" /\ HasRoom(p)
  /\ queue' = [queue EXCEPT ![p] = Append(@, Crowd)]
  /\ UNCHANGED <<world, poller, kicks, conn, page, count>>

\* The connection breaks: what was under way is lost.  (One that breaks before
\* the client was added is noticed after that.)
Lose(p) ==
  /\ conn[p] = "joined"
  /\ conn' = [conn EXCEPT ![p] = "leaving"]
  /\ queue' = [queue EXCEPT ![p] = <<>>]
  /\ UNCHANGED <<world, poller, kicks, page, count>>

\* ws() returns: deferred Hub.remove.
Remove(p) ==
  /\ conn[p] = "leaving"
  /\ conn' = [conn EXCEPT ![p] = "none"]
  /\ UNCHANGED <<world, poller, kicks, queue, page, count>>

-----------------------------------------------------------------------------
(* The surroundings.                                                       *)

\* The units change, by an action of dashd or on their own.
Change ==
  /\ world < MaxChanges
  /\ world' = world + 1
  /\ UNCHANGED <<poller, kicks, conn, queue, page, count>>

\* dashd starts again with nothing in memory; pages keep what they show.
Restart ==
  /\ count.restarts < MaxRestarts
  /\ count' = [count EXCEPT !.restarts = @ + 1]
  /\ StartPoll
  /\ units' = 0 /\ history' = <<>>
  /\ refresh' = 0 /\ later' = 0 /\ asked' = 0
  /\ conn' = [p \in Pages |-> "none"] /\ queue' = [p \in Pages |-> <<>>]
  /\ UNCHANGED <<world, page>>

-----------------------------------------------------------------------------
\* NewHub, a page that is not connected, and the first state of the units.
AtStart ==
  /\ world = 1 /\ history = <<>>
  /\ refresh = 0 /\ later = 0 /\ asked = 0
  /\ conn = [p \in Pages |-> "none"]
  /\ queue = [p \in Pages |-> <<>>]
  /\ shown = [p \in Pages |-> 0]
  /\ trace = [p \in Pages |-> <<>>]
  /\ newest = [p \in Pages |-> 0]
  /\ count = [samples |-> 0, refreshes |-> 0, restarts |-> 0]

Init == AtStart /\ units = 0 /\ hub = [pc |-> "listing", read |-> 0]     \* Run polls at once

Poll  == TickUnits \/ TakeRefresh \/ ListAll \/ StoreUnits \/ SendUnits
Sample == PollHost \/ SendHost

Next ==
  \/ Poll \/ Sample
  \/ RefreshUnits \/ KickLater
  \/ \E p \in Pages : \/ Greet(p) \/ Join(p) \/ Deliver(p)
                      \/ Chatter(p) \/ Lose(p) \/ Remove(p)
  \/ Change \/ Restart

Spec == Init /\ [][Next]_vars

\* The select of Run chooses at random among what is ready, so the units ticker
\* or the refresh channel is served although host samples come more often; polls
\* end by their timeouts; a connection that holds delivers.  Nothing is assumed
\* of the units, of the network or of how long a page stays.
Fairness ==
  /\ SF_vars(TickUnits \/ TakeRefresh)
  /\ WF_vars(ListAll) /\ WF_vars(StoreUnits) /\ WF_vars(SendUnits) /\ WF_vars(SendHost)
  /\ WF_vars(KickLater)
  /\ \A p \in Pages : WF_vars(Deliver(p))

-----------------------------------------------------------------------------
(* Properties.                                                             *)

Traces == {t \in Seq(1..MaxSamples) : Len(t) <= HistoryLen}

Messages ==
  [type : {"hello"}, history : Traces, units : 0..MaxChanges]
    \cup [type : {"units"}, units : 0..MaxChanges]
    \cup [type : {"host"}, sample : 1..MaxSamples]
    \cup {Crowd}

TypeOK ==
  /\ world \in 1..MaxChanges
  /\ hub \in [pc : {"idle", "listing"}, read : {0}]
              \cup [pc : {"listed", "stored"}, read : 1..MaxChanges]
              \cup [pc : {"sampled"}, read : 1..MaxSamples]
  /\ units \in 0..MaxChanges
  /\ history \in Traces
  /\ refresh \in 0..1 /\ later \in Nat /\ asked \in 0..MaxChanges
  /\ conn \in [Pages -> ConnStates]
  /\ queue \in [Pages -> Seq(Messages)]
  /\ {shown, newest} \subseteq [Pages -> 0..MaxChanges]
  /\ trace \in [Pages -> Traces]
  /\ count \in [samples : 0..MaxSamples, refreshes : 0..MaxRefreshes,
                restarts : 0..MaxRestarts]
  /\ \A p \in Pages : Len(queue[p]) <= QueueCap

\* A page never returns to an older state of the units than it has shown, over
\* reconnects and restarts of dashd; only the empty list of a hub that has not
\* polled since a restart can come in between.  hello reads h.units while a poll
\* may be between its store and its broadcast, and before the client is added.
NeverBack ==
  \A p \in Pages : \/ shown[p] = newest[p]
                   \/ shown[p] = 0 /\ count.restarts > 0

\* A kick is honoured: what is stored is at least as new as the state at the last
\* kick, or the poll under way has not read yet, or has read since the kick, or
\* the channel still holds a kick.  Most kicks are dropped (the channel is full)
\* and many come while a poll runs that began before the action took effect.
KickHonoured ==
  \/ asked <= units
  \/ refresh = 1
  \/ hub.pc = "listing"
  \/ hub.pc = "listed" /\ asked <= hub.read

\* The trace of host samples a page draws is in order and without holes, except
\* at one place: where the hello of its connection ends.  There a sample may be
\* missing (taken before add) or twice (stored, not yet broadcast).
Irregular(t) == {i \in 1..(Len(t) - 1) : t[i + 1] # t[i] + 1}

TraceHasOneSeam ==
  \A p \in Pages :
    /\ \A i \in 1..(Len(trace[p]) - 1) : trace[p][i] <= trace[p][i + 1]
    /\ Cardinality(Irregular(trace[p])) <= 1

\* A page that stays connected comes to show the state of the units, once they
\* stop changing, although nothing tells the hub of a change.
Converges ==
  \A p \in Pages :
    (<>[](conn[p] = "joined") /\ <>[][world' = world]_world) => <>[](shown[p] = world)

=============================================================================
