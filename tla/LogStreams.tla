----------------------------- MODULE LogStreams -----------------------------
(***************************************************************************)
(* The log streams of one websocket connection: agent/internal/api/ws.go.  *)
(*                                                                         *)
(* The read loop takes the browser's "logs" and "unlogs" messages; each    *)
(* accepted "logs" starts a goroutine that opens the unit's log, batches   *)
(* its lines and queues them on cl.send.  cl.subs names the stream of each *)
(* unit and is guarded by cl.mu; the goroutine removes its own entry when  *)
(* it ends.  The write loop drains cl.send; broadcasts share the queue.    *)
(*                                                                         *)
(* Abstractions.  Message contents are left out: the queue is its length   *)
(* and a batch its number of lines.  Goroutines are named by Streams and a *)
(* name is used again once its goroutine has ended.                        *)
(***************************************************************************)
EXTENDS Integers, FiniteSets

CONSTANTS
  Units,      \* unit ids a client may name
  Streams,    \* names of goroutines: a bound on how many exist at once
  NoStream,   \* no entry in cl.subs
  NoUnit,     \* the unit of a name no goroutine has
  MaxSubs,    \* maxLogSubs (4 in the code)
  Cap,        \* capacity of cl.send (128 in the code)
  BatchMax    \* logBatchMax (500 in the code)

ASSUME StreamsAssumption ==
  /\ IsFiniteSet(Units)
  /\ NoStream \notin Streams
  /\ MaxSubs \in Nat /\ Cap \in Nat \ {0} /\ BatchMax \in Nat \ {0}

VARIABLES
  reader,     \* the read loop of ws()
  cancelled,  \* the connection's ctx is cancelled
  queued,     \* number of messages in cl.send
  subs,       \* cl.subs
  pc,         \* where each stream's goroutine is
  unit,       \* the unit of each goroutine
  told,       \* its own ctx (sctx) was cancelled by stop()
  batch       \* lines it has not queued yet

clientVars == <<reader, cancelled, queued, subs, pc, unit, told, batch>>

connection == <<reader, cancelled, queued>>
stream     == <<pc, unit, told, batch>>

Done(s) == told[s] \/ cancelled           \* sctx.Done() is closed

\* cl.subs has an entry for the unit.
Subscribed == {u \in Units : subs[u] # NoStream}

-----------------------------------------------------------------------------
(* sendEnvelope: queue the message, or give up when the context it was     *)
(* given ends, or after 5 seconds on a full queue, which drops the client. *)

Queue    == /\ queued < Cap
            /\ queued' = queued + 1
            /\ UNCHANGED cancelled
GiveUp(ended) == ended /\ UNCHANGED <<queued, cancelled>>
TimeOut  == /\ queued = Cap
            /\ cancelled' = TRUE
            /\ UNCHANGED queued

-----------------------------------------------------------------------------
(* The read loop.                                                          *)

\* Stop whatever stream the unit has; the entry goes, the goroutine is told.
StopUnit(u) == told' = [s \in Streams |-> told[s] \/ s = subs[u]]

\* "logs": replace the unit's stream, unless MaxSubs others are open.
Others(u) == Subscribed \ {u}

Subscribe(u, s) ==
  /\ reader = "reading" /\ ~cancelled
  /\ pc[s] = "none"
  /\ Cardinality(Others(u)) < MaxSubs
  /\ told' = [t \in Streams |-> t # s /\ (told[t] \/ t = subs[u])]
  /\ subs' = [subs EXCEPT ![u] = s]
  /\ pc' = [pc EXCEPT ![s] = "opening"]
  /\ unit' = [unit EXCEPT ![s] = u]
  /\ UNCHANGED <<connection, batch>>

SubscribeTooMany(u) ==
  /\ reader = "reading" /\ ~cancelled
  /\ Cardinality(Others(u)) >= MaxSubs
  /\ StopUnit(u)
  /\ subs' = [subs EXCEPT ![u] = NoStream]
  /\ reader' = "refusing"
  /\ UNCHANGED <<cancelled, queued, pc, unit, batch>>

\* Mutant of Refuse: the read loop waits for room and for nothing else.
MRefuse ==
  /\ reader = "refusing"
  /\ reader' = "reading"
  /\ Queue
  /\ UNCHANGED <<subs, stream>>

\* "Too many open log streams": the read loop itself waits for the queue.
Refuse ==
  /\ reader = "refusing"
  /\ reader' = "reading"
  /\ Queue \/ GiveUp(cancelled) \/ TimeOut
  /\ UNCHANGED <<subs, stream>>

\* "unlogs"
Unsubscribe(u) ==
  /\ reader = "reading" /\ ~cancelled
  /\ subs[u] # NoStream
  /\ StopUnit(u)
  /\ subs' = [subs EXCEPT ![u] = NoStream]
  /\ UNCHANGED <<connection, pc, unit, batch>>

\* conn.Read fails: the peer is gone, or ctx was cancelled.  Every stream in
\* cl.subs is stopped; the entries are left to the goroutines.
Leave ==
  /\ reader = "reading"
  /\ reader' = "leaving"
  /\ told' = [s \in Streams |-> told[s] \/ \E u \in Units : s = subs[u]]
  /\ UNCHANGED <<cancelled, queued, subs, pc, unit, batch>>

\* ws() returns: its deferred calls leave the hub and cancel ctx.
Return ==
  /\ reader = "leaving"
  /\ reader' = "closed"
  /\ cancelled' = TRUE
  /\ UNCHANGED <<queued, subs, stream>>

-----------------------------------------------------------------------------
(* The write loop, the session watch and the hub.                          *)

Write ==
  /\ ~cancelled
  /\ queued > 0
  /\ queued' = queued - 1
  /\ UNCHANGED <<reader, cancelled, subs, stream>>

\* A write or a ping fails, or watchSession finds the session gone.
Drop ==
  /\ ~cancelled
  /\ cancelled' = TRUE
  /\ UNCHANGED <<reader, queued, subs, stream>>

\* Hub.Broadcast and trySend: a client with a full queue is dropped.
Broadcast ==
  /\ reader # "closed"
  /\ Queue \/ TimeOut
  /\ UNCHANGED <<reader, subs, stream>>

-----------------------------------------------------------------------------
(* A stream's goroutine.                                                   *)

Goto(s, where) == pc' = [pc EXCEPT ![s] = where]

\* Registry.Logs returns a channel, or an error: also because sctx ended.
OpenLog(s) ==
  /\ pc[s] = "opening"
  /\ Goto(s, "running") \/ Goto(s, "ending")
  /\ UNCHANGED <<connection, subs, unit, told, batch>>

\* A line arrives; a full batch is flushed at once.
Line(s) ==
  /\ pc[s] = "running"
  /\ batch' = [batch EXCEPT ![s] = @ + 1]
  /\ Goto(s, IF batch[s] + 1 >= BatchMax THEN "flushing" ELSE "running")
  /\ UNCHANGED <<connection, subs, unit, told>>

\* The ticker; an empty batch needs no flush.
FlushTick(s) ==
  /\ pc[s] = "running"
  /\ batch[s] > 0
  /\ Goto(s, "flushing")
  /\ UNCHANGED <<connection, subs, unit, told, batch>>

\* The channel is closed: flush what is left, then say so.
LogEnds(s) ==
  /\ pc[s] = "running"
  /\ Goto(s, IF batch[s] > 0 THEN "lastflush" ELSE "ended")
  /\ UNCHANGED <<connection, subs, unit, told, batch>>

\* Mutant of Notice: the goroutine watches the connection's context only.
MNotice(s) ==
  /\ pc[s] = "running"
  /\ cancelled
  /\ Goto(s, "cleanup")
  /\ UNCHANGED <<connection, subs, unit, told, batch>>

\* select takes the sctx.Done() case.
Notice(s) ==
  /\ pc[s] = "running"
  /\ Done(s)
  /\ Goto(s, "cleanup")
  /\ UNCHANGED <<connection, subs, unit, told, batch>>

\* flush: a failed send ends the goroutine, except after the last line.
Flush(s) ==
  /\ pc[s] \in {"flushing", "lastflush"}
  /\ batch' = [batch EXCEPT ![s] = 0]
  /\ \/ Queue /\ Goto(s, IF pc[s] = "flushing" THEN "running" ELSE "ended")
     \/ (GiveUp(Done(s)) \/ TimeOut) /\ Goto(s, IF pc[s] = "flushing" THEN "cleanup" ELSE "ended")
  /\ UNCHANGED <<reader, subs, unit, told>>

\* A stream that was stopped does not report its end.
CheckEnd(s) ==
  /\ pc[s] = "ended"
  /\ Goto(s, IF Done(s) THEN "cleanup" ELSE "ending")
  /\ UNCHANGED <<connection, subs, unit, told, batch>>

\* logs_end, on the connection's ctx.
SendEnd(s) ==
  /\ pc[s] = "ending"
  /\ Queue \/ GiveUp(cancelled) \/ TimeOut
  /\ Goto(s, "cleanup")
  /\ UNCHANGED <<reader, subs, unit, told, batch>>

\* Mutant of Cleanup: the unit's entry is removed, whoever it names.
MCleanup(s) ==
  /\ pc[s] = "cleanup"
  /\ Goto(s, "none")
  /\ told' = [told EXCEPT ![s] = TRUE]
  /\ subs' = [subs EXCEPT ![unit[s]] = NoStream]
  /\ batch' = [batch EXCEPT ![s] = 0]
  /\ unit' = [unit EXCEPT ![s] = NoUnit]
  /\ UNCHANGED connection

\* The deferred cleanup: an entry that a newer stream took over is not its own.
Cleanup(s) ==
  /\ pc[s] = "cleanup"
  /\ Goto(s, "none")
  /\ told' = [told EXCEPT ![s] = TRUE]
  /\ subs' = IF subs[unit[s]] = s THEN [subs EXCEPT ![unit[s]] = NoStream] ELSE subs
  /\ batch' = [batch EXCEPT ![s] = 0]
  /\ unit' = [unit EXCEPT ![s] = NoUnit]
  /\ UNCHANGED connection

-----------------------------------------------------------------------------
ClientInit ==
  /\ reader = "reading" /\ cancelled = FALSE
  /\ queued = 1                                         \* hello
  /\ subs = [u \in Units |-> NoStream]
  /\ pc = [s \in Streams |-> "none"]
  /\ unit = [s \in Streams |-> NoUnit]
  /\ told = [s \in Streams |-> TRUE]
  /\ batch = [s \in Streams |-> 0]

StreamStep(s) == \/ OpenLog(s) \/ Line(s) \/ FlushTick(s) \/ LogEnds(s) \/ Notice(s)
                 \/ Flush(s) \/ CheckEnd(s) \/ SendEnd(s) \/ Cleanup(s)

ClientNext ==
  \/ \E u \in Units, s \in Streams : Subscribe(u, s)
  \/ \E u \in Units : SubscribeTooMany(u)
  \/ \E u \in Units : Unsubscribe(u)
  \/ Refuse \/ Leave \/ Return
  \/ Write \/ Drop \/ Broadcast
  \/ \E s \in Streams : StreamStep(s)

ClientSpec == ClientInit /\ [][ClientNext]_clientVars

\* Goroutines run, the sends they block in time out, and a read on a cancelled
\* context fails.  Nothing is assumed of lines, of logs that are open, of the
\* browser, of the writer or of a Registry.Logs whose context is still good.
\* Notice needs strong fairness: a stopped stream that still has lines to take
\* reaches its select again and again, and Go picks among the ready cases at
\* random.
ClientFairness ==
  /\ WF_clientVars(Refuse) /\ WF_clientVars(cancelled /\ Leave) /\ WF_clientVars(Return)
  /\ \A s \in Streams :
       /\ WF_clientVars(Done(s) /\ OpenLog(s))
       /\ WF_clientVars(FlushTick(s)) /\ WF_clientVars(Flush(s))
       /\ WF_clientVars(CheckEnd(s)) /\ WF_clientVars(SendEnd(s)) /\ WF_clientVars(Cleanup(s))
       /\ SF_clientVars(Notice(s))

-----------------------------------------------------------------------------
(* Properties.                                                             *)

Readers == {"reading", "refusing", "leaving", "closed"}
Places  == {"none", "opening", "running", "flushing", "lastflush", "ended", "ending", "cleanup"}

\* Every variable has its type; the queue and the batches have their limits.
ClientTypeOK ==
  /\ reader \in Readers /\ cancelled \in BOOLEAN
  /\ queued \in 0 .. Cap
  /\ subs \in [Units -> Streams \cup {NoStream}]
  /\ pc \in [Streams -> Places]
  /\ unit \in [Streams -> Units \cup {NoUnit}]
  /\ told \in [Streams -> BOOLEAN]
  /\ batch \in [Streams -> 0 .. BatchMax]
  /\ \A s \in Streams : batch[s] = BatchMax => pc[s] = "flushing"

Running == {s \in Streams : pc[s] # "none"}
Live    == {s \in Running : ~told[s]}

\* cl.subs and the goroutines agree, though each side changes it on its own
\* time: an unstopped stream is the one its unit's entry names, so that "unlogs"
\* and the end of the connection reach it; and an entry names a goroutine that
\* still runs for that unit, so that no slot is taken for good.
StreamsRegistered ==
  /\ \A s \in Live : subs[unit[s]] = s
  /\ \A u \in Units : subs[u] # NoStream => subs[u] \in Running /\ unit[subs[u]] = u

\* A client never has more than MaxSubs streams that nobody told to stop,
\* whatever the order in which it replaces, stops and loses them.
StreamCap == Cardinality(Live) <= MaxSubs

\* A stream that was stopped, or whose connection ended, does end.
StopEnds == \A s \in Streams : (s \in Running /\ Done(s)) ~> s \notin Running

\* A client that was dropped (slow, signed out, or gone) leaves the hub.
DroppedLeaves == cancelled ~> reader = "closed"
=============================================================================
