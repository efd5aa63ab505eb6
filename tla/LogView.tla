------------------------------ MODULE LogView -------------------------------
(***************************************************************************)
(* A log pane and the stream behind it: web/src/components/LogPane.svelte, *)
(* web/src/lib/live.svelte.ts and the server's side of one unit's log      *)
(* (agent/internal/api/ws.go; its queue, limits and cleanup are the        *)
(* subject of LogStreams).                                                 *)
(*                                                                         *)
(* Messages name the unit only, not the stream they come from: a stream    *)
(* that was told to stop can still have a batch, or the error its          *)
(* cancelled open returned, on the way to the pane that took its place.    *)
(* Losing the socket loses what is in transit and ends its streams; the    *)
(* page connects again and asks for the logs of the panes it shows.        *)
(*                                                                         *)
(* Abstractions.  One unit (messages of a unit without a handler are       *)
(* dropped by the page); a line is its position in the unit's log; KEEP,   *)
(* the pane's limit of 5000 lines, is not reached.                         *)
(***************************************************************************)
EXTENDS Integers, Sequences, SequencesExt

CONSTANTS
  Streams,    \* goroutines of one connection
  NoStream,   \* no entry for the unit in cl.subs
  TailLen,       \* lines of history a stream starts with (500 in the code)
  MaxLines,   \* bound on the log's length
  MaxOpens,   \* bound on how often the user opens the pane
  MaxDrops    \* bound on how often the socket is lost

LogViewAssumption ==
  /\ NoStream \notin Streams
  /\ TailLen \in Nat \ {0} /\ MaxLines \in Nat /\ MaxOpens \in Nat /\ MaxDrops \in Nat

VARIABLES
  written,    \* lines in the unit's log
  pane,       \* "closed", "waiting" (the 180 ms debounce) or "open" (has a handler)
  shown,      \* the pane's lines
  ended,      \* the pane says that the stream ended
  socket,     \* "open" or "down"
  up,         \* ops on their way to the server
  down,       \* messages on their way to the page
  sub,        \* the unit's entry in cl.subs
  streams,    \* the goroutines: pc, stopped, first and next line
  opens, drops, \* how often the pane was opened, the socket lost
  late        \* history: a stopped stream of this connection still queued a batch

page   == <<pane, shown, ended>>
bounds == <<opens, drops, late>>
vars   == <<written, page, socket, up, down, sub, streams, bounds>>

Idle   == [pc |-> "none", stopped |-> FALSE, first |-> 1, next |-> 1]
Fresh  == [Idle EXCEPT !.pc = "opening"]
Lines(from, to) == [type |-> "logs", from |-> from, to |-> to]
End    == [type |-> "logs_end"]

-----------------------------------------------------------------------------
(* The page.                                                               *)

SendUp(op) == up' = IF socket = "open" THEN Append(up, op) ELSE up

\* A unit is selected, or "Reconnect" pressed: LogPane's effect starts over.
OpenPane ==
  /\ pane = "closed" /\ opens < MaxOpens
  /\ pane' = "waiting" /\ shown' = <<>> /\ ended' = FALSE
  /\ opens' = opens + 1
  /\ UNCHANGED <<written, socket, up, down, sub, streams, drops, late>>

\* The debounce fires: live.subscribeLogs.
SubscribeLogs ==
  /\ pane = "waiting"
  /\ pane' = "open"
  /\ SendUp("logs")
  /\ UNCHANGED <<written, shown, ended, socket, down, sub, streams, bounds>>

\* The effect's cleanup: the timer is cleared or the stream stopped.
ClosePane ==
  /\ pane # "closed"
  /\ pane' = "closed"
  /\ IF pane = "open" THEN SendUp("unlogs") ELSE UNCHANGED up
  /\ UNCHANGED <<written, shown, ended, socket, down, sub, streams, bounds>>

\* Mutant of Receive: a batch replaces what is shown.
MReceive ==
  /\ down # <<>>
  /\ down' = Tail(down)
  /\ IF pane # "open"
     THEN UNCHANGED <<shown, ended>>
     ELSE \/ /\ Head(down).type = "logs"
             /\ shown' = [i \in 1 .. Head(down).to - Head(down).from + 1 |-> Head(down).from + i - 1]
             /\ ended' = FALSE
          \/ /\ Head(down).type = "logs_end"
             /\ ended' = TRUE
             /\ UNCHANGED shown
  /\ UNCHANGED <<written, pane, socket, up, sub, streams, bounds>>

\* onmessage: onLines appends and clears ended, onEnd sets it.
Receive ==
  /\ down # <<>>
  /\ down' = Tail(down)
  /\ IF pane # "open"
     THEN UNCHANGED <<shown, ended>>
     ELSE \/ /\ Head(down).type = "logs"
             /\ shown' = shown \o [i \in 1 .. Head(down).to - Head(down).from + 1 |-> Head(down).from + i - 1]
             /\ ended' = FALSE
          \/ /\ Head(down).type = "logs_end"
             /\ ended' = TRUE
             /\ UNCHANGED shown
  /\ UNCHANGED <<written, pane, socket, up, sub, streams, bounds>>

\* onclose: the timer will open a new socket.
LoseSocket ==
  /\ socket = "open" /\ drops < MaxDrops
  /\ socket' = "down" /\ up' = <<>> /\ down' = <<>>
  /\ sub' = NoStream /\ streams' = [s \in Streams |-> Idle]
  /\ drops' = drops + 1 /\ late' = FALSE
  /\ UNCHANGED <<written, page, opens>>

\* Mutant of Reconnect: the streams are not asked for again.
MReconnect ==
  /\ socket = "down"
  /\ socket' = "open"
  /\ UNCHANGED <<written, page, up, down, sub, streams, bounds>>

\* onopen: resume the log streams.
Reconnect ==
  /\ socket = "down"
  /\ socket' = "open"
  /\ up' = IF pane = "open" THEN <<"logs">> ELSE <<>>
  /\ UNCHANGED <<written, page, down, sub, streams, bounds>>

-----------------------------------------------------------------------------
(* The server.                                                             *)

Stop(ss) == [s \in Streams |-> IF s = sub THEN [ss[s] EXCEPT !.stopped = TRUE] ELSE ss[s]]

HandleLogs(s) ==
  /\ up # <<>> /\ Head(up) = "logs"
  /\ streams[s].pc = "none"
  /\ up' = Tail(up)
  /\ streams' = [Stop(streams) EXCEPT ![s] = Fresh]
  /\ sub' = s
  /\ UNCHANGED <<written, page, socket, down, bounds>>

HandleUnlogs ==
  /\ up # <<>> /\ Head(up) = "unlogs"
  /\ up' = Tail(up)
  /\ streams' = Stop(streams)
  /\ sub' = NoStream
  /\ UNCHANGED <<written, page, socket, down, bounds>>

\* The goroutine ends: it gives up its entry if that is still its own.
Ended(s) ==
  /\ streams' = [streams EXCEPT ![s] = Idle]
  /\ sub' = IF sub = s THEN NoStream ELSE sub

\* Mutant of OpenLog: a log shorter than the tail is not thought of.
MOpenLog(s) ==
  /\ streams[s].pc = "opening"
  /\ LET start == written - TailLen + 1
     IN  streams' = [streams EXCEPT ![s].pc = "running", ![s].first = start, ![s].next = start]
  /\ UNCHANGED <<written, page, socket, up, down, sub, bounds>>

\* Registry.Logs opens the log at its last TailLen lines.
OpenLog(s) ==
  /\ streams[s].pc = "opening"
  /\ LET start == IF written > TailLen THEN written - TailLen + 1 ELSE 1
     IN  streams' = [streams EXCEPT ![s].pc = "running", ![s].first = start, ![s].next = start]
  /\ UNCHANGED <<written, page, socket, up, down, sub, bounds>>

\* Registry.Logs fails, for instance because the stream was stopped meanwhile:
\* logs_end goes out either way, on the connection's context.
OpenFails(s) ==
  /\ streams[s].pc = "opening"
  /\ down' = Append(down, End)
  /\ Ended(s)
  /\ UNCHANGED <<written, page, socket, up, bounds>>

\* flush: also of a stopped stream, whose select can still pick the queue.
Flush(s) ==
  /\ streams[s].pc = "running"
  /\ streams[s].next <= written
  /\ down' = Append(down, Lines(streams[s].next, written))
  /\ streams' = [streams EXCEPT ![s].next = written + 1]
  /\ late' = (late \/ streams[s].stopped)
  /\ UNCHANGED <<written, page, socket, up, sub, opens, drops>>

\* The unit's log ends: everything was flushed and the stream not stopped.
LogEnds(s) ==
  /\ streams[s].pc = "running" /\ ~streams[s].stopped
  /\ streams[s].next > written
  /\ down' = Append(down, End)
  /\ Ended(s)
  /\ UNCHANGED <<written, page, socket, up, bounds>>

\* The stopped stream sees that it was.
Exit(s) ==
  /\ streams[s].pc = "running" /\ streams[s].stopped
  /\ Ended(s)
  /\ UNCHANGED <<written, page, socket, up, down, bounds>>

WriteLine ==
  /\ written < MaxLines
  /\ written' = written + 1
  /\ UNCHANGED <<page, socket, up, down, sub, streams, bounds>>

-----------------------------------------------------------------------------
Init ==
  /\ written = 0
  /\ pane = "closed" /\ shown = <<>> /\ ended = FALSE
  /\ socket = "down" /\ up = <<>> /\ down = <<>>
  /\ sub = NoStream /\ streams = [s \in Streams |-> Idle]
  /\ opens = 0 /\ drops = 0 /\ late = FALSE

Next ==
  \/ OpenPane \/ SubscribeLogs \/ ClosePane \/ Receive \/ LoseSocket \/ Reconnect
  \/ \E s \in Streams : HandleLogs(s)
  \/ HandleUnlogs
  \/ \E s \in Streams : OpenLog(s) \/ OpenFails(s) \/ Flush(s) \/ LogEnds(s) \/ Exit(s)
  \/ WriteLine

Spec == Init /\ [][Next]_vars

\* Timers fire, messages arrive and goroutines run.  Nothing is assumed of the
\* user, of the network's failures or of the unit that writes the log.
Fairness ==
  /\ WF_vars(SubscribeLogs) /\ WF_vars(Receive) /\ WF_vars(Reconnect)
  /\ WF_vars(HandleUnlogs) /\ WF_vars(\E s \in Streams : HandleLogs(s))
  /\ \A s \in Streams : WF_vars(OpenLog(s) \/ OpenFails(s)) /\ WF_vars(Flush(s)) /\ WF_vars(Exit(s))

FairSpec == Spec /\ Fairness

-----------------------------------------------------------------------------
(* Properties.                                                             *)

Message == {End} \cup {Lines(i, j) : i \in 1 .. MaxLines, j \in 1 .. MaxLines}

\* Every variable has its type.
TypeOK ==
  /\ written \in 0 .. MaxLines
  /\ pane \in {"closed", "waiting", "open"} /\ ended \in BOOLEAN
  /\ shown \in Seq(1 .. MaxLines)
  /\ socket \in {"open", "down"}
  /\ up \in Seq({"logs", "unlogs"}) /\ down \in Seq(Message)
  /\ sub \in Streams \cup {NoStream}
  /\ streams \in [Streams -> [pc : {"none", "opening", "running"}, stopped : BOOLEAN,
                              first : 1 .. MaxLines + 1, next : 1 .. MaxLines + 1]]
  /\ opens \in 0 .. MaxOpens /\ drops \in 0 .. MaxDrops /\ late \in BOOLEAN

InTransit == {n \in 1 .. MaxLines : \E i \in DOMAIN down :
                down[i].type = "logs" /\ n \in down[i].from .. down[i].to}

\* Once the server has caught up with what the page asked for, every line the
\* pane's stream has sent is on the screen or on its way there, whatever
\* streams, panes and sockets came before it.
NothingLost ==
  pane = "open" /\ socket = "open" /\ up = <<>> /\ sub # NoStream =>
    streams[sub].first .. (streams[sub].next - 1) \subseteq ToSet(shown) \cup InTransit

\* A pane that stays open on a socket that stays up ends up showing the newest
\* line, or says that its stream has ended: also after it was opened again, or
\* the socket came back.  A late batch of a stopped stream can undo the second
\* half: it clears ended, and the pane "follows" a stream that is gone.
UpToDate == ended \/ (written > 0 => written \in ToSet(shown))
Follows  == <>[](pane = "open" /\ socket = "open" /\ ~late) => <>[]UpToDate

\* live.svelte.ts:72 says of a reconnect that lines already shown are replaced
\* by the fresh tail: no line is on the screen twice.
ShownOnce == IsInjective(shown)
=============================================================================
