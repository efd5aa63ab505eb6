----------------------------- MODULE DockerLogs -----------------------------
(***************************************************************************)
(* A container's log as agent/internal/providers/docker/docker.go reads    *)
(* it: an HTTP body that Docker keeps writing to, in frames that carry a   *)
(* piece of stdout or of stderr and are cut anywhere, or as one plain      *)
(* stream when the container has a terminal.                               *)
(*                                                                         *)
(* Abstractions.  A byte is NL or a number of its own; the header and the  *)
(* payload of a frame arrive together, and a frame the connection broke    *)
(* off in counts as not sent; timestamps and control characters are cut    *)
(* out of a line elsewhere (parseLine).                                    *)
(***************************************************************************)
EXTENDS Integers, Sequences, SequencesExt

CONSTANTS
  OutCap,      \* lines the channel holds (256 in the code)
  MaxToken,    \* bytes of a line a terminal's reader takes (1 MB in the code)
  MaxBytes     \* bound on the bytes the container writes

DockerAssumption ==
  OutCap \in Nat \ {0} /\ MaxToken \in Nat \ {0} /\ MaxBytes \in Nat

VARIABLES
  tty,         \* the container has a terminal
  body,        \* the frames on their way, not read yet
  ended,       \* nothing follows them: the container stopped, the socket broke
  cancelled,   \* ctx
  reader,      \* the goroutine: where it is, the lines it cuts, what it carries over
  queued,      \* lines in the channel
  heard,       \* history: the lines put there before ctx was cancelled
  size,        \* history: the bytes it wrote
  log          \* history: its lines in the order they were completed, and what is
               \*   unfinished of each stream

source == <<tty, body, ended, size, log>>
vars   == <<source, cancelled, reader, queued, heard>>

NL      == 0
Slots   == 0 .. 2     \* pending: stdin, stdout, stderr
Rest    == [s \in Slots |-> <<>>]
Line(text, slot) == [text |-> text, err |-> slot = 2]

\* An unknown stream counts as stdout.
Slot(stream) == IF tty \/ stream > 2 THEN 1 ELSE stream

-----------------------------------------------------------------------------
(* Docker and the follower.                                                *)

\* What one frame may carry: a piece of a line, the end of one, or both.
Pieces == LET b == size + 1
          IN  {<<b>>, <<NL>>, <<b, NL>>, <<NL, b>>, <<NL, NL>>}

\* A line is what a stream said, byte by byte, until its newline.
Written(slot, piece) ==
  FoldLeft(LAMBDA l, b : IF b = NL
                         THEN [l EXCEPT !.rest[slot] = <<>>,
                                        !.lines = Append(@, Line(l.rest[slot], slot))]
                         ELSE [l EXCEPT !.rest[slot] = Append(@, b)],
           log, piece)

SendFrame(stream) ==
  /\ reader.pc # "none" /\ ~ended
  /\ tty => stream = 1     \* a terminal's output has no frames
  /\ \E piece \in Pieces :
       /\ size + Len(piece) <= MaxBytes
       /\ size' = size + Len(piece)
       /\ body' = Append(body, [stream |-> stream, data |-> piece])
       /\ log' = Written(Slot(stream), piece)
  /\ UNCHANGED <<tty, ended, cancelled, reader, queued, heard>>

BodyEnds ==
  /\ reader.pc # "none" /\ ~ended
  /\ ended' = TRUE
  /\ UNCHANGED <<tty, body, size, log, cancelled, reader, queued, heard>>

CancelLogs ==
  /\ reader.pc # "none" /\ ~cancelled
  /\ cancelled' = TRUE
  /\ UNCHANGED <<source, reader, queued, heard>>

TakeLine ==
  /\ queued > 0
  /\ queued' = queued - 1
  /\ UNCHANGED <<source, cancelled, reader, heard>>

-----------------------------------------------------------------------------
(* The goroutine of Logs.                                                  *)

\* The inspection says whether there is a terminal; the request was answered.
OpenLogs ==
  /\ reader.pc = "none"
  /\ tty' \in BOOLEAN
  /\ reader' = [reader EXCEPT !.pc = "read"]
  /\ UNCHANGED <<body, ended, size, log, cancelled, queued, heard>>

Put(line) ==
  /\ queued < OutCap
  /\ queued' = queued + 1
  /\ heard' = IF cancelled THEN heard ELSE Append(heard, line)

ReadFrame ==
  /\ reader.pc = "read"
  /\ body # <<>>
  /\ LET s == Slot(Head(body).stream)
     IN  reader' = [reader EXCEPT !.pc = "cut", !.slot = s,
                                  !.buf = reader.pending[s] \o Head(body).data]
  /\ body' = Tail(body)
  /\ UNCHANGED <<tty, ended, size, log, cancelled, queued, heard>>

Newline(buf) == SelectInSeq(buf, LAMBDA b : b = NL)

\* The scanner of a terminal's stream has no room for the line that comes next.
NoRoom(buf) == tty /\ (IF Newline(buf) = 0 THEN Len(buf) ELSE Newline(buf) - 1) >= MaxToken

\* Mutant of EmitLine: the rest of the frame is dropped with the line.
MEmitLine ==
  /\ reader.pc = "cut"
  /\ Newline(reader.buf) # 0
  /\ Put(Line(SubSeq(reader.buf, 1, Newline(reader.buf) - 1), reader.slot))
  /\ reader' = [reader EXCEPT !.buf = <<>>]
  /\ UNCHANGED <<source, cancelled>>

EmitLine ==
  /\ reader.pc = "cut"
  /\ LET n == Newline(reader.buf)
     IN  /\ n # 0 /\ ~NoRoom(reader.buf)
         /\ Put(Line(SubSeq(reader.buf, 1, n - 1), reader.slot))
         /\ reader' = [reader EXCEPT !.buf = SubSeq(@, n + 1, Len(@))]
  /\ UNCHANGED <<source, cancelled>>

\* emit's select sees that nobody listens.
EmitGivesUp ==
  /\ reader.pc = "cut"
  /\ Newline(reader.buf) # 0 /\ ~NoRoom(reader.buf)
  /\ cancelled
  /\ reader' = [reader EXCEPT !.pc = "closed"]
  /\ UNCHANGED <<source, cancelled, queued, heard>>

\* No line is complete: the rest waits for the stream's next frame.
KeepRest ==
  /\ reader.pc = "cut"
  /\ Newline(reader.buf) = 0 /\ ~NoRoom(reader.buf)
  /\ reader' = [reader EXCEPT !.pc = "read", !.pending[reader.slot] = reader.buf, !.buf = <<>>]
  /\ UNCHANGED <<source, cancelled, queued, heard>>

\* readRaw's scanner stops for good at a line it has no room for.
TooLong ==
  /\ reader.pc = "cut"
  /\ NoRoom(reader.buf)
  /\ reader' = [reader EXCEPT !.pc = "closed"]
  /\ UNCHANGED <<source, cancelled, queued, heard>>

\* The body ended, or was closed under the reader because ctx was cancelled.
ReadFails ==
  /\ reader.pc = "read"
  /\ cancelled \/ (ended /\ body = <<>>)
  /\ reader' = [reader EXCEPT !.pc = "flush", !.slot = 0]
  /\ UNCHANGED <<source, cancelled, queued, heard>>

\* Unfinished lines are lines at the end; what emit returns is not looked at.
FlushRest ==
  /\ reader.pc = "flush" /\ reader.slot \in Slots
  /\ LET rest == reader.pending[reader.slot]
     IN  \/ rest # <<>> /\ Put(Line(rest, reader.slot))
         \/ (rest = <<>> \/ cancelled) /\ UNCHANGED <<queued, heard>>
  /\ reader' = [reader EXCEPT !.slot = @ + 1]
  /\ UNCHANGED <<source, cancelled>>

CloseLogs ==
  /\ reader.pc = "flush" /\ reader.slot \notin Slots
  /\ reader' = [reader EXCEPT !.pc = "closed"]
  /\ UNCHANGED <<source, cancelled, queued, heard>>

-----------------------------------------------------------------------------
Init ==
  /\ tty = FALSE /\ body = <<>> /\ ended = FALSE
  /\ cancelled = FALSE
  /\ reader = [pc |-> "none", slot |-> 0, buf |-> <<>>, pending |-> Rest]
  /\ queued = 0 /\ heard = <<>> /\ size = 0 /\ log = [lines |-> <<>>, rest |-> Rest]

Step == ReadFrame \/ EmitLine \/ EmitGivesUp \/ KeepRest \/ TooLong \/ ReadFails \/ FlushRest \/ CloseLogs

Next ==
  \/ OpenLogs \/ Step
  \/ \E stream \in 1 .. 3 : SendFrame(stream)
  \/ BodyEnds \/ CancelLogs \/ TakeLine

Spec == Init /\ [][Next]_vars

\* The goroutine runs, and the websocket's goroutine takes lines (StopEnds of
\* LogStreams).  Nothing is assumed of the container or of who follows it.
Fairness == WF_vars(Step) /\ WF_vars(TakeLine)

FairSpec == Spec /\ Fairness

-----------------------------------------------------------------------------
(* Properties.                                                             *)

\* Every variable has its type.
TypeOK ==
  /\ tty \in BOOLEAN /\ ended \in BOOLEAN /\ cancelled \in BOOLEAN
  /\ body \in Seq([stream : 1 .. 3, data : Seq(Nat)])
  /\ reader.pc \in {"none", "read", "cut", "flush", "closed"}
  /\ reader.slot \in 0 .. 3
  /\ reader.buf \in Seq(Nat) /\ reader.pending \in [Slots -> Seq(Nat)]
  /\ queued \in 0 .. OutCap /\ size \in 0 .. MaxBytes
  /\ heard \in Seq([text : Seq(Nat), err : BOOLEAN])

\* The lines the container left unfinished.
Unfinished == LET open == SelectSeq(<<0, 1, 2>>, LAMBDA s : log.rest[s] # <<>>)
              IN  [k \in DOMAIN open |-> Line(log.rest[open[k]], open[k])]

\* Everything the container wrote, as lines.
Said == IF ended THEN log.lines \o Unfinished ELSE log.lines

\* The first line, finished or not, that is too long for a terminal's reader.
Long == SelectInSeq(log.lines \o Unfinished, LAMBDA l : tty /\ Len(l.text) >= MaxToken)

\* The source is the container's output, and it ends when Docker ends it.
Contract == INSTANCE LogContract WITH
  said   <- Said,
  barred <- Long,
  over   <- ended,
  closed <- reader.pc = "closed"

\* However Docker cuts and mixes the frames of the two streams, the follower
\* hears each stream's lines whole, once, in the order they were completed, with
\* the unfinished ones at the end, and the channel is closed when it should be:
\* readMultiplexed and readRaw keep the contract of Logs.  One exception: a
\* terminal's stream ends at a line that is too long, although the container and
\* its output go on.
KeepsContract == Contract!Spec

\* The contract as provider.go states it, without an exception.
Promise == INSTANCE LogContract WITH
  said   <- Said,
  barred <- 0,
  over   <- ended,
  closed <- reader.pc = "closed"

FollowsToTheEnd == Promise!Spec
=============================================================================
