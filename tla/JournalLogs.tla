---------------------------- MODULE JournalLogs -----------------------------
(***************************************************************************)
(* The log of a systemd unit: a journalctl process that follows it, and    *)
(* the goroutine that reads its output                                     *)
(* (agent/internal/providers/systemd/systemd.go, Logs).                    *)
(*                                                                         *)
(* Abstractions.  A line of output is an entry, something parseJournal     *)
(* cannot read, or longer than the megabyte its scanner takes; journalctl  *)
(* is external and may end at any time.                                    *)
(***************************************************************************)
EXTENDS Integers, Sequences, SequencesExt

CONSTANTS
  OutCap,      \* lines the channel holds (256 in the code)
  MaxOutput    \* bound on the lines journalctl prints

JournalAssumption == OutCap \in Nat \ {0} /\ MaxOutput \in Nat

VARIABLES
  child,       \* journalctl: "none", "running", "done", "failed" or "killed"
  pipe,        \* its output on the way
  printed,     \* history: how many lines it printed, the entries among them, and
               \*   the first of these that is too long, 0 for none
  cancelled,   \* ctx
  pc,          \* the goroutine: none, scan, put, wait, notice or closed
  entry,       \* the entry it has read
  queued,      \* lines in the channel
  heard        \* history: the lines put there before ctx was cancelled

vars == <<child, pipe, printed, cancelled, pc, entry, queued, heard>>

Notice == 0                     \* what the page is told when journalctl fails
Kinds  == {"entry", "unreadable", "endless"}

-----------------------------------------------------------------------------
(* journalctl, systemd's journal and the follower.                         *)

PrintLine(kind) ==
  /\ child = "running" /\ printed.lines < MaxOutput
  /\ pipe' = Append(pipe, [kind |-> kind, number |-> printed.lines + 1])
  /\ printed' = [lines   |-> printed.lines + 1,
                 endless |-> IF kind = "endless" /\ printed.endless = 0
                             THEN Len(printed.entries) + 1 ELSE printed.endless,
                 entries |-> IF kind # "unreadable"
                             THEN Append(printed.entries, printed.lines + 1)
                             ELSE printed.entries]
  /\ UNCHANGED <<child, cancelled, pc, entry, queued, heard>>

ChildEnds(how) ==
  /\ child = "running"
  /\ child' = how
  /\ UNCHANGED <<pipe, printed, cancelled, pc, entry, queued, heard>>

CancelLogs ==
  /\ pc # "none" /\ ~cancelled
  /\ cancelled' = TRUE
  /\ UNCHANGED <<child, pipe, printed, pc, entry, queued, heard>>

\* exec.CommandContext kills the process when its context ends.
Kill ==
  /\ cancelled /\ child = "running"
  /\ child' = "killed"
  /\ UNCHANGED <<pipe, printed, cancelled, pc, entry, queued, heard>>

TakeLine ==
  /\ queued > 0
  /\ queued' = queued - 1
  /\ UNCHANGED <<child, pipe, printed, cancelled, pc, entry, heard>>

-----------------------------------------------------------------------------
(* Logs and its goroutine.                                                 *)

StartChild ==
  /\ pc = "none"
  /\ pc' = "scan" /\ child' = "running"
  /\ UNCHANGED <<pipe, printed, cancelled, entry, queued, heard>>

Scan ==
  /\ pc = "scan" /\ pipe # <<>>
  /\ pipe' = Tail(pipe)
  /\ \/ /\ Head(pipe).kind = "entry"
        /\ pc' = "put" /\ entry' = Head(pipe).number
     \/ /\ Head(pipe).kind = "unreadable"
        /\ UNCHANGED <<pc, entry>>
     \/ /\ Head(pipe).kind = "endless"     \* bufio.ErrTooLong
        /\ pc' = "wait" /\ UNCHANGED entry
  /\ UNCHANGED <<child, printed, cancelled, queued, heard>>

ScanEnds ==
  /\ pc = "scan" /\ pipe = <<>> /\ child # "running"
  /\ pc' = "wait"
  /\ UNCHANGED <<child, pipe, printed, cancelled, entry, queued, heard>>

PutLine(line) ==
  /\ queued < OutCap
  /\ queued' = queued + 1
  /\ heard' = IF cancelled THEN heard ELSE Append(heard, line)

\* The loop asks for ctx.Err after each line, sent or not.
Put ==
  /\ pc = "put"
  /\ PutLine(entry) \/ (cancelled /\ UNCHANGED <<queued, heard>>)
  /\ pc' = IF cancelled THEN "wait" ELSE "scan"
  /\ UNCHANGED <<child, pipe, printed, cancelled, entry>>

\* Mutant of Wait: the exit status of journalctl is not looked at.
MWait ==
  /\ pc = "wait" /\ child # "running"
  /\ pc' = "closed"
  /\ UNCHANGED <<child, pipe, printed, cancelled, entry, queued, heard>>

\* cmd.Wait: an exit that nobody asked for is worth a line.
Wait ==
  /\ pc = "wait" /\ child # "running"
  /\ pc' = IF child \in {"failed", "killed"} /\ ~cancelled THEN "notice" ELSE "closed"
  /\ UNCHANGED <<child, pipe, printed, cancelled, entry, queued, heard>>

PutNotice ==
  /\ pc = "notice"
  /\ PutLine(Notice) \/ (cancelled /\ UNCHANGED <<queued, heard>>)
  /\ pc' = "closed"
  /\ UNCHANGED <<child, pipe, printed, cancelled, entry>>

-----------------------------------------------------------------------------
Init ==
  /\ child = "none" /\ pipe = <<>>
  /\ printed = [lines |-> 0, endless |-> 0, entries |-> <<>>]
  /\ cancelled = FALSE /\ pc = "none" /\ entry = 0 /\ queued = 0 /\ heard = <<>>

Step == Scan \/ ScanEnds \/ Put \/ Wait \/ PutNotice

Next ==
  \/ StartChild \/ Step
  \/ \E kind \in Kinds : PrintLine(kind)
  \/ \E how \in {"done", "failed"} : ChildEnds(how)
  \/ CancelLogs \/ Kill \/ TakeLine

Spec == Init /\ [][Next]_vars

\* The goroutine runs, the runtime kills the process of a cancelled context, and
\* the websocket's goroutine takes lines.  journalctl may run for ever.
Fairness == WF_vars(Step) /\ WF_vars(Kill) /\ WF_vars(TakeLine)

FairSpec == Spec /\ Fairness

-----------------------------------------------------------------------------
(* Properties.                                                             *)

\* Every variable has its type.
TypeOK ==
  /\ child \in {"none", "running", "done", "failed", "killed"}
  /\ pipe \in Seq([kind : Kinds, number : 1 .. MaxOutput])
  /\ printed \in [lines : 0 .. MaxOutput, endless : Nat, entries : Seq(1 .. MaxOutput)]
  /\ cancelled \in BOOLEAN
  /\ pc \in {"none", "scan", "put", "wait", "notice", "closed"}
  /\ entry \in 0 .. MaxOutput /\ queued \in 0 .. OutCap
  /\ heard \in Seq((1 .. MaxOutput) \cup {Notice})

\* What was heard, without the notice at its end.
Heard == IF heard # <<>> /\ Last(heard) = Notice THEN Front(heard) ELSE heard

\* The source is journalctl's output; the notice is not a line of it.
Contract == INSTANCE LogContract WITH
  said   <- printed.entries,
  barred <- printed.endless,
  heard  <- Heard,
  over   <- child \notin {"none", "running"},
  closed <- pc = "closed"

\* The unit's entries are passed on as the contract of Logs has it, with one
\* exception: after an entry that is too long the stream is silent, with its
\* channel open, although journalctl goes on.
KeepsContract == Contract!Spec

\* The contract as provider.go states it, without an exception.
Promise == INSTANCE LogContract WITH
  said   <- printed.entries,
  barred <- 0,
  heard  <- Heard,
  over   <- child \notin {"none", "running"},
  closed <- pc = "closed"

FollowsToTheEnd == Promise!Spec

\* journalctl ended by itself with an error, for instance because dashd may not
\* read the journal: whoever follows is told, as the last thing, and only then.
FailureIsTold ==
  pc = "closed" /\ ~cancelled => (child = "failed" <=> heard # <<>> /\ Last(heard) = Notice)
=============================================================================
