------------------------------ MODULE LogFollow ------------------------------
(***************************************************************************)
(* logFile of pm2/logs.go: the last lines of a log file, then its new ones *)
(* every half second, while a bot writes the file, `pm2 flush` empties it  *)
(* and logrotate puts another in its place.                                *)
(*                                                                         *)
(* Abstractions.  A file is a sequence of bytes; a newline is 0, every     *)
(* other byte has a number of its own, in the order in which the bot wrote *)
(* them, so that a repeated, missing or mixed line can be told.  Cleaning  *)
(* of a line's text is left out.  A path that is not a regular file or     *)
(* cannot be read is a failure of the call that finds it so.  A removed    *)
(* file's inode may be given to the next one.  What is used often in a     *)
(* step is bound by \E x \in {e}, so that TLC evaluates it once.           *)
(***************************************************************************)
EXTENDS Integers, Sequences, SequencesExt

CONSTANTS
  Inodes,      \* files that can be at the path
  N,           \* lines asked for (1 to maxLogTail)
  Window,      \* bytes open reads for them (512 for each, and maxLogLine)
  MaxLogLine,  \* bytes shown of a line
  LogTail,     \* bytes read of a file that is new
  MaxLogRead,  \* bytes one poll reads
  MaxBytes,    \* bound: bytes written
  MaxSwaps,    \* bound: times the file is emptied or taken away
  MaxFails     \* bound: calls that fail

FollowAssumption ==
  /\ {N, Window, MaxLogLine, LogTail, MaxLogRead} \subseteq Nat \ {0}
  /\ {MaxBytes, MaxSwaps, MaxFails} \subseteq Nat
  /\ 0 \notin Inodes

VARIABLES
  path,     \* the inode at the path, 0 for none
  content,  \* the bytes of each inode
  born,     \* history: how often each inode was made or emptied
  count,    \* bytes, swaps and fails so far
  pc,       \* where open or poll is
  f,        \* the logFile: ok, off, partial, info, missing, skip
  st,       \* what Stat said: inode and size
  feed,     \* lines returned since reading (re)started
  start,    \* history: where it started and what became of it
  told      \* history: the last byte ever returned; whether one came twice;
            \* whether a file was ever swapped under a read

vars == <<path, content, born, count, pc, f, st, feed, start, told>>

disk   == <<path, content, born>>
reader == <<pc, f, st, feed, start, told>>
spoken == <<feed, start, told>>

Newline == 0
Nul     == -1

-----------------------------------------------------------------------------
(* Lines.                                                                  *)

\* Where the newlines of b are, in order.
Breaks(b) ==
  LET e[n \in 0 .. Len(b)] ==
        IF n = 0 THEN <<>> ELSE IF b[n] = Newline THEN Append(e[n - 1], n) ELSE e[n - 1]
  IN  e[Len(b)]

\* Mutant of CapLine: a line is never cut.
MCapLine(b) == b

CapLine(b) == SubSeq(b, 1, IF Len(b) > MaxLogLine THEN MaxLogLine ELSE Len(b))

\* splitLines of the bytes up to the last newline.
SplitLines(b) ==
  LET e == Breaks(b)
  IN  [k \in 1..Len(e) |-> CapLine(SubSeq(b, IF k = 1 THEN 1 ELSE e[k-1] + 1, e[k] - 1))]

FirstBreak(b) == IF Breaks(b) = <<>> THEN 0 ELSE Head(Breaks(b))
LastBreak(b)  == IF Breaks(b) = <<>> THEN 0 ELSE Last(Breaks(b))
After(b, i)   == SubSeq(b, i + 1, Len(b))

Newest(s, n) == After(s, IF Len(s) > n THEN Len(s) - n ELSE 0)

-----------------------------------------------------------------------------
(* The file.                                                               *)

\* The bot writes a byte of a line, or ends the line.
WriteByte ==
  /\ path # 0 /\ count.bytes < MaxBytes
  /\ count' = [count EXCEPT !.bytes = @ + 1]
  /\ \E b \in {Newline, count.bytes + 1} :
       content' = [content EXCEPT ![path] = Append(@, b)]
  /\ UNCHANGED <<path, born, reader>>

\* pm2 flush, or logrotate with copytruncate.
Truncate ==
  /\ path # 0 /\ count.swaps < MaxSwaps
  /\ count' = [count EXCEPT !.swaps = @ + 1]
  /\ content' = [content EXCEPT ![path] = <<>>]
  /\ born' = [born EXCEPT ![path] = @ + 1]
  /\ UNCHANGED <<path, reader>>

\* logrotate moves it away.
MoveAway ==
  /\ path # 0 /\ count.swaps < MaxSwaps
  /\ count' = [count EXCEPT !.swaps = @ + 1]
  /\ path' = 0
  /\ UNCHANGED <<content, born, reader>>

\* A new one is made, maybe with an old inode.
Create(i) ==
  /\ path = 0
  /\ path' = i
  /\ content' = [content EXCEPT ![i] = <<>>]
  /\ born' = [born EXCEPT ![i] = @ + 1]
  /\ UNCHANGED <<count, reader>>

-----------------------------------------------------------------------------
(* open.                                                                   *)

Fails == count.fails < MaxFails /\ count' = [count EXCEPT !.fails = @ + 1]

\* Stat, or a call after it, fails: whether because there is no file counts
\* for Stat only.
OpenFails ==
  /\ pc \in {"new", "opening"}
  /\ \/ Fails /\ UNCHANGED f
     \/ /\ path = 0
        /\ f' = [f EXCEPT !.missing = (pc = "new")]
        /\ UNCHANGED count
  /\ pc' = "idle"
  /\ UNCHANGED <<disk, st, spoken>>

OpenStat ==
  /\ pc = "new" /\ path # 0
  /\ pc' = "opening"
  /\ UNCHANGED <<disk, count, f, st, spoken>>

\* readTail opens the file and asks the handle for its size.
OpenSize ==
  /\ pc = "opening" /\ path # 0
  /\ pc' = "sized"
  /\ st' = [inode |-> path, size |-> Len(content[path])]
  /\ start' = [start EXCEPT !.born = born[path]]
  /\ UNCHANGED <<disk, count, f, feed, told>>

\* readTail's ReadAt: bytes that are gone by now stay zero.  The first line is
\* dropped if the window starts inside the file.
OpenBytes ==
  LET o == IF st.size > Window THEN st.size - Window ELSE 0
      c == content[st.inode]
      b == [i \in 1..(st.size - o) |-> IF o + i <= Len(c) THEN c[o + i] ELSE Nul]
  IN  IF o = 0 THEN b
      ELSE IF Breaks(b) = <<>> THEN <<>> ELSE After(b, FirstBreak(b))

\* What the history says once lines were returned, read from another file or not.
Tell(lines, other) ==
  \E bytes \in {UNION {Range(lines[k]) : k \in 1..Len(lines)}} :
    told' = [top |-> CHOOSE m \in bytes \cup {told.top} :
                       \A b \in bytes \cup {told.top} : b <= m,
             again |-> told.again \/ \E b \in bytes : b <= told.top,
             swapped |-> told.swapped \/ other]

\* The rest of open: a line without its newline stays back.
OpenRead ==
  /\ pc = "sized"
  /\ \E buf \in {OpenBytes} :
      LET lines == Newest(SplitLines(buf), N)
          now   == SubSeq(content[st.inode], 1, st.size)
          same  == born[st.inode] = start.born
      IN
      /\ pc' = "idle"
      /\ f' = [f EXCEPT !.ok = TRUE, !.off = st.size, !.info = st.inode,
                        !.partial = CapLine(After(buf, LastBreak(buf)))]
      /\ feed' = lines
      /\ start' = [start EXCEPT
           !.inode = st.inode,
           !.skipped = IF same THEN Len(SplitLines(now)) - Len(lines) ELSE 0,
           !.cut  = same /\ st.size > Window /\ buf = <<>>
                         /\ st.size > 0 /\ now[st.size] # Newline,
           !.other = ~same]
      /\ Tell(lines, ~same)
      /\ UNCHANGED <<disk, count, st>>

-----------------------------------------------------------------------------
(* poll.                                                                   *)

\* Mutants of Changed: a shrink goes unnoticed; a file that grew starts over.
OnlyReplaced(i, size) == ~f.ok \/ f.info # i
Differs(i, size)      == ~f.ok \/ size # f.off \/ f.info # i

\* New, truncated or replaced, as far as Stat can tell.
Changed(i, size) == ~f.ok \/ size < f.off \/ f.info # i

\* poll up to the read.  A failing Stat changes nothing.
PollStat ==
  /\ pc = "idle" /\ path # 0
  /\ LET size == Len(content[path])
         c    == content[path]
     IN  \/ \* it existed but open failed: followed from here
            /\ ~f.ok /\ ~f.missing
            /\ f' = [f EXCEPT !.ok = TRUE, !.off = size, !.partial = <<>>, !.info = path]
            /\ feed' = <<>>
            /\ start' = [start EXCEPT !.inode = path, !.born = born[path],
                                      !.skipped = Len(SplitLines(c)),
                                      !.cut = size > 0 /\ Last(c) # Newline,
                                      !.other = FALSE]
            /\ UNCHANGED <<pc, st>>
         \/ \* start over
            /\ f.ok \/ f.missing
            /\ Changed(path, size)
            /\ LET o == IF size > LogTail THEN size - LogTail ELSE 0
               IN  /\ f' = [f EXCEPT !.ok = TRUE, !.off = o, !.partial = <<>>,
                                     !.info = path, !.skip = o > 0]
                   /\ feed' = <<>>
                   /\ start' = [start EXCEPT !.inode = path, !.born = born[path],
                                  !.skipped = Len(SplitLines(SubSeq(c, 1, o)))
                                                + (IF o > 0 THEN 1 ELSE 0),
                                  !.cut = FALSE, !.other = FALSE]
                   /\ IF size = o THEN UNCHANGED <<pc, st>>
                                  ELSE /\ pc' = "polled"
                                       /\ st' = [inode |-> path, size |-> size]
         \/ \* read on
            /\ f.ok /\ ~Changed(path, size)
            /\ size > f.off
            /\ pc' = "polled" /\ st' = [inode |-> path, size |-> size]
            /\ UNCHANGED <<f, feed, start>>
  /\ UNCHANGED <<disk, count, told>>

PollFails ==
  /\ pc = "polled"
  /\ Fails \/ (path = 0 /\ UNCHANGED count)
  /\ pc' = "idle"
  /\ UNCHANGED <<disk, f, st, spoken>>

\* Mutant of Take: a line is not cut off after a start inside the file.
MTake(got, other) ==
  LET all == f.partial \o got
  IN  /\ f' = [f EXCEPT !.off = @ + Len(got), !.skip = FALSE,
                        !.partial = CapLine(After(all, LastBreak(all)))]
      /\ feed' = feed \o SplitLines(all)
      /\ Tell(SplitLines(all), other)

\* What poll makes of the bytes it got.
Take(got, other) ==
  LET all  == f.partial \o got
      lost == f.skip /\ Breaks(all) = <<>>
      data == IF lost THEN <<>> ELSE IF f.skip THEN After(all, FirstBreak(all)) ELSE all
  IN  /\ f' = [f EXCEPT !.off = @ + Len(got), !.skip = lost,
                        !.partial = CapLine(After(data, LastBreak(data)))]
      /\ feed' = feed \o SplitLines(data)
      /\ Tell(SplitLines(data), other)

\* It opens the path again: that may be another file, or a shorter one.
PollRead ==
  /\ pc = "polled" /\ path # 0
  /\ LET want == IF st.size - f.off < MaxLogRead THEN st.size ELSE f.off + MaxLogRead
         have == IF want < Len(content[path]) THEN want ELSE Len(content[path])
         other == path # start.inode \/ born[path] # start.born
     IN  /\ Take(SubSeq(content[path], f.off + 1, have), other)
         /\ start' = [start EXCEPT !.other = @ \/ other]
  /\ pc' = "idle"
  /\ UNCHANGED <<disk, count, st>>

-----------------------------------------------------------------------------

Init ==
  /\ path \in {0} \cup Inodes
  /\ content = [i \in Inodes |-> <<>>] /\ born = [i \in Inodes |-> 0]
  /\ count = [bytes |-> 0, swaps |-> 0, fails |-> 0]
  /\ pc = "new"
  /\ f = [ok |-> FALSE, off |-> 0, partial |-> <<>>, info |-> 0,
          missing |-> FALSE, skip |-> FALSE]
  /\ st = [inode |-> 0, size |-> 0]
  /\ feed = <<>>
  /\ start = [inode |-> 0, born |-> 0, skipped |-> 0, cut |-> FALSE, other |-> FALSE]
  /\ told = [top |-> 0, again |-> FALSE, swapped |-> FALSE]

Open == OpenFails \/ OpenStat \/ OpenSize \/ OpenRead
Poll == PollStat \/ PollFails \/ PollRead

Next ==
  \/ WriteByte \/ Truncate \/ MoveAway \/ \E i \in Inodes : Create(i)
  \/ Open \/ Poll

Spec == Init /\ [][Next]_vars

\* The stream's goroutine goes on, every half second.
Fairness == WF_vars(Open) /\ WF_vars(Poll)

FairSpec == Spec /\ Fairness

-----------------------------------------------------------------------------
(* Properties.                                                             *)

Lines == UNION {[1..n -> 0..MaxBytes \cup {Nul}] : n \in 0..MaxLogLine}

TypeOK ==
  /\ path \in Inodes \cup {0}
  /\ content \in [Inodes -> Seq(0..MaxBytes)]
  /\ born \in [Inodes -> Nat]
  /\ count \in [bytes : 0..MaxBytes, swaps : 0..MaxSwaps, fails : 0..MaxFails]
  /\ pc \in {"new", "opening", "sized", "idle", "polled"}
  /\ f \in [ok : BOOLEAN, off : 0..MaxBytes, partial : Lines, info : Inodes \cup {0},
            missing : BOOLEAN, skip : BOOLEAN]
  /\ st \in [inode : Inodes \cup {0}, size : 0..MaxBytes]
  /\ feed \in Seq(Lines)
  /\ start \in [inode : Inodes \cup {0}, born : Nat, skipped : Nat, cut : BOOLEAN,
                other : BOOLEAN]
  /\ told \in [top : 0..MaxBytes, again : BOOLEAN, swapped : BOOLEAN]

\* logs.go:201, "poll returns the complete lines written since the last call": as
\* long as the file is the one that reading started in, what was returned is
\* exactly its lines from there to f.off, each once, whole (up to maxLogLine)
\* and in order, however the bytes fell into polls.  Excepted are reads that
\* started inside a line without knowing it, and files swapped under a poll.
Followed == f.ok /\ ~start.cut /\ ~start.other
              /\ born[start.inode] = start.born

EveryLineOnce ==
  Followed => feed = After(SplitLines(SubSeq(content[start.inode], 1, f.off)), start.skipped)

\* Over the whole stream, and over every time it starts over, no byte of the log
\* is returned again or after a later one, unless a file was swapped under a poll.
NeverTwice == ~told.swapped => ~told.again

\* A change that Stat can see is seen: once the file is left alone, the reader
\* gets to its end, whatever was done to it before.
CatchesUp == <>[](path # 0 => f.ok /\ f.off = Len(content[path]))

=============================================================================
