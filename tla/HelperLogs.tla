----------------------------- MODULE HelperLogs -----------------------------
(***************************************************************************)
(* Log streams between dashd and the helper: streamFromHelper in dashd,    *)
(* handleControl and streamLogs in the helper, both in pm2/, joined by one *)
(* connection for each stream.                                             *)
(*                                                                         *)
(* Abstractions.  A line is one of three: log output, an error, the notice *)
(* that the stream ended.  The files are module LogFollow.  A connection   *)
(* keeps what was written before it was closed; a name in Streams is used  *)
(* again when both ends are through with it.                               *)
(***************************************************************************)
EXTENDS Integers, Sequences, FiniteSets

CONSTANTS
  Streams,        \* calls of Logs under way at a time
  MaxLogStreams,  \* slots of the helper (8 in the code)
  OutCap,         \* capacity of out (256 in the code)
  WireCap,        \* lines the connection holds
  MaxCrashes      \* bound: times the helper dies

ASSUME HelperAssumption ==
  /\ MaxLogStreams \in Nat \ {0} /\ OutCap \in Nat \ {0} /\ WireCap \in Nat \ {0}
  /\ MaxCrashes \in Nat

VARIABLES
  cancelled,  \* the page stopped following: ctx of the call
  dash,       \* where streamFromHelper, or its goroutine, is
  line,       \* the line it holds
  out,        \* the channel it returned
  got,        \* history: the last line the page's side took from out
  open,       \* dashd's end of the connection
  wire,       \* lines on the connection
  helper,     \* where the handler of each connection is
  eof,        \* the helper's end is closed
  crashes

vars == <<cancelled, dash, line, out, got, open, wire, helper, eof, crashes>>

inDash   == <<dash, line, out, got>>
inHelper == <<helper, eof, crashes>>

Holders == {s \in Streams : helper[s] \in {"listing", "tailing", "following"}}

-----------------------------------------------------------------------------
(* dashd.                                                                  *)

\* Provider.Logs dials.  The helper may be down, or not listening.
Logs(s) ==
  /\ dash[s] \in {"none", "failed", "closed"} /\ helper[s] = "none"
  /\ cancelled[s] \/ out[s] = <<>>
  /\ cancelled' = [cancelled EXCEPT ![s] = FALSE]
  /\ out' = [out EXCEPT ![s] = <<>>] /\ got' = [got EXCEPT ![s] = "none"]
  /\ wire' = [wire EXCEPT ![s] = <<>>]
  /\ line' = [line EXCEPT ![s] = "none"]
  /\ \/ /\ dash' = [dash EXCEPT ![s] = "waiting"]
        /\ open' = [open EXCEPT ![s] = TRUE]
        /\ helper' = [helper EXCEPT ![s] = "accepted"]
        /\ eof' = [eof EXCEPT ![s] = FALSE]
     \/ /\ dash' = [dash EXCEPT ![s] = "failed"]
        /\ UNCHANGED <<open, helper, eof>>
  /\ UNCHANGED crashes

\* unsubscribe, or the websocket is gone.
Cancel(s) ==
  /\ dash[s] \notin {"none", "failed"} /\ ~cancelled[s]
  /\ cancelled' = [cancelled EXCEPT ![s] = TRUE]
  /\ UNCHANGED <<inDash, open, wire, inHelper>>

\* context.AfterFunc closes the connection.
HangUp(s) ==
  /\ cancelled[s] /\ open[s]
  /\ open' = [open EXCEPT ![s] = FALSE]
  /\ UNCHANGED <<cancelled, inDash, wire, inHelper>>

End(s, how) ==
  /\ dash' = [dash EXCEPT ![s] = how]
  /\ line' = [line EXCEPT ![s] = "none"]
  /\ open' = [open EXCEPT ![s] = FALSE]

\* The first line says whether the stream started.
FirstLine(s) ==
  /\ dash[s] = "waiting" /\ open[s] /\ wire[s] # <<>>
  /\ wire' = [wire EXCEPT ![s] = Tail(@)]
  /\ IF Head(wire[s]) = "error"
       THEN End(s, "failed")
       ELSE /\ dash' = [dash EXCEPT ![s] = "copying"]
            /\ line' = [line EXCEPT ![s] = Head(wire[s])]
            /\ UNCHANGED open
  /\ UNCHANGED <<cancelled, out, got, inHelper>>

\* Nothing can be read, or nothing comes for 15 seconds.
FirstFails(s) ==
  /\ dash[s] = "waiting"
  /\ ~open[s] \/ wire[s] = <<>>
  /\ End(s, "failed")
  /\ UNCHANGED <<cancelled, out, got, wire, inHelper>>

\* Mutant of Copy: only room in the channel is waited for.
MCopy(s) ==
  /\ dash[s] = "copying"
  /\ Len(out[s]) < OutCap
  /\ out' = [out EXCEPT ![s] = Append(@, line[s])]
  /\ dash' = [dash EXCEPT ![s] = "reading"]
  /\ UNCHANGED <<line, open, cancelled, got, wire, inHelper>>

\* The goroutine passes the line on, or ends with its context.
Copy(s) ==
  /\ dash[s] = "copying"
  /\ \/ /\ Len(out[s]) < OutCap
        /\ out' = [out EXCEPT ![s] = Append(@, line[s])]
        /\ dash' = [dash EXCEPT ![s] = "reading"]
        /\ UNCHANGED <<line, open>>
     \/ cancelled[s] /\ End(s, "closed") /\ UNCHANGED out
  /\ UNCHANGED <<cancelled, got, wire, inHelper>>

\* An error in the middle of a stream is shown as a line.
Decode(s) ==
  /\ dash[s] = "reading" /\ open[s] /\ wire[s] # <<>>
  /\ line' = [line EXCEPT ![s] = Head(wire[s])]
  /\ wire' = [wire EXCEPT ![s] = Tail(@)]
  /\ dash' = [dash EXCEPT ![s] = "copying"]
  /\ UNCHANGED <<cancelled, out, got, open, inHelper>>

\* Mutant of DecodeFails: the stream ends without a word.
MDecodeFails(s) ==
  /\ dash[s] = "reading"
  /\ ~open[s] \/ (eof[s] /\ wire[s] = <<>>)
  /\ End(s, "closed")
  /\ UNCHANGED <<cancelled, out, got, wire, inHelper>>

\* The connection ended: the notice is due if the page still follows.
DecodeFails(s) ==
  /\ dash[s] = "reading"
  /\ ~open[s] \/ (eof[s] /\ wire[s] = <<>>)
  /\ IF cancelled[s] THEN End(s, "closed")
     ELSE dash' = [dash EXCEPT ![s] = "noticing"] /\ UNCHANGED <<line, open>>
  /\ UNCHANGED <<cancelled, out, got, wire, inHelper>>

Notice(s) ==
  /\ dash[s] = "noticing"
  /\ \/ /\ Len(out[s]) < OutCap
        /\ out' = [out EXCEPT ![s] = Append(@, "notice")]
     \/ cancelled[s] /\ UNCHANGED out
  /\ End(s, "closed")
  /\ UNCHANGED <<cancelled, got, wire, inHelper>>

\* subscribeLogs takes a line, while it is not stopped.
Receive(s) ==
  /\ out[s] # <<>> /\ ~cancelled[s]
  /\ got' = [got EXCEPT ![s] = Head(out[s])]
  /\ out' = [out EXCEPT ![s] = Tail(@)]
  /\ UNCHANGED <<cancelled, dash, line, open, wire, inHelper>>

-----------------------------------------------------------------------------
(* The helper.                                                             *)

\* The handler returns and closes its end; its slot is free.
Leave(s) ==
  /\ helper' = [helper EXCEPT ![s] = "none"]
  /\ eof' = [eof EXCEPT ![s] = TRUE]

\* Mutant of Send: it does not wait for room.
MSend(s, l) == open[s] /\ wire' = [wire EXCEPT ![s] = Append(@, l)]

\* send: it waits for room, 10 seconds, unless dashd has hung up.
Send(s, l) == /\ open[s] /\ Len(wire[s]) < WireCap
              /\ wire' = [wire EXCEPT ![s] = Append(@, l)]
SendFails(s) == (~open[s] \/ Len(wire[s]) = WireCap) /\ UNCHANGED wire

\* fail: send and return, whether it was sent or not.
Refuse(s) == (Send(s, "error") \/ SendFails(s)) /\ Leave(s)

\* handleControl reads the request; streamLogs takes a slot.
TakeSlot(s) ==
  /\ helper[s] = "accepted"
  /\ \/ /\ ~open[s]
        /\ Leave(s) /\ UNCHANGED wire
     \/ /\ Cardinality(Holders) < MaxLogStreams
        /\ helper' = [helper EXCEPT ![s] = "listing"]
        /\ UNCHANGED <<wire, eof>>
     \/ /\ Cardinality(Holders) >= MaxLogStreams
        /\ Refuse(s)
  /\ UNCHANGED <<cancelled, inDash, open, crashes>>

\* list answers, or fails within 10 seconds, or the process is gone from pm2.
List(s) ==
  /\ helper[s] = "listing"
  /\ \/ helper' = [helper EXCEPT ![s] = "tailing"] /\ UNCHANGED <<wire, eof>>
     \/ Refuse(s)
  /\ UNCHANGED <<cancelled, inDash, open, crashes>>

\* The old lines, or "(no output yet)": at least one.
SendTail(s) ==
  /\ helper[s] = "tailing"
  /\ \/ /\ Send(s, "text")
        /\ \E p \in {"tailing", "following"} : helper' = [helper EXCEPT ![s] = p]
        /\ UNCHANGED eof
     \/ SendFails(s) /\ Leave(s)
  /\ UNCHANGED <<cancelled, inDash, open, crashes>>

\* Mutant of Notices: a hang-up is noticed when there is something to send.
MNotices(s) == FALSE

\* The watcher's read ends when dashd hangs up.
Notices(s) == ~open[s]

\* A tick: new lines are sent, if there are any.
Follow(s) ==
  /\ helper[s] = "following"
  /\ \/ Send(s, "text") /\ UNCHANGED <<helper, eof>>
     \/ SendFails(s) /\ Leave(s)
  /\ UNCHANGED <<cancelled, inDash, open, crashes>>

\* ctx ends: while following, in the select.
StopFollow(s) ==
  /\ helper[s] = "following" /\ Notices(s)
  /\ Leave(s)
  /\ UNCHANGED <<cancelled, inDash, open, wire, crashes>>

\* The helper dies or restarts: every connection ends.
Crash ==
  /\ crashes < MaxCrashes
  /\ crashes' = crashes + 1
  /\ helper' = [s \in Streams |-> "none"]
  /\ eof' = [s \in Streams |-> TRUE]
  /\ UNCHANGED <<cancelled, inDash, open, wire>>

-----------------------------------------------------------------------------

Init ==
  /\ cancelled = [s \in Streams |-> FALSE]
  /\ dash = [s \in Streams |-> "none"] /\ line = [s \in Streams |-> "none"]
  /\ out = [s \in Streams |-> <<>>] /\ got = [s \in Streams |-> "none"]
  /\ open = [s \in Streams |-> FALSE] /\ wire = [s \in Streams |-> <<>>]
  /\ helper = [s \in Streams |-> "none"] /\ eof = [s \in Streams |-> TRUE]
  /\ crashes = 0

Dashd(s)   == \/ HangUp(s) \/ FirstLine(s) \/ FirstFails(s) \/ Copy(s) \/ Decode(s)
              \/ DecodeFails(s) \/ Notice(s)
Handler(s) == TakeSlot(s) \/ List(s) \/ SendTail(s) \/ StopFollow(s)

Next ==
  \/ \E s \in Streams : \/ Logs(s) \/ Cancel(s) \/ Receive(s)
                        \/ Dashd(s) \/ Handler(s) \/ Follow(s)
  \/ Crash

Spec == Init /\ [][Next]_vars

\* Goroutines run, reads and sends end by their deadlines, and the websocket's
\* goroutine takes lines or is stopped.  Nothing is assumed of the page and the
\* bot: a log may be quiet for ever.
Fairness ==
  \A s \in Streams : /\ WF_vars(HangUp(s)) /\ WF_vars(Receive(s))
                     /\ WF_vars(FirstLine(s) \/ FirstFails(s))
                     /\ WF_vars(Copy(s) \/ Decode(s) \/ DecodeFails(s) \/ Notice(s))
                     /\ WF_vars(Handler(s))

FairSpec == Spec /\ Fairness

-----------------------------------------------------------------------------
(* Properties.                                                             *)

Sent == {"text", "error"}
Said == Sent \cup {"notice"}

Fits(q, kinds, cap) == /\ q \in [Streams -> Seq(kinds)]
                       /\ \A s \in Streams : Len(q[s]) <= cap

TypeOK ==
  /\ cancelled \in [Streams -> BOOLEAN] /\ open \in [Streams -> BOOLEAN]
  /\ dash \in [Streams -> {"none", "waiting", "copying", "reading", "noticing",
                           "failed", "closed"}]
  /\ line \in [Streams -> Sent \cup {"none"}]
  /\ \A s \in Streams : dash[s] = "copying" => line[s] # "none"
  /\ Fits(out, Said, OutCap) /\ Fits(wire, Sent, WireCap)
  /\ got \in [Streams -> Said \cup {"none"}]
  /\ helper \in [Streams -> {"none", "accepted", "listing", "tailing", "following"}]
  /\ eof \in [Streams -> BOOLEAN]
  /\ crashes \in 0..MaxCrashes

\* logs.go:337: the channel of a page that still follows never just closes; the
\* last line on it says that the stream ended, and that is true of the helper.
Ended(s) == IF out[s] = <<>> THEN got[s] = "notice" ELSE out[s][Len(out[s])] = "notice"

EndIsTold ==
  \A s \in Streams :
    /\ dash[s] = "closed" /\ ~cancelled[s] => Ended(s)
    /\ dash[s] # "none" /\ Ended(s) => eof[s]

\* logs.go:60, "dashd hangs up when the page stops following; notice it even while
\* the logs are quiet": the slot of a stream that nobody follows is freed.
SlotFreed == \A s \in Streams : cancelled[s] ~> helper[s] = "none"

\* A stream ends, for whatever reason: its goroutine and channel when the page
\* stops following, also while the channel is full and nobody takes from it; and
\* when the helper dies or gives up, the page that follows learns of it.
StreamsEnd ==
  \A s \in Streams :
    /\ cancelled[s] ~> dash[s] \in {"closed", "failed"}
    /\ eof[s] /\ dash[s] \in {"copying", "reading"} ~> got[s] = "notice" \/ cancelled[s]

=============================================================================
