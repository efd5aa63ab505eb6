---------------------------- MODULE WingsConsole ----------------------------
(***************************************************************************)
(* The console of a game server: a websocket to Wings, which wants a token *)
(* before it says anything, and the goroutine that reads it                *)
(* (agent/internal/providers/pterodactyl/pterodactyl.go, Logs).            *)
(*                                                                         *)
(* Abstractions.  A line of the console is its number; "daemon error",     *)
(* "daemon message" and "status" are lines like others; the panel, which   *)
(* gives out tokens, answers or does not.  Wings is external: it is        *)
(* modelled by how the code uses it.                                       *)
(***************************************************************************)
EXTENDS Integers, Sequences, SequencesExt

CONSTANTS
  OutCap,      \* lines the channel holds (256 in the code)
  MaxSaid,     \* bound on the lines of the console
  MaxExpiries  \* bound on how often a token expires

ConsoleAssumption ==
  OutCap \in Nat \ {0} /\ MaxSaid \in Nat /\ MaxExpiries \in Nat

VARIABLES
  wings,       \* lines said so far; is the connection authorised, open; expiries
  toWings,     \* messages on their way to Wings
  toDashd,     \* messages on their way to dashd
  cancelled,   \* ctx
  pc,          \* the goroutine: none, read, send, fetch, emit, notice; closed
               \* because ctx ended, failed after a notice
  reply,       \* what it is going to send
  left,        \* the lines it has to put into the channel
  queued,      \* lines in the channel
  heard,       \* history: the lines put there before ctx was cancelled
  sent         \* history: the lines Wings sent, and the first that Wings, the panel
               \*   or a send that failed denies to the follower, 0 for none

follower == <<cancelled, queued>>
vars     == <<wings, toWings, toDashd, follower, pc, reply, left, heard, sent>>

Notice == 0      \* "console connection closed" and the other reasons to end
Output(lines) == [event |-> "console output", lines |-> lines]
Event(e)      == [event |-> e, lines |-> <<>>]
AllLines      == [n \in 1 .. wings.said |-> n]

-----------------------------------------------------------------------------
(* Wings, the panel's tokens, and the follower.                            *)

\* Nothing is owed to the follower from the n-th line on.
Deny(n) == sent' = [sent EXCEPT !.denied = IF @ = 0 \/ n < @ THEN n ELSE @]

\* A server says a line: whoever is authorised hears it.
ServerSays ==
  /\ wings.said < MaxSaid
  /\ wings' = [wings EXCEPT !.said = @ + 1]
  /\ toDashd' = IF wings.authorised /\ wings.open
                THEN Append(toDashd, Output(<<wings.said + 1>>)) ELSE toDashd
  /\ sent' = IF wings.authorised /\ wings.open
             THEN [sent EXCEPT !.lines = Append(@, wings.said + 1)] ELSE sent
  /\ UNCHANGED <<toWings, follower, pc, reply, left, heard>>

WingsAuth ==
  /\ wings.open /\ toWings # <<>> /\ Head(toWings) = "auth"
  /\ toWings' = Tail(toWings)
  /\ \/ /\ wings' = [wings EXCEPT !.authorised = TRUE]
        /\ toDashd' = Append(toDashd, Event("auth success"))
        /\ UNCHANGED sent
     \/ /\ toDashd' = Append(toDashd, Event("jwt error"))
        /\ Deny(Len(sent.lines) + 1)
        /\ UNCHANGED wings
  /\ UNCHANGED <<follower, pc, reply, left, heard>>

\* Wings replays what it has of the console to whom it knows.
WingsReplay ==
  /\ wings.open /\ toWings # <<>> /\ Head(toWings) = "send logs"
  /\ toWings' = Tail(toWings)
  /\ toDashd' = IF wings.authorised THEN Append(toDashd, Output(AllLines)) ELSE toDashd
  /\ sent' = IF wings.authorised THEN [sent EXCEPT !.lines = @ \o AllLines] ELSE sent
  /\ UNCHANGED <<wings, follower, pc, reply, left, heard>>

TokenExpires(event) ==
  /\ wings.open /\ wings.authorised /\ wings.expiries < MaxExpiries
  /\ wings' = [wings EXCEPT !.expiries = @ + 1, !.authorised = event = "token expiring"]
  /\ toDashd' = Append(toDashd, Event(event))
  /\ UNCHANGED <<toWings, follower, pc, reply, left, heard, sent>>

ConnectionBreaks ==
  /\ wings.open /\ pc # "none"
  /\ wings' = [wings EXCEPT !.open = FALSE, !.authorised = FALSE]
  /\ toWings' = <<>>
  /\ UNCHANGED <<toDashd, follower, pc, reply, left, heard, sent>>

CancelLogs ==
  /\ pc # "none" /\ ~cancelled
  /\ cancelled' = TRUE
  /\ UNCHANGED <<wings, toWings, toDashd, queued, pc, reply, left, heard, sent>>

TakeLine ==
  /\ queued > 0
  /\ queued' = queued - 1
  /\ UNCHANGED <<wings, toWings, toDashd, cancelled, pc, reply, left, heard, sent>>

-----------------------------------------------------------------------------
(* Logs and its goroutine.                                                 *)

\* Token, connection and the first message; otherwise Logs returns an error.
Connect ==
  /\ pc = "none"
  /\ wings' = [wings EXCEPT !.open = TRUE]
  /\ toWings' = <<"auth">>
  /\ pc' = "read"
  /\ UNCHANGED <<toDashd, follower, reply, left, heard, sent>>

\* Mutant of ReadMessage: the replay is not asked for.
MReadMessage ==
  /\ pc = "read" /\ toDashd # <<>>
  /\ toDashd' = Tail(toDashd)
  /\ LET m == Head(toDashd)
     IN  \/ /\ m.event = "auth success"
            /\ UNCHANGED <<pc, reply, left>>
         \/ /\ m.event = "console output"
            /\ pc' = "emit" /\ left' = m.lines
            /\ UNCHANGED reply
         \/ /\ m.event \in {"token expiring", "token expired"}
            /\ pc' = "fetch" /\ UNCHANGED <<reply, left>>
         \/ /\ m.event = "jwt error"
            /\ pc' = "notice" /\ UNCHANGED <<reply, left>>
  /\ UNCHANGED <<wings, toWings, follower, heard, sent>>

ReadMessage ==
  /\ pc = "read" /\ toDashd # <<>>
  /\ toDashd' = Tail(toDashd)
  /\ LET m == Head(toDashd)
     IN  \/ /\ m.event = "auth success"
            /\ pc' = "send" /\ reply' = "send logs" /\ UNCHANGED left
         \/ /\ m.event = "console output"
            /\ pc' = "emit" /\ left' = m.lines
            /\ UNCHANGED reply
         \/ /\ m.event \in {"token expiring", "token expired"}
            /\ pc' = "fetch" /\ UNCHANGED <<reply, left>>
         \/ /\ m.event = "jwt error"
            /\ pc' = "notice" /\ UNCHANGED <<reply, left>>
  /\ UNCHANGED <<wings, toWings, follower, heard, sent>>

\* The connection broke, or ctx ended: only the first is worth a line.
ReadFails ==
  /\ pc = "read"
  /\ cancelled \/ (~wings.open /\ toDashd = <<>>)
  /\ pc' = IF cancelled THEN "closed" ELSE "notice"
  /\ UNCHANGED <<wings, toWings, toDashd, follower, reply, left, heard, sent>>

\* A fresh token from the panel.
FetchToken ==
  /\ pc = "fetch"
  /\ \/ ~cancelled /\ pc' = "send" /\ reply' = "auth" /\ UNCHANGED sent
     \/ pc' = "notice" /\ Deny(Len(heard) + 1) /\ UNCHANGED reply
  /\ UNCHANGED <<wings, toWings, toDashd, follower, left, heard>>

Send ==
  /\ pc = "send"
  /\ \/ /\ ~cancelled /\ pc' = "read"
        /\ toWings' = IF wings.open THEN Append(toWings, reply) ELSE toWings
        /\ UNCHANGED sent
     \/ /\ pc' = "notice"        \* broken, cancelled, or five seconds without success
        /\ Deny(Len(heard) + 1)
        /\ UNCHANGED toWings
  /\ UNCHANGED <<wings, toDashd, follower, reply, left, heard>>

PutLine(line) ==
  /\ queued < OutCap
  /\ queued' = queued + 1
  /\ heard' = IF cancelled THEN heard ELSE Append(heard, line)

EmitLines ==
  /\ pc = "emit" /\ left # <<>>
  /\ \/ PutLine(Head(left)) /\ left' = Tail(left) /\ UNCHANGED pc
     \/ cancelled /\ pc' = "closed" /\ UNCHANGED <<left, queued, heard>>
  /\ UNCHANGED <<wings, toWings, toDashd, cancelled, reply, sent>>

Emitted ==
  /\ pc = "emit" /\ left = <<>>
  /\ pc' = "read"
  /\ UNCHANGED <<wings, toWings, toDashd, follower, reply, left, heard, sent>>

PutNotice ==
  /\ pc = "notice"
  /\ PutLine(Notice) \/ (cancelled /\ UNCHANGED <<queued, heard>>)
  /\ pc' = "failed"
  /\ UNCHANGED <<wings, toWings, toDashd, cancelled, reply, left, sent>>

-----------------------------------------------------------------------------
Init ==
  /\ wings = [said |-> 0, authorised |-> FALSE, open |-> FALSE, expiries |-> 0]
  /\ toWings = <<>> /\ toDashd = <<>> /\ cancelled = FALSE
  /\ pc = "none" /\ reply = "auth" /\ left = <<>> /\ queued = 0
  /\ heard = <<>> /\ sent = [lines |-> <<>>, denied |-> 0]

Step == ReadMessage \/ ReadFails \/ FetchToken \/ Send \/ EmitLines \/ Emitted \/ PutNotice

Next ==
  \/ Connect \/ Step
  \/ ServerSays \/ WingsAuth \/ WingsReplay
  \/ \E event \in {"token expiring", "token expired"} : TokenExpires(event)
  \/ ConnectionBreaks \/ CancelLogs \/ TakeLine

Spec == Init /\ [][Next]_vars

\* The goroutine runs and the websocket's goroutine takes lines: requests to the
\* panel and sends end by their timeouts.  Nothing is assumed of Wings.
Fairness == WF_vars(Step) /\ WF_vars(TakeLine)

FairSpec == Spec /\ Fairness

-----------------------------------------------------------------------------
(* Properties.                                                             *)

Events == {"auth success", "jwt error", "token expiring", "token expired"}

\* Every variable has its type.
TypeOK ==
  /\ wings \in [said : 0 .. MaxSaid, authorised : BOOLEAN, open : BOOLEAN, expiries : 0 .. MaxExpiries]
  /\ toWings \in Seq({"auth", "send logs"})
  /\ \A i \in DOMAIN toDashd : toDashd[i].event \in Events \cup {"console output"}
  /\ cancelled \in BOOLEAN
  /\ pc \in {"none", "read", "send", "fetch", "emit", "notice", "closed", "failed"}
  /\ reply \in {"auth", "send logs"}
  /\ left \in Seq(1 .. MaxSaid) /\ sent \in [lines : Seq(1 .. MaxSaid), denied : Nat]
  /\ queued \in 0 .. OutCap
  /\ heard \in Seq(0 .. MaxSaid)

\* What was heard, without the notice at its end.
Heard == IF heard # <<>> /\ Last(heard) = Notice THEN Front(heard) ELSE heard

\* The source is what Wings sends, and it ends when the connection breaks.
Contract == INSTANCE LogContract WITH
  said   <- sent.lines,
  barred <- sent.denied,
  heard  <- Heard,
  over   <- pc # "none" /\ ~wings.open,
  closed <- pc \in {"closed", "failed"}

\* What Wings sends is passed on as the contract of Logs has it, with one exception:
\* where Wings refuses the token, the panel has none or a message cannot be sent,
\* the stream ends, although the server goes on.  (FailureIsTold: with a notice.)
KeepsContract == Contract!Spec

\* Whatever made the console end by itself, the connection, the token, the panel
\* or a message that could not be sent, whoever follows is told so, at the end.
FailureIsTold ==
  pc \in {"closed", "failed"} /\ ~cancelled => heard # <<>> /\ Last(heard) = Notice

\* Between the replay and what is said live there is no hole, also where a token
\* expired and was renewed: once nothing is on its way, the follower has heard
\* every line.  (Lines can come twice: each renewal asks for a replay.)
NoHole ==
  wings.authorised /\ toWings = <<>> /\ toDashd = <<>> /\ pc = "read" /\ ~cancelled =>
    1 .. wings.said \subseteq ToSet(heard)
=============================================================================
