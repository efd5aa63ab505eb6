---------------------------- MODULE LogContract -----------------------------
(***************************************************************************)
(* What Logs promises to whoever follows a log (provider.go:82): it       *)
(* "streams the last tail lines and then follows new output until ctx is   *)
(* cancelled or the source ends.  The channel is closed when done."        *)
(* What is heard after the follower cancelled is of no interest any more.  *)
(*                                                                         *)
(* The providers make one exception, which provider.go does not have: at   *)
(* the place barred a provider may stop following although the source goes *)
(* on, with the channel closed or left open.  It must have sent all that   *)
(* comes before.  With barred = 0 the contract is the one of provider.go.  *)
(***************************************************************************)
EXTENDS Integers, Sequences, SequencesExt

VARIABLES
  said,        \* the lines of the source, in its order
  barred,      \* the first line that the provider may leave out with all that
               \*   follow it, 0 for none
  heard,       \* the lines the follower was sent
  over,        \* the source ended
  cancelled,   \* the follower cancelled
  closed       \* the channel is closed

vars == <<said, barred, heard, over, cancelled, closed>>

\* What the follower is to hear.
Due == IF barred = 0 THEN said ELSE SubSeq(said, 1, barred - 1)

Init ==
  /\ said = <<>> /\ barred = 0 /\ heard = <<>>
  /\ over = FALSE /\ cancelled = FALSE /\ closed = FALSE

\* The source says more, and may end with it.
Say ==
  /\ ~over /\ IsPrefix(said, said')
  /\ over' \in BOOLEAN
  /\ UNCHANGED <<heard, cancelled, closed>>

\* A line that was not heard yet becomes the place where the provider may stop,
\* the one that is about to be said at the latest.
Bar ==
  /\ barred' \in Len(heard) + 1 .. Len(said') + 1
  /\ barred = 0 \/ barred' <= barred

\* The next line that was said is sent, once, as a whole.
Hear ==
  /\ ~closed /\ ~cancelled
  /\ Len(heard) < Len(Due)
  /\ heard' = Append(heard, said[Len(heard) + 1])
  /\ UNCHANGED <<said, barred, over, cancelled, closed>>

Cancel ==
  /\ ~cancelled
  /\ cancelled' = TRUE
  /\ UNCHANGED <<said, barred, heard, over, closed>>

\* Not before everything was heard, unless nobody listens.
Close ==
  /\ ~closed
  /\ cancelled \/ (over /\ heard = Due)
  /\ closed' = TRUE
  /\ UNCHANGED <<said, barred, heard, over, cancelled>>

\* The exception: the channel is closed at the place barred.
CloseEarly ==
  /\ ~closed
  /\ barred # 0 /\ Len(heard) = barred - 1
  /\ closed' = TRUE
  /\ UNCHANGED <<said, barred, heard, over, cancelled>>

Next ==
  \/ Say /\ (UNCHANGED barred \/ Bar)
  \/ Bar /\ UNCHANGED <<said, heard, over, cancelled, closed>>
  \/ Hear \/ Cancel \/ Close \/ CloseEarly

Spec == Init /\ [][Next]_vars /\ WF_vars(Hear) /\ WF_vars(Close)
=============================================================================
