------------------------- MODULE LogProvidersProofs --------------------------
(***************************************************************************)
(* Theorems about the logs of the four providers.                          *)
(*                                                                         *)
(* pm2, across the helper: the queues of lines and messages keep within    *)
(* their capacities (TypeCorrect), and nobody is left without the word     *)
(* that the stream ended (EndsAreTold).  EndIsTold speaks of a closed      *)
(* stream only; the invariant behind it, NoticeIsLast, says what the queue *)
(* holds while a stream ends.                                              *)
(*                                                                         *)
(* The others, for any amount of output: every part keeps its types, a     *)
(* journalctl or a console that failed says so, last, and a console whose  *)
(* token was renewed misses no line.  The invariants behind them:          *)
(* JournalTold and ConsoleTold, that the notice is the last thing put;     *)
(* Complete, that on an authorised connection every line said was heard,   *)
(* waits to be put or is on its way, or else a replay is due (Asked).      *)
(***************************************************************************)
EXTENDS LogProviders, SequenceTheorems, FiniteSetTheorems, WellFoundedInduction, TLAPS


\* dashd's end is open while the page follows.
Held(s) ==
  dash[s] \in {"waiting", "copying", "reading", "noticing"} => open[s] \/ cancelled[s]

\* The notice is the last that is said, of a stream that the helper left.
NoticeIsLast(s) ==
  /\ dash[s] = "noticing" => eof[s]
  /\ Ended(s) => dash[s] = "closed" /\ eof[s]
  /\ dash[s] = "closed" /\ ~cancelled[s] => Ended(s)

StreamInv == TypeOK /\ \A s \in Streams : Held(s) /\ NoticeIsLast(s)

-----------------------------------------------------------------------------
(* Types.                                                                  *)

LEMMA EmptyFits ==
  ASSUME NEW S, NEW cap \in Nat
  PROVE  /\ Fits([s \in Streams |-> <<>>], S, cap)
         /\ \A q : \A s \in Streams : Fits(q, S, cap) => Fits([q EXCEPT ![s] = <<>>], S, cap)
BY DEF Fits

LEMMA AppendFits ==
  ASSUME NEW S, NEW cap \in Nat, NEW q, Fits(q, S, cap),
         NEW s \in Streams, NEW x \in S, Len(q[s]) < cap
  PROVE  Fits([q EXCEPT ![s] = Append(@, x)], S, cap)
<1>1. Append(q[s], x) \in Seq(S) /\ Len(Append(q[s], x)) = Len(q[s]) + 1
  BY AppendProperties DEF Fits
<1>2. Len(q[s]) \in Nat
  BY DEF Fits
<1>. QED  BY <1>1, <1>2 DEF Fits

LEMMA TailFits ==
  ASSUME NEW S, NEW cap \in Nat, NEW q, Fits(q, S, cap), NEW s \in Streams, q[s] # <<>>
  PROVE  Head(q[s]) \in S /\ Fits([q EXCEPT ![s] = Tail(@)], S, cap)
<1>1. /\ Head(q[s]) \in S
      /\ Tail(q[s]) \in Seq(S) /\ Len(Tail(q[s])) = Len(q[s]) - 1
  BY HeadTailProperties DEF Fits
<1>2. Len(q[s]) \in Nat
  BY DEF Fits
<1>. QED  BY <1>1, <1>2 DEF Fits

LEMMA Capacities == OutCap \in Nat /\ WireCap \in Nat /\ MaxCrashes \in Nat
BY HelperAssumption DEF HelperAssumption

LEMMA TypeInit == Init => TypeOK
BY EmptyFits, Capacities DEF Init, TypeOK

\* What the helper does to the wire.
LEMMA SendType ==
  ASSUME TypeOK, NEW s \in Streams, NEW l \in Sent, Send(s, l) \/ SendFails(s)
  PROVE  Fits(wire', Sent, WireCap)
<1>1. CASE Send(s, l)
  <2>1. Fits(wire, Sent, WireCap) /\ Len(wire[s]) < WireCap
    BY <1>1 DEF TypeOK, Send
  <2>2. Fits([wire EXCEPT ![s] = Append(@, l)], Sent, WireCap)
    BY <2>1, AppendFits, Capacities
  <2>. QED  BY <1>1, <2>2 DEF Send
<1>2. CASE SendFails(s)
  BY <1>2 DEF TypeOK, SendFails
<1>. QED  BY <1>1, <1>2

LEMMA TypeNext == TypeOK /\ [Next]_vars => TypeOK'
<1>. SUFFICES ASSUME TypeOK, [Next]_vars PROVE TypeOK'
  OBVIOUS
<1>1. ASSUME NEW s \in Streams, Logs(s) PROVE TypeOK'
  BY <1>1, EmptyFits, Capacities DEF TypeOK, Logs
<1>2. ASSUME NEW s \in Streams, Cancel(s) PROVE TypeOK'
  BY <1>2 DEF TypeOK, Cancel, inDash, inHelper
<1>3. ASSUME NEW s \in Streams, Receive(s) PROVE TypeOK'
  <2>1. Head(out[s]) \in Said /\ Fits(out', Said, OutCap)
    BY <1>3, TailFits, Capacities DEF TypeOK, Receive
  <2>. QED  BY <1>3, <2>1 DEF TypeOK, Receive, inHelper
<1>4. ASSUME NEW s \in Streams, HangUp(s) PROVE TypeOK'
  BY <1>4 DEF TypeOK, HangUp, inDash, inHelper
<1>5. ASSUME NEW s \in Streams, FirstLine(s) PROVE TypeOK'
  <2>1. Head(wire[s]) \in Sent /\ Fits(wire', Sent, WireCap)
    BY <1>5, TailFits, Capacities DEF TypeOK, FirstLine
  <2>. QED  BY <1>5, <2>1, ZenonT(60) DEF TypeOK, FirstLine, End, inHelper, Sent
<1>6. ASSUME NEW s \in Streams, FirstFails(s) PROVE TypeOK'
  BY <1>6 DEF TypeOK, FirstFails, End, inHelper
<1>7. ASSUME NEW s \in Streams, Copy(s) PROVE TypeOK'
  <2>1. line[s] \in Said
    BY <1>7 DEF TypeOK, Copy, Said
  <2>2. Fits(out', Said, OutCap)
    <3>1. ASSUME Len(out[s]) < OutCap
          PROVE  Fits([out EXCEPT ![s] = Append(@, line[s])], Said, OutCap)
      BY <3>1, <2>1, AppendFits, Capacities DEF TypeOK
    <3>. QED  BY <1>7, <3>1 DEF TypeOK, Copy
  <2>. QED  BY <1>7, <2>2 DEF TypeOK, Copy, End, inHelper
<1>8. ASSUME NEW s \in Streams, Decode(s) PROVE TypeOK'
  <2>1. Head(wire[s]) \in Sent /\ Fits(wire', Sent, WireCap)
    BY <1>8, TailFits, Capacities DEF TypeOK, Decode
  <2>. QED  BY <1>8, <2>1 DEF TypeOK, Decode, inHelper, Sent
<1>9. ASSUME NEW s \in Streams, DecodeFails(s) PROVE TypeOK'
  BY <1>9 DEF TypeOK, DecodeFails, End, inHelper
<1>10. ASSUME NEW s \in Streams, Notice(s) PROVE TypeOK'
  <2>1. Fits(out', Said, OutCap)
    <3>1. ASSUME Len(out[s]) < OutCap
          PROVE  Fits([out EXCEPT ![s] = Append(@, "notice")], Said, OutCap)
      <4>. "notice" \in Said
        BY DEF Said
      <4>. QED  BY <3>1, AppendFits, Capacities DEF TypeOK
    <3>. QED  BY <1>10, <3>1 DEF TypeOK, Notice
  <2>. QED  BY <1>10, <2>1 DEF TypeOK, Notice, End, inHelper
<1>11. ASSUME NEW s \in Streams, TakeSlot(s) PROVE TypeOK'
  <2>1. Fits(wire', Sent, WireCap)
    BY <1>11, SendType DEF TypeOK, TakeSlot, Refuse, Sent
  <2>. QED  BY <1>11, <2>1 DEF TypeOK, TakeSlot, Refuse, Leave, inDash
<1>12. ASSUME NEW s \in Streams, List(s) PROVE TypeOK'
  <2>1. Fits(wire', Sent, WireCap)
    BY <1>12, SendType DEF TypeOK, List, Refuse, Sent
  <2>. QED  BY <1>12, <2>1 DEF TypeOK, List, Refuse, Leave, inDash
<1>13. ASSUME NEW s \in Streams, SendTail(s) PROVE TypeOK'
  <2>1. Fits(wire', Sent, WireCap)
    <3>. "text" \in Sent /\ (Send(s, "text") \/ SendFails(s))
      BY <1>13 DEF SendTail, Sent
    <3>. QED  BY SendType
  <2>2. /\ helper' \in [Streams -> {"none", "accepted", "listing", "tailing", "following"}]
        /\ eof' \in [Streams -> BOOLEAN]
    <3>1. CASE UNCHANGED eof
      <4>1. \/ \E p \in {"tailing", "following"} : helper' = [helper EXCEPT ![s] = p]
            \/ Leave(s)
        BY <1>13 DEF SendTail
      <4>. QED  BY <3>1, <4>1 DEF TypeOK, Leave
    <3>2. CASE Leave(s)
      BY <3>2 DEF TypeOK, Leave
    <3>. QED  BY <1>13, <3>1, <3>2 DEF SendTail
  <2>3. UNCHANGED <<cancelled, inDash, open, crashes>>
    BY <1>13 DEF SendTail
  <2>. QED  BY <2>1, <2>2, <2>3 DEF TypeOK, inDash
<1>14. ASSUME NEW s \in Streams, StopFollow(s) PROVE TypeOK'
  BY <1>14 DEF TypeOK, StopFollow, Leave, inDash
<1>15. ASSUME NEW s \in Streams, Follow(s) PROVE TypeOK'
  <2>1. Fits(wire', Sent, WireCap)
    BY <1>15, SendType DEF Follow, Sent
  <2>. QED  BY <1>15, <2>1 DEF TypeOK, Follow, Leave, inDash
<1>16. CASE Crash
  BY <1>16, Capacities DEF TypeOK, Crash, inDash
<1>17. CASE UNCHANGED vars
  BY <1>17 DEF TypeOK, vars
<1>. QED
  BY <1>1, <1>2, <1>3, <1>4, <1>5, <1>6, <1>7, <1>8, <1>9, <1>10, <1>11, <1>12,
     <1>13, <1>14, <1>15, <1>16, <1>17 DEF Next, Dashd, Handler

-----------------------------------------------------------------------------
(* The end of a stream.                                                    *)

LEMMA EndInit == Init => \A s \in Streams : Held(s) /\ NoticeIsLast(s)
BY DEF Init, Held, NoticeIsLast, Ended

\* What was last in a queue is last until it is taken.
LEMMA LastStays ==
  ASSUME NEW S, NEW q \in Seq(S), q # <<>>
  PROVE  IF Tail(q) = <<>> THEN Head(q) = q[Len(q)]
                           ELSE Tail(q)[Len(Tail(q))] = q[Len(q)]
<1>1. /\ Tail(q) \in Seq(S) /\ Len(Tail(q)) = Len(q) - 1 /\ Len(q) \in Nat \ {0}
      /\ \A i \in 1..Len(Tail(q)) : Tail(q)[i] = q[i + 1]
  BY HeadTailProperties, EmptySeq
<1>2. Head(q) = q[1]
  OBVIOUS
<1>3. Tail(q) = <<>> <=> Len(Tail(q)) = 0
  BY <1>1, EmptySeq
<1>. QED  BY <1>1, <1>2, <1>3

\* A line added to a queue is its last.
LEMMA AppendLast ==
  ASSUME NEW S, NEW q \in Seq(S), NEW x \in S
  PROVE  /\ Append(q, x) # <<>>
         /\ Append(q, x)[Len(Append(q, x))] = x
<1>1. /\ Append(q, x) \in Seq(S) /\ Len(Append(q, x)) = Len(q) + 1
      /\ Append(q, x)[Len(q) + 1] = x
  BY AppendProperties
<1>. QED  BY <1>1, EmptySeq

LEMMA EndNext ==
  StreamInv /\ [Next]_vars => \A s \in Streams : (Held(s) /\ NoticeIsLast(s))'
<1>. SUFFICES ASSUME StreamInv, [Next]_vars, NEW r \in Streams
              PROVE  (Held(r) /\ NoticeIsLast(r))'
  OBVIOUS
<1>t. TypeOK /\ Held(r) /\ NoticeIsLast(r)
  BY DEF StreamInv
<1>1. ASSUME NEW s \in Streams, Logs(s) PROVE (Held(r) /\ NoticeIsLast(r))'
  BY <1>1, <1>t DEF TypeOK, Logs, Fits, Held, NoticeIsLast, Ended
<1>2. ASSUME NEW s \in Streams, Cancel(s) PROVE (Held(r) /\ NoticeIsLast(r))'
  BY <1>2, <1>t DEF TypeOK, Cancel, inDash, inHelper, Held, NoticeIsLast, Ended
<1>3. ASSUME NEW s \in Streams, Receive(s) PROVE (Held(r) /\ NoticeIsLast(r))'
  <2>1. out[s] \in Seq(Said) /\ out[s] # <<>>
    BY <1>3, <1>t DEF TypeOK, Fits, Receive
  <2>2. CASE r = s
    <3>1. out'[r] = Tail(out[r]) /\ got'[r] = Head(out[r])
      BY <1>3, <1>t, <2>2 DEF TypeOK, Fits, Receive
    <3>2. Ended(r)' <=> Ended(r)
      BY <2>1, <2>2, <3>1, LastStays DEF Ended
    <3>. QED  BY <1>3, <1>t, <3>2 DEF Receive, inHelper, Held, NoticeIsLast
  <2>3. CASE r # s
    BY <1>3, <1>t, <2>3 DEF TypeOK, Fits, Receive, inHelper, Held, NoticeIsLast, Ended
  <2>. QED  BY <2>2, <2>3
<1>4. ASSUME NEW s \in Streams, HangUp(s) PROVE (Held(r) /\ NoticeIsLast(r))'
  BY <1>4, <1>t DEF TypeOK, HangUp, inDash, inHelper, Held, NoticeIsLast, Ended
<1>5. ASSUME NEW s \in Streams, FirstLine(s) PROVE (Held(r) /\ NoticeIsLast(r))'
  BY <1>5, <1>t DEF TypeOK, FirstLine, End, inHelper, Held, NoticeIsLast, Ended
<1>6. ASSUME NEW s \in Streams, FirstFails(s) PROVE (Held(r) /\ NoticeIsLast(r))'
  BY <1>6, <1>t DEF TypeOK, FirstFails, End, inHelper, Held, NoticeIsLast, Ended
<1>7. ASSUME NEW s \in Streams, Copy(s) PROVE (Held(r) /\ NoticeIsLast(r))'
  <2>1. CASE cancelled[s] /\ End(s, "closed") /\ UNCHANGED out
    BY <1>7, <1>t, <2>1 DEF TypeOK, Copy, End, inHelper, Held, NoticeIsLast, Ended
  <2>2. CASE dash' = [dash EXCEPT ![s] = "reading"]
    <3>1. out[s] \in Seq(Said) /\ line[s] \in Said /\ line[s] # "notice"
      BY <1>7, <1>t DEF TypeOK, Fits, Copy, Said, Sent
    <3>2. r = s => ~Ended(r)'
      BY <1>7, <1>t, <2>2, <3>1, AppendLast DEF TypeOK, Fits, Copy, End, Ended
    <3>3. r # s => (Ended(r)' <=> Ended(r))
      BY <1>7, <1>t DEF TypeOK, Fits, Copy, Ended
    <3>. QED
      BY <1>7, <1>t, <2>2, <3>2, <3>3 DEF TypeOK, Copy, End, inHelper, Held, NoticeIsLast
  <2>. QED  BY <1>7, <2>1, <2>2 DEF Copy
<1>8. ASSUME NEW s \in Streams, Decode(s) PROVE (Held(r) /\ NoticeIsLast(r))'
  BY <1>8, <1>t DEF TypeOK, Decode, inHelper, Held, NoticeIsLast, Ended
<1>9. ASSUME NEW s \in Streams, DecodeFails(s) PROVE (Held(r) /\ NoticeIsLast(r))'
  BY <1>9, <1>t DEF TypeOK, DecodeFails, End, inHelper, Held, NoticeIsLast, Ended
<1>10. ASSUME NEW s \in Streams, Notice(s) PROVE (Held(r) /\ NoticeIsLast(r))'
  <2>1. out[s] \in Seq(Said) /\ "notice" \in Said
    BY <1>10, <1>t DEF TypeOK, Fits, Said
  <2>2. r = s => Ended(r)' \/ (cancelled[r] /\ UNCHANGED out)
    BY <1>10, <1>t, <2>1, AppendLast DEF TypeOK, Fits, Notice, Ended
  <2>3. r # s => (Ended(r)' <=> Ended(r))
    BY <1>10, <1>t DEF TypeOK, Fits, Notice, Ended
  <2>4. cancelled[r] /\ UNCHANGED <<out, got>> => (Ended(r)' <=> Ended(r))
    BY DEF Ended
  <2>. QED
    BY <1>10, <1>t, <2>2, <2>3, <2>4
       DEF TypeOK, Notice, End, inHelper, Held, NoticeIsLast
<1>11. ASSUME NEW s \in Streams, Handler(s) \/ Follow(s)
       PROVE  (Held(r) /\ NoticeIsLast(r))'
  <2>1. /\ UNCHANGED <<cancelled, inDash, open>>
        /\ eof[r] => eof'[r]
    BY <1>11, <1>t DEF TypeOK, Handler, TakeSlot, List, SendTail, StopFollow, Follow,
         Refuse, Send, SendFails, Leave
  <2>. QED  BY <2>1, <1>t DEF inDash, Held, NoticeIsLast, Ended
<1>12. CASE Crash
  BY <1>12, <1>t DEF Crash, inDash, Held, NoticeIsLast, Ended
<1>13. CASE UNCHANGED vars
  BY <1>13, <1>t DEF vars, Held, NoticeIsLast, Ended
<1>. QED
  BY <1>1, <1>2, <1>3, <1>4, <1>5, <1>6, <1>7, <1>8, <1>9, <1>10, <1>11, <1>12, <1>13
     DEF Next, Dashd

-----------------------------------------------------------------------------

\* HelperLogs keeps its types, whatever the streams, the slots and the capacities;
\* no queue outgrows its capacity.
THEOREM TypeCorrect == Spec => []TypeOK
<1>1. Init => TypeOK
  BY TypeInit
<1>2. TypeOK /\ [Next]_vars => TypeOK'
  BY TypeNext
<1>. QED  BY <1>1, <1>2, PTL DEF Spec

\* logs.go:337: a page that still follows when its channel closes was told that the
\* stream ended, and it is told so only when the helper is through with the stream.
THEOREM EndsAreTold == Spec => []EndIsTold
<1>1. Init => StreamInv
  BY TypeInit, EndInit DEF StreamInv
<1>2. StreamInv /\ [Next]_vars => StreamInv'
  BY TypeNext, EndNext DEF StreamInv
<1>3. StreamInv => EndIsTold
  BY DEF StreamInv, EndIsTold, NoticeIsLast
<1>. QED  BY <1>1, <1>2, <1>3, PTL DEF Spec

-----------------------------------------------------------------------------
(* Docker: types.                                                          *)

DockerLine == [text : Seq(Nat), err : BOOLEAN]
Pcs        == {"none", "read", "cut", "flush", "closed"}
ReaderSet  == [pc : Pcs, slot : 0 .. 3,
               buf : Seq(Nat), pending : [Docker!Slots -> Seq(Nat)]]

DockerType ==
  /\ Docker!TypeOK
  /\ reader \in ReaderSet
  /\ reader.pc = "cut" => reader.slot \in Docker!Slots

\* A set of natural numbers that is not empty has a least element.  (Stated here
\* with sets, because the library's SmallestNatural takes an operator.)
LEMMA LeastElement ==
  ASSUME NEW S \in SUBSET Nat, S # {}
  PROVE  \E m \in S : \A n \in S : m <= n
<1>. DEFINE T == {1..k : k \in S}
            R == StrictSubsetOrdering(Nat)
<1>1. T \subseteq FiniteSubsetsOf(Nat) /\ T # {}
  <2>1. \A k \in S : 1..k \in SUBSET Nat /\ IsFiniteSet(1..k)
    BY FS_Interval
  <2>2. \E k \in S : 1..k \in T
    OBVIOUS
  <2>. QED  BY <2>1, <2>2 DEF FiniteSubsetsOf
<1>2. IsWellFoundedOn(R, FiniteSubsetsOf(Nat))
  BY FS_StrictSubsetOrderingWellFounded
<1>. HIDE DEF T, R
<1>3. PICK x \in T : \A y \in T : <<y, x>> \notin R
  BY <1>1, <1>2, WFMin
<1>4. PICK m \in S : x = 1..m
  BY DEF T
<1>5. ASSUME NEW n \in S, n < m
      PROVE  FALSE
  <2>1. 1..n \in T
    BY DEF T
  <2>2. 1..n \subseteq 1..m /\ m \in 1..m /\ m \notin 1..n
    BY <1>5
  <2>3. <<1..n, 1..m>> \in R
    BY <2>2 DEF R, StrictSubsetOrdering
  <2>. QED  BY <1>3, <1>4, <2>1, <2>3
<1>. QED  BY <1>5

\* A newline that is found is a place in the buffer.
LEMMA NewlineInside ==
  ASSUME NEW q \in Seq(Nat)
  PROVE  Docker!Newline(q) \in 0 .. Len(q)
<1>. DEFINE I == {i \in 1 .. Len(q) : q[i] = Docker!NL}
<1>1. CASE I = {}
  BY <1>1 DEF Docker!Newline, Docker!SelectInSeq
<1>2. CASE I # {}
  <2>1. I \in SUBSET Nat /\ Len(q) \in Nat
    OBVIOUS
  <2>2. PICK x \in I : \A y \in I : x <= y
    BY <1>2, <2>1, LeastElement
  <2>3. Docker!Min(I) \in I
    BY <2>2 DEF Docker!Min
  <2>4. Docker!Newline(q) = Docker!Min(I)
    BY <1>2 DEF Docker!Newline, Docker!SelectInSeq
  <2>. QED  BY <2>1, <2>3, <2>4
<1>. QED  BY <1>1, <1>2

LEMMA DockerFacts ==
  ASSUME DockerType
  PROVE  /\ tty \in BOOLEAN /\ ended \in BOOLEAN /\ dCancelled \in BOOLEAN
         /\ body \in Seq([stream : 1 .. 3, data : Seq(Nat)])
         /\ reader \in ReaderSet /\ (reader.pc = "cut" => reader.slot \in Docker!Slots)
         /\ dQueued \in 0 .. OutCap /\ size \in 0 .. MaxBytes /\ dHeard \in Seq(DockerLine)
         /\ OutCap \in Nat /\ MaxBytes \in Nat
BY ProvidersAssumption DEF ProvidersAssumption, Docker!DockerAssumption, DockerType, Docker!TypeOK, DockerLine

LEMMA DockerTyped ==
  ASSUME tty \in BOOLEAN, ended \in BOOLEAN, dCancelled \in BOOLEAN,
         body \in Seq([stream : 1 .. 3, data : Seq(Nat)]),
         reader \in ReaderSet, reader.pc = "cut" => reader.slot \in Docker!Slots,
         dQueued \in 0 .. OutCap, size \in 0 .. MaxBytes, dHeard \in Seq(DockerLine)
  PROVE  DockerType
BY SMTT(30) DEF DockerType, Docker!TypeOK, DockerLine, ReaderSet, Pcs

\* The reader keeps its fields.
LEMMA ReaderUpdates ==
  ASSUME reader \in ReaderSet
  PROVE  /\ \A p \in Pcs : [reader EXCEPT !.pc = p] \in ReaderSet /\ [reader EXCEPT !.pc = p].pc = p
         /\ \A p \in Pcs, s \in 0 .. 3 : /\ [reader EXCEPT !.pc = p, !.slot = s] \in ReaderSet
                                         /\ [reader EXCEPT !.pc = p, !.slot = s].pc = p
BY DEF ReaderSet

LEMMA DockerInit == Docker!Init => DockerType
<1>. SUFFICES ASSUME Docker!Init PROVE DockerType
  OBVIOUS
<1>1. OutCap \in Nat /\ MaxBytes \in Nat
  BY ProvidersAssumption DEF ProvidersAssumption, Docker!DockerAssumption
<1>2. Docker!Rest \in [Docker!Slots -> Seq(Nat)]
  BY DEF Docker!Rest
<1>3. reader \in ReaderSet /\ reader.pc = "none"
  BY <1>2 DEF Docker!Init, ReaderSet, Pcs
<1>4. /\ tty \in BOOLEAN /\ ended \in BOOLEAN /\ dCancelled \in BOOLEAN
      /\ body \in Seq([stream : 1 .. 3, data : Seq(Nat)]) /\ dHeard \in Seq(DockerLine)
      /\ dQueued \in 0 .. OutCap /\ size \in 0 .. MaxBytes
  <2>1. tty \in BOOLEAN /\ ended \in BOOLEAN /\ dCancelled \in BOOLEAN
    BY DEF Docker!Init
  <2>2. body = <<>> /\ dHeard = <<>> /\ dQueued = 0 /\ size = 0
    BY DEF Docker!Init
  <2>3. body \in Seq([stream : 1 .. 3, data : Seq(Nat)]) /\ dHeard \in Seq(DockerLine)
    BY <2>2, EmptySeq
  <2>. QED  BY <1>1, <2>1, <2>2, <2>3
<1>5. reader.pc = "cut" => reader.slot \in Docker!Slots
  BY <1>3
<1>. QED  BY <1>3, <1>4, <1>5, DockerTyped

\* A line that is put is one of the reader's, and there is room for it.
LEMMA PutType ==
  ASSUME DockerType, NEW text \in Seq(Nat), NEW slot, Docker!Put(Docker!Line(text, slot))
  PROVE  dQueued' \in 0 .. OutCap /\ dHeard' \in Seq(DockerLine)
<1>1. Docker!Line(text, slot) \in DockerLine
  BY DEF Docker!Line, DockerLine
<1>. QED  BY <1>1, DockerFacts DEF Docker!Put

LEMMA DockerStep == DockerType /\ [Docker!Next]_(Docker!vars) => DockerType'
<1>. SUFFICES ASSUME DockerType, [Docker!Next]_(Docker!vars) PROVE DockerType'
  OBVIOUS
<1>t. /\ tty \in BOOLEAN /\ ended \in BOOLEAN /\ dCancelled \in BOOLEAN
      /\ body \in Seq([stream : 1 .. 3, data : Seq(Nat)])
      /\ reader \in ReaderSet /\ (reader.pc = "cut" => reader.slot \in Docker!Slots)
      /\ dQueued \in 0 .. OutCap /\ size \in 0 .. MaxBytes /\ dHeard \in Seq(DockerLine)
      /\ OutCap \in Nat /\ MaxBytes \in Nat
  BY DockerFacts
<1>. DEFINE Good == /\ tty' \in BOOLEAN /\ ended' \in BOOLEAN /\ dCancelled' \in BOOLEAN
                    /\ body' \in Seq([stream : 1 .. 3, data : Seq(Nat)])
                    /\ reader' \in ReaderSet /\ (reader'.pc = "cut" => reader'.slot \in Docker!Slots)
                    /\ dQueued' \in 0 .. OutCap /\ size' \in 0 .. MaxBytes /\ dHeard' \in Seq(DockerLine)
<1>. SUFFICES Good
  BY DEF DockerType, Docker!TypeOK, DockerLine, ReaderSet, Pcs
<1>1. ASSUME NEW stream \in 1 .. 3, Docker!SendFrame(stream) PROVE Good
  <2>1. PICK piece \in Docker!Pieces :
          /\ size + Len(piece) <= MaxBytes /\ size' = size + Len(piece)
          /\ body' = Append(body, [stream |-> stream, data |-> piece])
    BY <1>1 DEF Docker!SendFrame
  <2>2. piece \in Seq(Nat) /\ Len(piece) \in Nat
    <3>1. size + 1 \in Nat /\ Docker!NL \in Nat
      BY <1>t DEF Docker!NL
    <3>. DEFINE b == size + 1
    <3>2. piece \in {<<b>>, <<0>>, <<b, 0>>, <<0, b>>, <<0, 0>>}
      BY DEF Docker!Pieces, Docker!NL
    <3>. HIDE DEF b
    <3>3. b \in Nat
      BY <3>1 DEF b
    <3>4. <<b>> \in Seq(Nat) /\ <<0>> \in Seq(Nat) /\ <<b, 0>> \in Seq(Nat) /\ <<0, b>> \in Seq(Nat) /\ <<0, 0>> \in Seq(Nat)
      BY <3>3
    <3>5. piece \in Seq(Nat)
      BY <3>2, <3>4, Zenon
    <3>. QED  BY <3>5
  <2>3. size' \in 0 .. MaxBytes
    BY <1>t, <2>1, <2>2
  <2>4. body' \in Seq([stream : 1 .. 3, data : Seq(Nat)])
    BY <1>t, <2>1, <2>2
  <2>. QED  BY <1>1, <1>t, <2>3, <2>4 DEF Docker!SendFrame
<1>2. CASE Docker!BodyEnds
  BY <1>2, <1>t DEF Docker!BodyEnds
<1>3. CASE Docker!CancelLogs
  BY <1>3, <1>t DEF Docker!CancelLogs, Docker!source
<1>4. CASE Docker!TakeLine
  BY <1>4, <1>t DEF Docker!TakeLine, Docker!source
<1>5. CASE Docker!OpenLogs
  <2>1. reader' = [reader EXCEPT !.pc = "read"]
    BY <1>5 DEF Docker!OpenLogs
  <2>2. reader' \in ReaderSet /\ reader'.pc = "read"
    BY <1>t, <2>1 DEF ReaderSet, Pcs
  <2>. QED  BY <1>5, <1>t, <2>2 DEF Docker!OpenLogs
<1>6. CASE Docker!ReadFrame
  <2>. DEFINE s == Docker!Slot(Head(body).stream)
              b == reader.pending[s] \o Head(body).data
  <2>1. body # <<>> /\ reader' = [reader EXCEPT !.pc = "cut", !.slot = s, !.buf = b] /\ body' = Tail(body)
    BY <1>6 DEF Docker!ReadFrame
  <2>2. Head(body) \in [stream : 1 .. 3, data : Seq(Nat)] /\ body' \in Seq([stream : 1 .. 3, data : Seq(Nat)])
    BY <1>t, <2>1, HeadTailProperties
  <2>3. s \in 1 .. 2
    BY <2>2 DEF Docker!Slot
  <2>4. b \in Seq(Nat)
    <3>1. reader.pending[s] \in Seq(Nat)
      BY <1>t, <2>3 DEF ReaderSet, Pcs, Docker!Slots
    <3>2. Head(body).data \in Seq(Nat)
      BY <2>2
    <3>. QED  BY <3>1, <3>2, ConcatProperties
  <2>. HIDE DEF s, b
  <2>5. reader' \in ReaderSet /\ reader'.slot \in Docker!Slots
    <3>1. s \in 0 .. 3 /\ s \in Docker!Slots
      BY <2>3 DEF Docker!Slots
    <3>2. reader.pending \in [Docker!Slots -> Seq(Nat)]
      BY <1>t DEF ReaderSet, Pcs
    <3>3. reader \in ReaderSet /\ "cut" \in Pcs
      BY <1>t DEF Pcs
    <3>4. /\ [reader EXCEPT !.pc = "cut", !.slot = s, !.buf = b] \in ReaderSet
          /\ [reader EXCEPT !.pc = "cut", !.slot = s, !.buf = b].slot = s
      BY <2>4, <3>1, <3>3 DEF ReaderSet
    <3>. QED  BY <2>1, <3>1, <3>4
  <2>. QED  BY <1>6, <1>t, <2>2, <2>5 DEF Docker!ReadFrame
<1>7. CASE Docker!EmitLine
  <2>. DEFINE n == Docker!Newline(reader.buf)
              l == SubSeq(reader.buf, 1, n - 1)
              r == SubSeq(reader.buf, n + 1, Len(reader.buf))
  <2>1. reader.buf \in Seq(Nat) /\ Len(reader.buf) \in Nat
    BY <1>t DEF ReaderSet, Pcs
  <2>2. n \in 0 .. Len(reader.buf)
    BY <2>1, NewlineInside
  <2>3. /\ n # 0 /\ Docker!Put(Docker!Line(l, reader.slot))
        /\ reader' = [reader EXCEPT !.buf = r] /\ UNCHANGED <<tty, body, ended, size, dCancelled>>
    BY <1>7 DEF Docker!EmitLine, Docker!source
  <2>. HIDE DEF n
  <2>4. l \in Seq(Nat) /\ r \in Seq(Nat)
    <3>1. n \in Int /\ n - 1 \in Int /\ n + 1 \in Int /\ 1 \in Int /\ Len(reader.buf) \in Int
      BY <2>1, <2>2
    <3>2. \A i \in 1 .. n - 1 : reader.buf[i] \in Nat
      BY <2>1, <2>2
    <3>3. \A i \in n + 1 .. Len(reader.buf) : reader.buf[i] \in Nat
      BY <2>1, <2>2
    <3>. QED  BY <3>1, <3>2, <3>3, SubSeqProperties
  <2>5. dQueued' \in 0 .. OutCap /\ dHeard' \in Seq(DockerLine)
    BY <2>3, <2>4, PutType
  <2>. HIDE DEF l, r
  <2>6. reader' \in ReaderSet /\ reader'.slot = reader.slot /\ reader'.pc = reader.pc
    BY <1>t, <2>3, <2>4 DEF ReaderSet, Pcs
  <2>. QED  BY <1>t, <2>3, <2>5, <2>6
<1>8. CASE Docker!KeepRest
  <2>1. reader.pc = "cut" /\ reader' = [reader EXCEPT !.pc = "read", !.pending[reader.slot] = reader.buf, !.buf = <<>>]
    BY <1>8 DEF Docker!KeepRest
  <2>2. reader' \in ReaderSet /\ reader'.pc = "read"
    <3>1. reader.buf \in Seq(Nat) /\ reader.slot \in Docker!Slots /\ <<>> \in Seq(Nat)
      BY <1>t, <2>1 DEF ReaderSet, Pcs
    <3>2. [reader.pending EXCEPT ![reader.slot] = reader.buf] \in [Docker!Slots -> Seq(Nat)]
      BY <1>t, <3>1 DEF ReaderSet, Pcs
    <3>. QED  BY <1>t, <2>1, <3>1, <3>2 DEF ReaderSet, Pcs
  <2>. QED  BY <1>8, <1>t, <2>2 DEF Docker!KeepRest, Docker!source
<1>9. CASE Docker!EmitGivesUp \/ Docker!TooLong \/ Docker!CloseLogs
  <2>1. reader' = [reader EXCEPT !.pc = "closed"] /\ UNCHANGED <<Docker!source, dCancelled, dQueued, dHeard>>
    BY <1>9 DEF Docker!EmitGivesUp, Docker!TooLong, Docker!CloseLogs
  <2>2. reader' \in ReaderSet /\ reader'.pc = "closed"
    BY <1>t, <2>1 DEF ReaderSet, Pcs
  <2>. QED  BY <1>t, <2>1, <2>2 DEF Docker!source
<1>10. CASE Docker!ReadFails
  <2>1. reader' = [reader EXCEPT !.pc = "flush", !.slot = 0] /\ UNCHANGED <<Docker!source, dCancelled, dQueued, dHeard>>
    BY <1>10 DEF Docker!ReadFails
  <2>2. reader' \in ReaderSet /\ reader'.pc = "flush"
    <3>1. reader \in ReaderSet /\ 0 \in 0 .. 3
      BY <1>t
    <3>. QED  BY <2>1, <3>1, ReaderUpdates DEF Pcs
  <2>. QED  BY <1>t, <2>1, <2>2 DEF Docker!source
<1>11. CASE Docker!FlushRest
  <2>1. /\ reader.pc = "flush" /\ reader.slot \in Docker!Slots
        /\ reader' = [reader EXCEPT !.slot = @ + 1] /\ UNCHANGED <<Docker!source, dCancelled>>
        /\ Docker!Put(Docker!Line(reader.pending[reader.slot], reader.slot)) \/ UNCHANGED <<dQueued, dHeard>>
    BY <1>11 DEF Docker!FlushRest
  <2>2. reader.pending[reader.slot] \in Seq(Nat)
    BY <1>t, <2>1 DEF ReaderSet, Pcs
  <2>3. dQueued' \in 0 .. OutCap /\ dHeard' \in Seq(DockerLine)
    BY <1>t, <2>1, <2>2, PutType
  <2>4. reader' \in ReaderSet /\ reader'.pc = "flush"
    <3>1. reader.slot + 1 \in 0 .. 3
      BY <2>1 DEF Docker!Slots
    <3>2. reader \in ReaderSet
      BY <1>t
    <3>. QED  BY <2>1, <3>1, <3>2 DEF ReaderSet, Pcs
  <2>. QED  BY <1>t, <2>1, <2>3, <2>4 DEF Docker!source
<1>12. CASE UNCHANGED Docker!vars
  BY <1>12, <1>t DEF Docker!vars, Docker!source
<1>. QED
  BY <1>1, <1>2, <1>3, <1>4, <1>5, <1>6, <1>7, <1>8, <1>9, <1>10, <1>11, <1>12
     DEF Docker!Next, Docker!Step

-----------------------------------------------------------------------------
(* The journal: types, and that a failure is told.                         *)

JournalMessage == [kind : Journal!Kinds, number : 1 .. MaxOutput]
JournalLine    == (1 .. MaxOutput) \cup {Journal!Notice}

\* The notice is the last that is put, of a journalctl that failed.
JournalTold ==
  /\ \A i \in DOMAIN jHeard : jHeard[i] = Journal!Notice => jPc = "closed"
  /\ jPc = "put" => entry # 0
  /\ jPc \in {"notice", "closed"} => child \notin {"none", "running"}
  /\ jPc = "notice" /\ ~jCancelled => child = "failed"
  /\ child = "killed" => jCancelled
  /\ child = "none" <=> jPc = "none"
  /\ Journal!FailureIsTold

LEMMA JournalFacts ==
  ASSUME Journal!TypeOK
  PROVE  /\ OutCap \in Nat /\ MaxOutput \in Nat
         /\ pipe \in Seq(JournalMessage) /\ jHeard \in Seq(JournalLine)
         /\ printed \in [lines : 0 .. MaxOutput, endless : Nat, entries : Seq(1 .. MaxOutput)]
         /\ entry \in 0 .. MaxOutput /\ jQueued \in 0 .. OutCap
BY ProvidersAssumption DEF ProvidersAssumption, Journal!JournalAssumption, Journal!TypeOK, JournalMessage, JournalLine

LEMMA JournalInit == Journal!Init => Journal!TypeOK /\ JournalTold
<1>. SUFFICES ASSUME Journal!Init PROVE Journal!TypeOK /\ JournalTold
  OBVIOUS
<1>1. OutCap \in Nat /\ MaxOutput \in Nat
  BY ProvidersAssumption DEF ProvidersAssumption, Journal!JournalAssumption
<1>2. pipe = <<>> /\ jHeard = <<>> /\ printed = [lines |-> 0, endless |-> 0, entries |-> <<>>]
  BY DEF Journal!Init
<1>3. pipe \in Seq([kind : Journal!Kinds, number : 1 .. MaxOutput]) /\ jHeard \in Seq(JournalLine)
  BY <1>2, EmptySeq
<1>4. printed \in [lines : 0 .. MaxOutput, endless : Nat, entries : Seq(1 .. MaxOutput)]
  BY <1>1, <1>2, EmptySeq
<1>5. entry \in 0 .. MaxOutput /\ jQueued \in 0 .. OutCap
  BY <1>1 DEF Journal!Init
<1>6. Journal!TypeOK
  BY <1>3, <1>4, <1>5 DEF Journal!Init, Journal!TypeOK, JournalLine
<1>7. JournalTold
  BY <1>2 DEF Journal!Init, JournalTold, Journal!FailureIsTold
<1>. QED  BY <1>6, <1>7

\* A line that is put is the last that was heard; nothing else changes what was.
LEMMA JournalPut ==
  ASSUME Journal!TypeOK, NEW said \in JournalLine, Journal!PutLine(said)
  PROVE  /\ jQueued' \in 0 .. OutCap /\ jHeard' \in Seq(JournalLine)
         /\ jCancelled => jHeard' = jHeard
         /\ ~jCancelled => /\ jHeard' # <<>> /\ Journal!Last(jHeard') = said
                           /\ \A i \in DOMAIN jHeard' : jHeard'[i] = said \/ (i \in DOMAIN jHeard /\ jHeard[i] = jHeard'[i])
<1>1. jQueued' \in 0 .. OutCap
  BY JournalFacts DEF Journal!PutLine
<1>2. jHeard \in Seq(JournalLine)
  BY JournalFacts
<1>3. CASE jCancelled
  BY <1>1, <1>2, <1>3 DEF Journal!PutLine
<1>4. CASE ~jCancelled
  <2>1. jHeard' = Append(jHeard, said)
    BY <1>4 DEF Journal!PutLine
  <2>2. /\ jHeard' \in Seq(JournalLine) /\ jHeard' # <<>> /\ Len(jHeard') = Len(jHeard) + 1
        /\ \A i \in 1 .. Len(jHeard) : jHeard'[i] = jHeard[i]
        /\ jHeard'[Len(jHeard) + 1] = said
    BY <1>2, <2>1, AppendProperties
  <2>3. DOMAIN jHeard' = 1 .. Len(jHeard) + 1 /\ DOMAIN jHeard = 1 .. Len(jHeard) /\ Len(jHeard) \in Nat
    BY <1>2, <2>2
  <2>. QED  BY <1>1, <1>4, <2>2, <2>3 DEF Journal!Last
<1>. QED  BY <1>3, <1>4

LEMMA JournalTypeStep == Journal!TypeOK /\ [Journal!Next]_(Journal!vars) => Journal!TypeOK'
<1>. SUFFICES ASSUME Journal!TypeOK, [Journal!Next]_(Journal!vars) PROVE Journal!TypeOK'
  OBVIOUS
<1>t. /\ pipe \in Seq(JournalMessage) /\ jHeard \in Seq(JournalLine)
      /\ printed \in [lines : 0 .. MaxOutput, endless : Nat, entries : Seq(1 .. MaxOutput)]
      /\ entry \in 0 .. MaxOutput /\ jQueued \in 0 .. OutCap /\ OutCap \in Nat /\ MaxOutput \in Nat
  BY JournalFacts
<1>1. ASSUME NEW kind \in Journal!Kinds, Journal!PrintLine(kind) PROVE Journal!TypeOK'
  <2>. DEFINE n == printed.lines + 1
  <2>1. n \in 1 .. MaxOutput
    BY <1>1, <1>t DEF Journal!PrintLine
  <2>2. pipe' = Append(pipe, [kind |-> kind, number |-> n])
    BY <1>1 DEF Journal!PrintLine
  <2>3. pipe' \in Seq(JournalMessage)
    <3>1. [kind |-> kind, number |-> n] \in JournalMessage
      BY <2>1 DEF JournalMessage
    <3>. QED  BY <1>t, <2>2, <3>1, AppendProperties
  <2>4. printed' \in [lines : 0 .. MaxOutput, endless : Nat, entries : Seq(1 .. MaxOutput)]
    <3>1. printed.entries \in Seq(1 .. MaxOutput) /\ Append(printed.entries, n) \in Seq(1 .. MaxOutput)
      BY <1>t, <2>1, AppendProperties
    <3>2. /\ printed'.lines = n
          /\ printed' = [lines |-> printed'.lines, endless |-> printed'.endless, entries |-> printed'.entries]
          /\ printed'.endless \in {printed.endless, Len(printed.entries) + 1}
          /\ printed'.entries \in {printed.entries, Append(printed.entries, n)}
      BY <1>1, <1>t DEF Journal!PrintLine
    <3>3. printed'.lines \in 0 .. MaxOutput
      BY <2>1, <3>2
    <3>4. printed'.entries \in Seq(1 .. MaxOutput)
      BY <3>1, <3>2
    <3>5. printed'.endless \in Nat
      <4>1. printed.endless \in Nat /\ Len(printed.entries) \in Nat
        BY <1>t, <3>1
      <4>. QED  BY <3>2, <4>1
    <3>. QED  BY <3>2, <3>3, <3>4, <3>5
  <2>. QED  BY <1>1, <1>t, <2>3, <2>4 DEF Journal!PrintLine, Journal!TypeOK, JournalMessage
<1>2. ASSUME NEW how \in {"done", "failed"}, Journal!ChildEnds(how) PROVE Journal!TypeOK'
  BY <1>2 DEF Journal!ChildEnds, Journal!TypeOK
<1>3. CASE Journal!CancelLogs
  BY <1>3 DEF Journal!CancelLogs, Journal!TypeOK
<1>4. CASE Journal!Kill
  BY <1>4 DEF Journal!Kill, Journal!TypeOK
<1>5. CASE Journal!TakeLine
  BY <1>5, <1>t DEF Journal!TakeLine, Journal!TypeOK
<1>6. CASE Journal!StartChild
  BY <1>6 DEF Journal!StartChild, Journal!TypeOK
<1>7. CASE Journal!Scan
  <2>1. pipe # <<>> /\ pipe' = Tail(pipe)
    BY <1>7 DEF Journal!Scan
  <2>2. Head(pipe) \in JournalMessage /\ pipe' \in Seq(JournalMessage)
    BY <1>t, <2>1, HeadTailProperties
  <2>3. Head(pipe).number \in 0 .. MaxOutput
    BY <2>2 DEF JournalMessage
  <2>4. jPc' \in {"scan", "put", "wait"} /\ entry' \in 0 .. MaxOutput
    BY <1>7, <1>t, <2>3 DEF Journal!Scan
  <2>. QED  BY <1>7, <2>2, <2>4 DEF Journal!Scan, Journal!TypeOK, JournalMessage
<1>8. CASE Journal!ScanEnds
  BY <1>8 DEF Journal!ScanEnds, Journal!TypeOK
<1>9. CASE Journal!Put
  <2>1. jQueued' \in 0 .. OutCap /\ jHeard' \in Seq(JournalLine)
    <3>1. entry \in JournalLine
      BY <1>t DEF JournalLine, Journal!Notice
    <3>. QED  BY <1>9, <1>t, <3>1, JournalPut DEF Journal!Put
  <2>. QED  BY <1>9, <2>1 DEF Journal!Put, Journal!TypeOK, JournalLine
<1>10. CASE Journal!Wait
  BY <1>10 DEF Journal!Wait, Journal!TypeOK
<1>11. CASE Journal!PutNotice
  <2>1. jQueued' \in 0 .. OutCap /\ jHeard' \in Seq(JournalLine)
    <3>1. Journal!Notice \in JournalLine
      BY DEF JournalLine
    <3>. QED  BY <1>11, <1>t, <3>1, JournalPut DEF Journal!PutNotice
  <2>. QED  BY <1>11, <2>1 DEF Journal!PutNotice, Journal!TypeOK, JournalLine
<1>12. CASE UNCHANGED Journal!vars
  BY <1>12 DEF Journal!vars, Journal!TypeOK
<1>. QED
  BY <1>1, <1>2, <1>3, <1>4, <1>5, <1>6, <1>7, <1>8, <1>9, <1>10, <1>11, <1>12
     DEF Journal!Next, Journal!Step

LEMMA JournalToldStep ==
  ASSUME Journal!TypeOK, JournalTold, [Journal!Next]_(Journal!vars)
  PROVE  JournalTold'
<1>1. CASE UNCHANGED <<jHeard, jPc, entry, child, jCancelled>>
  BY <1>1 DEF JournalTold, Journal!FailureIsTold
<1>2. ASSUME NEW kind \in Journal!Kinds, Journal!PrintLine(kind) PROVE JournalTold'
  BY <1>1, <1>2 DEF Journal!PrintLine
<1>3. ASSUME NEW how \in {"done", "failed"}, Journal!ChildEnds(how) PROVE JournalTold'
  BY <1>3 DEF Journal!ChildEnds, JournalTold, Journal!FailureIsTold
<1>4. CASE Journal!CancelLogs
  BY <1>4 DEF Journal!CancelLogs, JournalTold, Journal!FailureIsTold
<1>5. CASE Journal!Kill
  BY <1>5 DEF Journal!Kill, JournalTold, Journal!FailureIsTold
<1>6. CASE Journal!TakeLine
  BY <1>1, <1>6 DEF Journal!TakeLine
<1>7. CASE Journal!StartChild
  BY <1>7 DEF Journal!StartChild, JournalTold, Journal!FailureIsTold
<1>8. CASE Journal!Scan
  <2>1. jPc' = "put" => entry' # 0
    <3>1. pipe # <<>> /\ pipe \in Seq(JournalMessage)
      BY <1>8, JournalFacts DEF Journal!Scan
    <3>2. Head(pipe).number \in 1 .. MaxOutput
      <4>1. Head(pipe) \in JournalMessage
        BY <3>1, HeadTailProperties
      <4>. QED  BY <4>1 DEF JournalMessage
    <3>. QED  BY <1>8, <3>2, JournalFacts DEF Journal!Scan
  <2>. QED  BY <1>8, <2>1 DEF Journal!Scan, JournalTold, Journal!FailureIsTold
<1>9. CASE Journal!ScanEnds
  BY <1>9 DEF Journal!ScanEnds, JournalTold, Journal!FailureIsTold
<1>10. CASE Journal!Put
  <2>1. entry \in JournalLine /\ entry # 0
    BY <1>10, JournalFacts DEF Journal!Put, JournalTold, JournalLine, Journal!Notice
  <2>2. \A i \in DOMAIN jHeard' : jHeard'[i] # Journal!Notice
    BY <1>10, <2>1, JournalPut DEF Journal!Put, JournalTold, Journal!Notice
  <2>3. jPc' \in {"wait", "scan"} /\ UNCHANGED <<child, jCancelled, entry>> /\ jPc = "put"
    BY <1>10 DEF Journal!Put
  <2>. QED  BY <2>2, <2>3 DEF JournalTold, Journal!FailureIsTold
<1>11. CASE Journal!Wait
  BY <1>11 DEF Journal!Wait, JournalTold, Journal!FailureIsTold, Journal!Last
<1>12. CASE Journal!PutNotice
  <2>1. ~jCancelled => jHeard' # <<>> /\ Journal!Last(jHeard') = Journal!Notice
    BY <1>12, JournalPut DEF Journal!PutNotice, JournalLine
  <2>2. jPc' = "closed" /\ UNCHANGED <<child, jCancelled, entry>> /\ jPc = "notice"
    BY <1>12 DEF Journal!PutNotice
  <2>. QED  BY <2>1, <2>2 DEF JournalTold, Journal!FailureIsTold
<1>13. CASE UNCHANGED Journal!vars
  BY <1>1, <1>13 DEF Journal!vars
<1>. QED
  BY <1>2, <1>3, <1>4, <1>5, <1>6, <1>7, <1>8, <1>9, <1>10, <1>11, <1>12, <1>13
     DEF Journal!Next, Journal!Step

-----------------------------------------------------------------------------
(* The console: types, that a failure is told, and that no line is missed. *)

Message == [event : Console!Events \cup {"console output"}, lines : Seq(1 .. MaxSaid)]

\* Messages are on their way with lines of the console; a line that waits to be
\* put does so only while lines are put.
SentSet  == [lines : Seq(1 .. MaxSaid), denied : Nat]
WingsSet == [said : 0 .. MaxSaid, authorised : BOOLEAN, open : BOOLEAN, expiries : 0 .. MaxExpiries]

ConsoleType ==
  /\ wings \in WingsSet
  /\ toWings \in Seq({"auth", "send logs"}) /\ toDashd \in Seq(Message)
  /\ wCancelled \in BOOLEAN /\ reply \in {"auth", "send logs"}
  /\ wPc \in {"none", "read", "send", "fetch", "emit", "notice", "closed", "failed"}
  /\ left \in Seq(1 .. MaxSaid) /\ sent \in SentSet
  /\ wHeard \in Seq(0 .. MaxSaid) /\ wQueued \in 0 .. OutCap
  /\ wPc \notin {"emit", "closed"} => left = <<>>

\* The notice is put last, and always.
ConsoleTold ==
  /\ \A i \in DOMAIN wHeard : wHeard[i] = Console!Notice => wPc = "failed"
  /\ Console!FailureIsTold

\* A replay is asked for, or is going to be.
Asked == \/ \E i \in DOMAIN toWings : toWings[i] = "send logs"
         \/ wPc = "send" /\ reply = "send logs"
         \/ \E i \in DOMAIN toDashd : toDashd[i].event = "auth success"

\* A line was heard, waits to be put, or is on its way.
Outputs == {i \in DOMAIN toDashd : toDashd[i].event = "console output"}
Coming  == Console!ToSet(wHeard) \cup Console!ToSet(left) \cup
             UNION {Console!ToSet(toDashd[i].lines) : i \in Outputs}

\* On a connection that is authorised nothing is missing, or a replay is due.
Complete ==
  /\ wings.authorised => wings.open
  /\ wPc = "none" => ~wings.open
  /\ wings.authorised /\ ~wCancelled /\ wPc \notin {"closed", "notice", "failed"} =>
       Asked \/ \A n \in 1 .. wings.said : n \in Coming

LEMMA ConsoleNumbers ==
  ASSUME ConsoleType
  PROVE  /\ OutCap \in Nat /\ MaxSaid \in Nat /\ MaxExpiries \in Nat /\ wQueued \in 0 .. OutCap
         /\ wings.said \in 0 .. MaxSaid /\ wings.expiries \in 0 .. MaxExpiries
         /\ Console!Notice \in 0 .. MaxSaid
<1>1. OutCap \in Nat /\ MaxSaid \in Nat /\ MaxExpiries \in Nat
  BY ProvidersAssumption DEF ProvidersAssumption, Console!ConsoleAssumption
<1>2. wings \in WingsSet /\ wQueued \in 0 .. OutCap
  BY DEF ConsoleType
<1>3. wings.said \in 0 .. MaxSaid /\ wings.expiries \in 0 .. MaxExpiries
  BY <1>2 DEF WingsSet
<1>. QED  BY <1>1, <1>2, <1>3 DEF Console!Notice

LEMMA OneMore ==
  ASSUME NEW bound \in Nat, NEW n \in 0 .. bound, n < bound
  PROVE  n + 1 \in 0 .. bound
OBVIOUS

LEMMA Elements == ASSUME NEW S, NEW q \in Seq(S) PROVE \A i \in DOMAIN q : q[i] \in S
BY LenProperties, ElementOfSeq

LEMMA ConsoleTyped == ASSUME ConsoleType PROVE Console!TypeOK
<1>1. \A i \in DOMAIN toDashd : toDashd[i].event \in Console!Events \cup {"console output"}
  <2>1. \A i \in DOMAIN toDashd : toDashd[i] \in Message
    BY Elements DEF ConsoleType
  <2>. QED  BY <2>1 DEF Message
<1>. QED  BY <1>1 DEF ConsoleType, Console!TypeOK, WingsSet, SentSet

\* What Wings sends can be read.
LEMMA Messages ==
  ASSUME ConsoleType
  PROVE  /\ \A e \in Console!Events : Append(toDashd, Console!Event(e)) \in Seq(Message)
         /\ wings.said < MaxSaid => Append(toDashd, Console!Output(<<wings.said + 1>>)) \in Seq(Message)
         /\ Append(toDashd, Console!Output(Console!AllLines)) \in Seq(Message)
<1>1. toDashd \in Seq(Message) /\ wings.said \in 0 .. MaxSaid /\ MaxSaid \in Nat
  BY ConsoleNumbers DEF ConsoleType
<1>2. ASSUME NEW e \in Console!Events PROVE Append(toDashd, Console!Event(e)) \in Seq(Message)
  <2>1. Console!Event(e) \in Message
    BY EmptySeq DEF Console!Event, Message
  <2>. QED  BY <1>1, <2>1, AppendProperties
<1>3. ASSUME wings.said < MaxSaid
      PROVE  Append(toDashd, Console!Output(<<wings.said + 1>>)) \in Seq(Message)
  <2>1. wings.said + 1 \in 1 .. MaxSaid
    BY <1>1, <1>3
  <2>2. <<wings.said + 1>> \in Seq(1 .. MaxSaid)
    BY <2>1
  <2>3. Console!Output(<<wings.said + 1>>) \in Message
    BY <2>2 DEF Console!Output, Message
  <2>. QED  BY <1>1, <2>3, AppendProperties
<1>4. Console!AllLines \in Seq(1 .. MaxSaid) /\ Console!Output(Console!AllLines) \in Message
  <2>1. Console!AllLines \in Seq(1 .. MaxSaid)
    BY <1>1 DEF Console!AllLines
  <2>. QED  BY <2>1 DEF Console!Output, Message
<1>5. Append(toDashd, Console!Output(Console!AllLines)) \in Seq(Message)
  BY <1>1, <1>4, AppendProperties
<1>. QED  BY <1>2, <1>3, <1>5

\* What is denied is the number of a line.
LEMMA DenyType ==
  ASSUME ConsoleType, NEW n \in Nat, Console!Deny(n)
  PROVE  sent' \in SentSet
<1>1. sent \in SentSet
  BY DEF ConsoleType
<1>2. sent' = [sent EXCEPT !.denied = IF sent.denied = 0 \/ n < sent.denied THEN n ELSE sent.denied]
  BY DEF Console!Deny
<1>. QED  BY <1>1, <1>2 DEF SentSet

LEMMA ConsoleInit == Console!Init => ConsoleType /\ ConsoleTold /\ Complete
<1>. SUFFICES ASSUME Console!Init PROVE ConsoleType /\ ConsoleTold /\ Complete
  OBVIOUS
<1>1. OutCap \in Nat /\ MaxSaid \in Nat /\ MaxExpiries \in Nat
  BY ProvidersAssumption DEF ProvidersAssumption, Console!ConsoleAssumption
<1>2. /\ toWings = <<>> /\ toDashd = <<>> /\ left = <<>> /\ wHeard = <<>> /\ sent = [lines |-> <<>>, denied |-> 0]
      /\ wQueued = 0 /\ wings = [said |-> 0, authorised |-> FALSE, open |-> FALSE, expiries |-> 0]
  BY DEF Console!Init
<1>3. wCancelled \in BOOLEAN /\ wPc = "none" /\ reply \in {"auth", "send logs"}
  BY DEF Console!Init
<1>4. wings \in WingsSet /\ wQueued \in 0 .. OutCap
  BY <1>1, <1>2 DEF WingsSet
<1>s. sent \in SentSet
  BY <1>2, EmptySeq DEF SentSet
<1>5. ConsoleType
  BY <1>2, <1>3, <1>4, <1>s, EmptySeq DEF ConsoleType
<1>6. ConsoleTold
  <2>1. DOMAIN wHeard = {} /\ wPc \notin {"closed", "failed"}
    <3>1. wPc \notin {"closed", "failed"}
      BY <1>3
    <3>2. Len(<<>>) = 0 /\ DOMAIN <<>> = 1 .. 0
      OBVIOUS
    <3>. QED  BY <1>2, <3>1, <3>2
  <2>. QED  BY <2>1 DEF ConsoleTold, Console!FailureIsTold
<1>7. Complete
  <2>1. wings.authorised = FALSE /\ wings.open = FALSE
    BY <1>2
  <2>. QED  BY <2>1 DEF Complete
<1>. QED  BY <1>5, <1>6, <1>7

\* A line that is put is the last that was heard; nothing else changes what was.
LEMMA ConsolePut ==
  ASSUME ConsoleType, NEW said \in 0 .. MaxSaid, Console!PutLine(said)
  PROVE  /\ wQueued' \in 0 .. OutCap /\ wHeard' \in Seq(0 .. MaxSaid)
         /\ wCancelled => wHeard' = wHeard
         /\ ~wCancelled => /\ wHeard' # <<>> /\ Console!Last(wHeard') = said /\ said \in Console!ToSet(wHeard')
                           /\ wHeard' = Append(wHeard, said)
                           /\ \A i \in DOMAIN wHeard' : wHeard'[i] = said \/ (i \in DOMAIN wHeard /\ wHeard[i] = wHeard'[i])
                           /\ \A n \in Console!ToSet(wHeard) : n \in Console!ToSet(wHeard')
<1>1. wQueued' \in 0 .. OutCap
  BY ConsoleNumbers DEF Console!PutLine
<1>2. wHeard \in Seq(0 .. MaxSaid)
  BY DEF ConsoleType
<1>3. CASE wCancelled
  BY <1>1, <1>2, <1>3 DEF Console!PutLine
<1>4. CASE ~wCancelled
  <2>1. wHeard' = Append(wHeard, said)
    BY <1>4 DEF Console!PutLine
  <2>2. /\ wHeard' \in Seq(0 .. MaxSaid) /\ wHeard' # <<>> /\ Len(wHeard') = Len(wHeard) + 1
        /\ \A i \in 1 .. Len(wHeard) : wHeard'[i] = wHeard[i]
        /\ wHeard'[Len(wHeard) + 1] = said
    BY <1>2, <2>1, AppendProperties
  <2>3. DOMAIN wHeard' = 1 .. Len(wHeard) + 1 /\ DOMAIN wHeard = 1 .. Len(wHeard) /\ Len(wHeard) \in Nat
    BY <1>2, <2>2
  <2>4. Len(wHeard) + 1 \in DOMAIN wHeard' /\ \A i \in DOMAIN wHeard : i \in DOMAIN wHeard'
    BY <2>3
  <2>5. Console!Last(wHeard') = said /\ said \in Console!ToSet(wHeard')
    BY <2>2, <2>4 DEF Console!Last, Console!ToSet
  <2>6. \A n \in Console!ToSet(wHeard) : n \in Console!ToSet(wHeard')
    BY <2>2, <2>3, <2>4 DEF Console!ToSet
  <2>7. \A i \in DOMAIN wHeard' : wHeard'[i] = said \/ (i \in DOMAIN wHeard /\ wHeard[i] = wHeard'[i])
    BY <2>2, <2>3
  <2>. QED  BY <1>1, <1>4, <2>1, <2>2, <2>5, <2>6, <2>7
<1>. QED  BY <1>3, <1>4

\* The place after the last element of a sequence.
LEMMA NextPlace == ASSUME NEW S, NEW s \in Seq(S) PROVE Len(s) + 1 \in Nat
<1>1. Len(s) \in Nat
  BY LenProperties
<1>. QED  BY <1>1

LEMMA ConsoleTypeStep == ConsoleType /\ [Console!Next]_(Console!vars) => ConsoleType'
<1>. SUFFICES ASSUME ConsoleType, [Console!Next]_(Console!vars) PROVE ConsoleType'
  OBVIOUS
<1>t. /\ wings \in WingsSet
      /\ toWings \in Seq({"auth", "send logs"}) /\ toDashd \in Seq(Message)
      /\ left \in Seq(1 .. MaxSaid) /\ sent \in SentSet
      /\ wHeard \in Seq(0 .. MaxSaid) /\ wQueued \in 0 .. OutCap
  BY DEF ConsoleType
<1>p. /\ wCancelled \in BOOLEAN /\ reply \in {"auth", "send logs"}
      /\ wPc \in {"none", "read", "send", "fetch", "emit", "notice", "closed", "failed"}
      /\ wPc \notin {"emit", "closed"} => left = <<>>
  BY DEF ConsoleType
<1>h. Len(wHeard) + 1 \in Nat
  BY <1>t, NextPlace
<1>1. CASE Console!ServerSays
  <2>1. wings' = [wings EXCEPT !.said = @ + 1] /\ wings.said < MaxSaid
    BY <1>1 DEF Console!ServerSays
  <2>2. wings' \in WingsSet
    <3>1. wings.said < MaxSaid /\ wings.said \in 0 .. MaxSaid /\ MaxSaid \in Nat
      <4>1. wings.said < MaxSaid
        BY <1>1 DEF Console!ServerSays
      <4>. QED  BY <4>1, ConsoleNumbers
    <3>2. wings.said + 1 \in 0 .. MaxSaid
      BY <3>1, OneMore
    <3>3. wings \in WingsSet
      BY <1>t
    <3>4. [wings EXCEPT !.said = @ + 1] = [wings EXCEPT !.said = wings.said + 1]
      OBVIOUS
    <3>. DEFINE k == wings.said + 1
    <3>5. k \in 0 .. MaxSaid
      BY <3>2
    <3>. HIDE DEF k
    <3>6. [wings EXCEPT !.said = k] \in WingsSet
      BY <3>3, <3>5 DEF WingsSet
    <3>. QED  BY <2>1, <3>4, <3>6 DEF k
  <2>3. toDashd' \in Seq(Message)
    BY <1>1, <1>t, <2>1, Messages DEF Console!ServerSays
  <2>4. sent' \in SentSet
    <3>1. wings.said + 1 \in 1 .. MaxSaid
      BY <2>1, ConsoleNumbers
    <3>2. sent.lines \in Seq(1 .. MaxSaid)
      BY <1>t DEF SentSet
    <3>. DEFINE q == Append(sent.lines, wings.said + 1)
    <3>3. q \in Seq(1 .. MaxSaid)
      BY <3>1, <3>2, AppendProperties
    <3>4. sent' = sent \/ sent' = [sent EXCEPT !.lines = q]
      BY <1>1 DEF Console!ServerSays
    <3>. HIDE DEF q
    <3>. QED  BY <1>t, <3>3, <3>4 DEF SentSet
  <2>. QED  BY <1>1, <1>t, <1>p, <2>2, <2>3, <2>4 DEF ConsoleType, Console!ServerSays, Console!follower
<1>2. CASE Console!WingsAuth
  <2>1. toWings # <<>> /\ toWings' = Tail(toWings)
    BY <1>2 DEF Console!WingsAuth
  <2>2. toWings' \in Seq({"auth", "send logs"})
    BY <1>t, <2>1, HeadTailProperties
  <2>3. toDashd' \in Seq(Message) /\ wings' \in WingsSet
    <3>1. {"auth success", "jwt error"} \subseteq Console!Events
      BY DEF Console!Events
    <3>2. toDashd' \in Seq(Message)
      BY <1>2, <3>1, Messages DEF Console!WingsAuth
    <3>3. wings' = wings \/ wings' = [wings EXCEPT !.authorised = TRUE]
      BY <1>2 DEF Console!WingsAuth
    <3>. QED  BY <1>t, <3>2, <3>3 DEF WingsSet
  <2>4. sent' \in SentSet
    <3>1. Len(sent.lines) + 1 \in Nat
      <4>1. sent.lines \in Seq(1 .. MaxSaid)
        BY <1>t DEF SentSet
      <4>. QED  BY <4>1, NextPlace
    <3>2. Console!Deny(Len(sent.lines) + 1) \/ UNCHANGED sent
      BY <1>2 DEF Console!WingsAuth
    <3>. QED  BY <1>t, <3>1, <3>2, DenyType
  <2>. QED  BY <1>2, <1>t, <1>p, <2>2, <2>3, <2>4 DEF ConsoleType, Console!WingsAuth, Console!follower
<1>3. CASE Console!WingsReplay
  <2>1. toWings # <<>> /\ toWings' = Tail(toWings)
    BY <1>3 DEF Console!WingsReplay
  <2>2. toWings' \in Seq({"auth", "send logs"})
    BY <1>t, <2>1, HeadTailProperties
  <2>3. toDashd' \in Seq(Message)
    BY <1>3, <1>t, Messages DEF Console!WingsReplay
  <2>4. sent' \in SentSet
    <3>1. Console!AllLines \in Seq(1 .. MaxSaid)
      <4>1. wings.said \in 0 .. MaxSaid /\ MaxSaid \in Nat
        BY ConsoleNumbers
      <4>. QED  BY <4>1 DEF Console!AllLines
    <3>2. sent.lines \in Seq(1 .. MaxSaid)
      BY <1>t DEF SentSet
    <3>. DEFINE q == sent.lines \o Console!AllLines
    <3>3. q \in Seq(1 .. MaxSaid)
      BY <3>1, <3>2, ConcatProperties
    <3>4. sent' = sent \/ sent' = [sent EXCEPT !.lines = q]
      BY <1>3 DEF Console!WingsReplay
    <3>. HIDE DEF q
    <3>. QED  BY <1>t, <3>3, <3>4 DEF SentSet
  <2>. QED  BY <1>3, <1>t, <1>p, <2>2, <2>3, <2>4 DEF ConsoleType, Console!WingsReplay, Console!follower
<1>4. ASSUME NEW event \in {"token expiring", "token expired"}, Console!TokenExpires(event)
      PROVE  ConsoleType'
  <2>1. /\ wings.expiries < MaxExpiries
        /\ wings' = [wings EXCEPT !.expiries = @ + 1, !.authorised = event = "token expiring"]
        /\ toDashd' = Append(toDashd, Console!Event(event))
    BY <1>4 DEF Console!TokenExpires
  <2>2. wings' \in WingsSet
    <3>0. wings.expiries < MaxExpiries /\ wings.expiries \in 0 .. MaxExpiries /\ MaxExpiries \in Nat
      <4>1. wings.expiries < MaxExpiries
        BY <1>4 DEF Console!TokenExpires
      <4>. QED  BY <4>1, ConsoleNumbers
    <3>1. wings.expiries + 1 \in 0 .. MaxExpiries
      BY <3>0, OneMore
    <3>. DEFINE k == wings.expiries + 1
                a == event = "token expiring"
    <3>2. a \in BOOLEAN /\ k \in 0 .. MaxExpiries
      BY <3>1
    <3>3. wings' = [wings EXCEPT !.expiries = k, !.authorised = a]
      BY <2>1
    <3>. HIDE DEF k, a
    <3>. QED  BY <1>t, <3>2, <3>3 DEF WingsSet
  <2>3. toDashd' \in Seq(Message)
    BY <2>1, Messages DEF Console!Events
  <2>. QED  BY <1>4, <1>t, <1>p, <2>2, <2>3 DEF ConsoleType, Console!TokenExpires, Console!follower
<1>5. CASE Console!ConnectionBreaks
  <2>1. wings' = [wings EXCEPT !.open = FALSE, !.authorised = FALSE] /\ toWings' = <<>>
    BY <1>5 DEF Console!ConnectionBreaks
  <2>2. wings' \in WingsSet /\ toWings' \in Seq({"auth", "send logs"})
    BY <1>t, <2>1, EmptySeq DEF WingsSet
  <2>. QED  BY <1>5, <1>t, <1>p, <2>2 DEF ConsoleType, Console!ConnectionBreaks, Console!follower
<1>6. CASE Console!CancelLogs
  BY <1>6, <1>t, <1>p DEF ConsoleType, Console!CancelLogs
<1>7. CASE Console!TakeLine
  <2>1. wQueued' \in 0 .. OutCap
    BY <1>7, ConsoleNumbers DEF Console!TakeLine
  <2>. QED  BY <1>7, <1>t, <1>p, <2>1 DEF ConsoleType, Console!TakeLine
<1>8. CASE Console!Connect
  <2>1. wings' = [wings EXCEPT !.open = TRUE] /\ toWings' = <<"auth">>
    BY <1>8 DEF Console!Connect
  <2>2. toWings' \in Seq({"auth", "send logs"})
    BY <2>1
  <2>3. wings' \in WingsSet
    BY <1>t, <2>1 DEF WingsSet
  <2>. QED  BY <1>8, <1>t, <1>p, <2>2, <2>3 DEF ConsoleType, Console!Connect, Console!follower
<1>9. CASE Console!ReadMessage
  <2>1. toDashd # <<>> /\ toDashd' = Tail(toDashd) /\ left = <<>>
    BY <1>9, <1>p DEF Console!ReadMessage
  <2>2. Head(toDashd) \in Message /\ toDashd' \in Seq(Message)
    BY <1>t, <2>1, HeadTailProperties
  <2>3. Head(toDashd).lines \in Seq(1 .. MaxSaid)
    BY <2>2 DEF Message
  <2>4. left' \in Seq(1 .. MaxSaid)
    BY <1>9, <1>t, <2>3 DEF Console!ReadMessage
  <2>5. /\ wCancelled' \in BOOLEAN /\ reply' \in {"auth", "send logs"}
        /\ wPc' \in {"none", "read", "send", "fetch", "emit", "notice", "closed", "failed"}
        /\ wPc' \notin {"emit", "closed"} => left' = <<>>
    BY <1>9, <1>p, <2>1 DEF Console!ReadMessage, Console!follower
  <2>. QED  BY <1>9, <1>t, <2>2, <2>4, <2>5 DEF ConsoleType, Console!ReadMessage, Console!follower
<1>10. CASE Console!ReadFails
  BY <1>10, <1>t, <1>p DEF ConsoleType, Console!ReadFails, Console!follower
<1>11. CASE Console!FetchToken
  BY <1>11, <1>h, <1>t, <1>p, DenyType DEF ConsoleType, Console!FetchToken, Console!follower
<1>12. CASE Console!Send
  <2>1. toWings' \in Seq({"auth", "send logs"})
    <3>1. Append(toWings, reply) \in Seq({"auth", "send logs"})
      BY <1>t, <1>p, AppendProperties
    <3>. QED  BY <1>12, <1>t, <3>1 DEF Console!Send
  <2>2. sent' \in SentSet
    <3>1. Console!Deny(Len(wHeard) + 1) \/ UNCHANGED sent
      BY <1>12 DEF Console!Send
    <3>. QED  BY <1>h, <1>t, <3>1, DenyType
  <2>. QED  BY <1>12, <1>t, <1>p, <2>1, <2>2 DEF ConsoleType, Console!Send, Console!follower
<1>13. CASE Console!EmitLines
  <2>1. left # <<>> /\ wPc = "emit"
    BY <1>13 DEF Console!EmitLines
  <2>2. Head(left) \in 0 .. MaxSaid /\ Tail(left) \in Seq(1 .. MaxSaid)
    <3>1. Head(left) \in 1 .. MaxSaid /\ Tail(left) \in Seq(1 .. MaxSaid)
      BY <1>t, <2>1, HeadTailProperties
    <3>. QED  BY <3>1, ConsoleNumbers
  <2>3. wQueued' \in 0 .. OutCap /\ wHeard' \in Seq(0 .. MaxSaid) /\ left' \in Seq(1 .. MaxSaid)
    BY <1>13, <1>t, <2>2, ConsolePut DEF Console!EmitLines
  <2>4. wPc' \in {"emit", "closed"} /\ UNCHANGED <<wings, toWings, toDashd, wCancelled, reply, sent>>
    BY <1>13, <2>1 DEF Console!EmitLines
  <2>. QED  BY <1>t, <1>p, <2>3, <2>4 DEF ConsoleType
<1>14. CASE Console!Emitted
  BY <1>14, <1>t, <1>p DEF ConsoleType, Console!Emitted, Console!follower
<1>15. CASE Console!PutNotice
  <2>1. wQueued' \in 0 .. OutCap /\ wHeard' \in Seq(0 .. MaxSaid)
    <3>1. Console!Notice \in 0 .. MaxSaid
      BY ConsoleNumbers
    <3>. QED  BY <1>15, <1>t, <3>1, ConsolePut DEF Console!PutNotice
  <2>. QED  BY <1>15, <1>t, <1>p, <2>1 DEF ConsoleType, Console!PutNotice
<1>16. CASE UNCHANGED Console!vars
  BY <1>16, <1>t, <1>p DEF ConsoleType, Console!vars, Console!follower
<1>. QED
  BY <1>1, <1>2, <1>3, <1>4, <1>5, <1>6, <1>7, <1>8, <1>9, <1>10, <1>11, <1>12, <1>13,
     <1>14, <1>15, <1>16
     DEF Console!Next, Console!Step

\* What is appended is there, with all there was; what is taken off is the head.
LEMMA WithAppended ==
  ASSUME NEW S, NEW q \in Seq(S), NEW x \in S, NEW r, r = Append(q, x)
  PROVE  /\ \E i \in DOMAIN r : r[i] = x
         /\ \A i \in DOMAIN q : i \in DOMAIN r /\ r[i] = q[i]
<1>1. /\ Append(q, x) \in Seq(S) /\ Len(Append(q, x)) = Len(q) + 1
      /\ \A i \in 1 .. Len(q) : Append(q, x)[i] = q[i]
      /\ Append(q, x)[Len(q) + 1] = x
  BY AppendProperties
<1>2. Len(q) \in Nat /\ DOMAIN q = 1 .. Len(q) /\ DOMAIN Append(q, x) = 1 .. Len(q) + 1
  BY <1>1
<1>3. Len(q) + 1 \in DOMAIN Append(q, x) /\ \A i \in DOMAIN q : i \in DOMAIN Append(q, x)
  BY <1>2
<1>. QED  BY <1>1, <1>2, <1>3

LEMMA HeadOrTail ==
  ASSUME NEW S, NEW q \in Seq(S), q # <<>>
  PROVE  \A i \in DOMAIN q : q[i] = Head(q) \/ \E j \in DOMAIN Tail(q) : Tail(q)[j] = q[i]
<1>1. /\ Tail(q) \in Seq(S) /\ Len(Tail(q)) = Len(q) - 1 /\ Head(q) = q[1]
      /\ \A j \in 1 .. Len(q) - 1 : Tail(q)[j] = q[j + 1]
  <2>1. Len(q) \in Nat /\ Len(q) # 0
    BY EmptySeq
  <2>. QED  BY <2>1, HeadTailProperties
<1>2. Len(q) \in Nat /\ DOMAIN q = 1 .. Len(q) /\ DOMAIN Tail(q) = 1 .. Len(q) - 1
  BY <1>1
<1>3. ASSUME NEW i \in DOMAIN q, i # 1 PROVE \E j \in DOMAIN Tail(q) : Tail(q)[j] = q[i]
  <2>1. i - 1 \in 1 .. Len(q) - 1 /\ (i - 1) + 1 = i
    BY <1>2, <1>3
  <2>. QED  BY <1>1, <1>2, <2>1
<1>. QED  BY <1>1, <1>3

LEMMA ConsoleToldStep ==
  ASSUME ConsoleType, ConsoleTold, [Console!Next]_(Console!vars)
  PROVE  ConsoleTold'
<1>1. CASE UNCHANGED <<wHeard, wPc, wCancelled>>
  BY <1>1 DEF ConsoleTold, Console!FailureIsTold
<1>2. CASE \/ Console!ServerSays \/ Console!WingsAuth \/ Console!WingsReplay \/ Console!TakeLine
           \/ Console!ConnectionBreaks
           \/ \E event \in {"token expiring", "token expired"} : Console!TokenExpires(event)
  <2>1. UNCHANGED <<wHeard, wPc, wCancelled>>
    BY <1>2 DEF Console!ServerSays, Console!WingsAuth, Console!WingsReplay, Console!TakeLine,
                Console!ConnectionBreaks, Console!TokenExpires, Console!follower
  <2>. QED  BY <1>1, <2>1
<1>3. CASE Console!CancelLogs
  BY <1>3 DEF Console!CancelLogs, ConsoleTold, Console!FailureIsTold
<1>4. CASE \/ Console!Connect \/ Console!ReadMessage \/ Console!ReadFails \/ Console!FetchToken
           \/ Console!Send \/ Console!Emitted
  <2>1. /\ wPc # "failed" /\ wPc' # "failed" /\ UNCHANGED <<wHeard, wCancelled>>
        /\ wPc' = "closed" => wCancelled
    BY <1>4 DEF Console!Connect, Console!ReadMessage, Console!ReadFails, Console!FetchToken,
                Console!Send, Console!Emitted, Console!follower
  <2>. QED  BY <2>1 DEF ConsoleTold, Console!FailureIsTold
<1>5. CASE Console!EmitLines
  <2>1. /\ wPc = "emit" /\ left # <<>> /\ UNCHANGED wCancelled
        /\ \/ Console!PutLine(Head(left)) /\ wPc' = wPc
           \/ wCancelled /\ wPc' = "closed" /\ wHeard' = wHeard
    BY <1>5 DEF Console!EmitLines
  <2>2. left \in Seq(1 .. MaxSaid)
    BY DEF ConsoleType
  <2>3. Head(left) \in 1 .. MaxSaid
    BY <2>1, <2>2, HeadTailProperties
  <2>4. Head(left) \in 0 .. MaxSaid /\ Head(left) # Console!Notice
    BY <2>3, ConsoleNumbers DEF Console!Notice
  <2>5. \A i \in DOMAIN wHeard' : wHeard'[i] # Console!Notice
    BY <2>1, <2>4, ConsolePut DEF ConsoleTold
  <2>. QED  BY <2>1, <2>5 DEF ConsoleTold, Console!FailureIsTold
<1>6. CASE Console!PutNotice
  <2>1. /\ wPc' = "failed" /\ UNCHANGED wCancelled
        /\ Console!PutLine(Console!Notice) \/ (wCancelled /\ UNCHANGED wHeard)
    BY <1>6 DEF Console!PutNotice
  <2>2. ~wCancelled => wHeard' # <<>> /\ Console!Last(wHeard') = Console!Notice
    BY <2>1, ConsoleNumbers, ConsolePut
  <2>. QED  BY <2>1, <2>2 DEF ConsoleTold, Console!FailureIsTold
<1>7. CASE UNCHANGED Console!vars
  BY <1>1, <1>7 DEF Console!vars, Console!follower
<1>. QED
  BY <1>2, <1>3, <1>4, <1>5, <1>6, <1>7 DEF Console!Next, Console!Step


LEMMA CompleteStep ==
  ASSUME ConsoleType, Complete, [Console!Next]_(Console!vars)
  PROVE  Complete'
<1>t. /\ toWings \in Seq({"auth", "send logs"}) /\ toDashd \in Seq(Message)
      /\ left \in Seq(1 .. MaxSaid) /\ wHeard \in Seq(0 .. MaxSaid) /\ wings \in WingsSet
      /\ wPc \notin {"emit", "closed"} => left = <<>>
  BY DEF ConsoleType
<1>a. /\ wings.authorised => wings.open
      /\ wPc = "none" => ~wings.open
  BY DEF Complete
\* What comes still comes when a message is added.
<1>m. ASSUME NEW m \in Message, toDashd' = Append(toDashd, m), UNCHANGED <<wHeard, left>>
      PROVE  /\ \A n : n \in Coming => n \in Coming'
             /\ m.event = "console output" => \A n \in Console!ToSet(m.lines) : n \in Coming'
             /\ m.event = "auth success" => Asked'
             /\ (\E i \in DOMAIN toDashd : toDashd[i].event = "auth success") =>
                  \E i \in DOMAIN toDashd' : toDashd'[i].event = "auth success"
  <2>1. /\ \E i \in DOMAIN toDashd' : toDashd'[i] = m
        /\ \A i \in DOMAIN toDashd : i \in DOMAIN toDashd' /\ toDashd'[i] = toDashd[i]
    <3>1. toDashd \in Seq(Message) /\ m \in Message /\ toDashd' = Append(toDashd, m)
      BY <1>t, <1>m
    <3>. DEFINE q == toDashd
                r == toDashd'
    <3>2. q \in Seq(Message) /\ r = Append(q, m)
      BY <3>1
    <3>. HIDE DEF q, r
    <3>3. /\ \E i \in DOMAIN r : r[i] = m
          /\ \A i \in DOMAIN q : i \in DOMAIN r /\ r[i] = q[i]
      BY <3>1, <3>2, WithAppended, SMTT(30)
    <3>. QED  BY <3>3 DEF q, r
  <2>2. \A n : n \in Coming => n \in Coming'
    BY <1>m, <2>1 DEF Coming, Outputs
  <2>3. m.event = "console output" => \A n \in Console!ToSet(m.lines) : n \in Coming'
    BY <2>1 DEF Coming, Outputs
  <2>4. m.event = "auth success" => Asked'
    BY <2>1 DEF Asked
  <2>. QED  BY <2>1, <2>2, <2>3, <2>4
<1>e. \A e \in Console!Events : Console!Event(e) \in Message /\ Console!Event(e).event = e
  BY EmptySeq DEF Console!Event, Message
<1>1. CASE Console!ServerSays
  <2>1. /\ wings.said < MaxSaid /\ wings' = [wings EXCEPT !.said = @ + 1]
        /\ UNCHANGED <<toWings, wCancelled, wPc, reply, left, wHeard>>
        /\ wings.authorised => toDashd' = Append(toDashd, Console!Output(<<wings.said + 1>>))
    BY <1>1, <1>a DEF Console!ServerSays, Console!follower
  <2>. DEFINE k == wings.said + 1
              m == Console!Output(<<k>>)
  <2>2. k \in 1 .. MaxSaid /\ \A n \in 1 .. k : n \in 1 .. wings.said \/ n = k
    <3>1. wings.said < MaxSaid /\ wings.said \in 0 .. MaxSaid /\ MaxSaid \in Nat
      BY <2>1, ConsoleNumbers
    <3>2. \A u \in Nat : \A s \in 0 .. u : s < u => s + 1 \in 1 .. u /\ \A n \in 1 .. s + 1 : n \in 1 .. s \/ n = s + 1
      OBVIOUS
    <3>. QED  BY <3>1, <3>2
  <2>3. wings'.said = k /\ wings'.authorised = wings.authorised /\ wings'.open = wings.open
    BY <1>t, <2>1 DEF WingsSet
  <2>. HIDE DEF k
  <2>4. m \in Message /\ m.event = "console output" /\ k \in Console!ToSet(m.lines)
    <3>1. <<k>> \in Seq(1 .. MaxSaid) /\ 1 \in DOMAIN <<k>> /\ <<k>>[1] = k
      BY <2>2
    <3>. QED  BY <3>1 DEF Console!Output, Console!ToSet, Message
  <2>. HIDE DEF m
  <2>5. ASSUME wings.authorised PROVE /\ \A n : n \in Coming => n \in Coming'
                                      /\ k \in Coming' /\ (Asked => Asked')
    <3>1. toDashd' = Append(toDashd, m)
      BY <2>1, <2>5 DEF m, k
    <3>2. /\ \A n : n \in Coming => n \in Coming'
          /\ k \in Coming'
          /\ (\E i \in DOMAIN toDashd : toDashd[i].event = "auth success") =>
                \E i \in DOMAIN toDashd' : toDashd'[i].event = "auth success"
      BY <1>m, <2>1, <2>4, <3>1
    <3>3. Asked => Asked'
      BY <2>1, <3>2 DEF Asked
    <3>. QED  BY <3>2, <3>3
  <2>6. wings.authorised /\ ~wCancelled /\ wPc \notin {"closed", "notice", "failed"} =>
          Asked' \/ \A n \in 1 .. k : n \in Coming'
    <3>. SUFFICES ASSUME wings.authorised, ~wCancelled, wPc \notin {"closed", "notice", "failed"}, ~Asked',
                         NEW n \in 1 .. k
                  PROVE  n \in Coming'
      OBVIOUS
    <3>1. \A j \in 1 .. wings.said : j \in Coming
      BY <2>5 DEF Complete
    <3>2. n \in 1 .. wings.said \/ n = k
      BY <2>2
    <3>. QED  BY <2>5, <3>1, <3>2
  <2>. QED  BY <1>a, <2>1, <2>3, <2>6 DEF Complete
<1>2. CASE Console!WingsAuth
  <2>1. /\ wings.open /\ toWings # <<>> /\ Head(toWings) = "auth" /\ toWings' = Tail(toWings)
        /\ UNCHANGED <<wCancelled, wPc, reply, left, wHeard>>
    BY <1>2 DEF Console!WingsAuth, Console!follower
  <2>2. CASE wings' = [wings EXCEPT !.authorised = TRUE] /\ toDashd' = Append(toDashd, Console!Event("auth success"))
    <3>1. Asked'
      BY <1>e, <1>m, <2>1, <2>2 DEF Console!Events
    <3>2. wings'.open = wings.open
      BY <1>t, <2>2 DEF WingsSet
    <3>. QED  BY <1>a, <2>1, <3>1, <3>2 DEF Complete
  <2>3. CASE wings' = wings /\ toDashd' = Append(toDashd, Console!Event("jwt error"))
    <3>0. Console!Event("jwt error") \in Message
      BY <1>e DEF Console!Events
    <3>1. \A n : n \in Coming => n \in Coming'
      <4>1. toDashd' = Append(toDashd, Console!Event("jwt error")) /\ UNCHANGED <<wHeard, left>>
        BY <2>1, <2>3
      <4>. QED  BY <1>m, <3>0, <4>1
    <3>2. \A i \in DOMAIN toWings : toWings[i] = "send logs" => \E j \in DOMAIN toWings' : toWings'[j] = "send logs"
      <4>1. \A i \in DOMAIN toWings : toWings[i] = "auth" \/ \E j \in DOMAIN toWings' : toWings'[j] = toWings[i]
        <5>. DEFINE S == {"auth", "send logs"}
        <5>1. toWings \in Seq(S) /\ toWings # <<>> /\ toWings' = Tail(toWings) /\ Head(toWings) = "auth"
          BY <1>t, <2>1
        <5>. HIDE DEF S
        <5>. QED  BY <5>1, HeadOrTail
      <4>. QED  BY <4>1
    <3>3. (\E i \in DOMAIN toDashd : toDashd[i].event = "auth success") =>
              \E i \in DOMAIN toDashd' : toDashd'[i].event = "auth success"
      <4>1. toDashd' = Append(toDashd, Console!Event("jwt error")) /\ UNCHANGED <<wHeard, left>>
        BY <2>1, <2>3
      <4>. QED  BY <1>m, <3>0, <4>1
    <3>4. Asked => Asked'
      BY <2>1, <3>2, <3>3 DEF Asked
    <3>. QED  BY <1>a, <2>1, <2>3, <3>1, <3>4 DEF Complete
  <2>. QED  BY <1>2, <2>2, <2>3 DEF Console!WingsAuth
<1>3. CASE Console!WingsReplay
  <2>1. UNCHANGED <<wings, wCancelled, wPc, reply, left, wHeard>>
    BY <1>3 DEF Console!WingsReplay, Console!follower
  <2>2. ASSUME wings.authorised PROVE \A n \in 1 .. wings.said : n \in Coming'
    <3>. DEFINE m == Console!Output(Console!AllLines)
    <3>1. toDashd' = Append(toDashd, m)
      BY <1>3, <2>2 DEF Console!WingsReplay
    <3>2. m \in Message /\ m.event = "console output" /\ m.lines = Console!AllLines
      <4>1. wings.said \in 0 .. MaxSaid /\ MaxSaid \in Nat
        BY ConsoleNumbers
      <4>2. Console!AllLines \in Seq(1 .. MaxSaid)
        BY <4>1 DEF Console!AllLines
      <4>. QED  BY <4>2 DEF Console!Output, Message
    <3>3. \A n \in 1 .. wings.said : n \in Console!ToSet(m.lines)
      BY <3>2 DEF Console!AllLines, Console!ToSet
    <3>. HIDE DEF m
    <3>. QED  BY <1>m, <2>1, <3>1, <3>2, <3>3
  <2>. QED  BY <1>a, <2>1, <2>2 DEF Complete
<1>4. ASSUME NEW event \in {"token expiring", "token expired"}, Console!TokenExpires(event)
      PROVE  Complete'
  <2>1. /\ wings.open /\ wings.authorised
        /\ wings' = [wings EXCEPT !.expiries = @ + 1, !.authorised = event = "token expiring"]
        /\ toDashd' = Append(toDashd, Console!Event(event))
        /\ UNCHANGED <<toWings, wCancelled, wPc, reply, left, wHeard>>
    BY <1>4 DEF Console!TokenExpires, Console!follower
  <2>2. wings'.open = wings.open /\ wings'.said = wings.said
    BY <1>t, <2>1 DEF WingsSet
  <2>3. /\ \A n : n \in Coming => n \in Coming'
        /\ (\E i \in DOMAIN toDashd : toDashd[i].event = "auth success") =>
              \E i \in DOMAIN toDashd' : toDashd'[i].event = "auth success"
    <3>1. Console!Event(event) \in Message
      BY <1>e DEF Console!Events
    <3>. QED  BY <1>m, <2>1, <3>1
  <2>4. Asked => Asked'
    BY <2>1, <2>3 DEF Asked
  <2>. QED  BY <1>a, <2>1, <2>2, <2>3, <2>4 DEF Complete
<1>5. CASE Console!ConnectionBreaks
  <2>1. wings' = [wings EXCEPT !.open = FALSE, !.authorised = FALSE]
    BY <1>5 DEF Console!ConnectionBreaks
  <2>2. ~wings'.authorised /\ ~wings'.open
    BY <1>t, <2>1 DEF WingsSet
  <2>. QED  BY <2>2 DEF Complete
<1>6. CASE Console!CancelLogs \/ Console!TakeLine
  <2>1. /\ UNCHANGED <<wings, toWings, toDashd, wPc, reply, left, wHeard>>
        /\ ~wCancelled' => ~wCancelled
    BY <1>6 DEF Console!CancelLogs, Console!TakeLine
  <2>. QED  BY <2>1 DEF Complete, Asked, Coming, Outputs
<1>7. CASE Console!Connect
  <2>1. wPc = "none" /\ wPc' = "read" /\ wings' = [wings EXCEPT !.open = TRUE]
    BY <1>7 DEF Console!Connect
  <2>2. wings'.authorised = wings.authorised /\ ~wings.authorised
    BY <1>a, <1>t, <2>1 DEF WingsSet
  <2>. QED  BY <2>1, <2>2 DEF Complete
<1>8. CASE Console!ReadMessage
  <2>. DEFINE m == Head(toDashd)
  <2>1. /\ wPc = "read" /\ toDashd # <<>> /\ toDashd' = Tail(toDashd) /\ left = <<>>
        /\ UNCHANGED <<wings, toWings, wCancelled, wHeard>>
        /\ wPc' # "none"
    BY <1>8, <1>t DEF Console!ReadMessage, Console!follower
  <2>2. /\ m.event = "auth success" => wPc' = "send" /\ reply' = "send logs"
        /\ m.event = "console output" => left' = m.lines
    BY <1>8 DEF Console!ReadMessage
  <2>3. \A i \in DOMAIN toDashd : toDashd[i] = m \/ \E j \in DOMAIN toDashd' : toDashd'[j] = toDashd[i]
    BY <1>t, <2>1, HeadOrTail
  <2>4. Console!ToSet(left) = {}
    <3>1. DOMAIN left = {}
      BY <2>1
    <3>. QED  BY <3>1 DEF Console!ToSet
  <2>. HIDE DEF m
  <2>5. Asked => Asked'
    BY <2>1, <2>2, <2>3 DEF Asked
  <2>6. \A n : n \in Coming => n \in Coming'
    BY <2>1, <2>2, <2>3, <2>4, ZenonT(60) DEF Coming, Outputs
  <2>. QED  BY <1>a, <2>1, <2>5, <2>6 DEF Complete
<1>9. CASE Console!ReadFails \/ Console!PutNotice
  <2>1. wPc' \in {"closed", "notice", "failed"} /\ UNCHANGED wings
    BY <1>9 DEF Console!ReadFails, Console!PutNotice
  <2>. QED  BY <1>a, <2>1 DEF Complete
<1>10. CASE Console!FetchToken
  <2>1. /\ UNCHANGED <<wings, toWings, toDashd, wCancelled, left, wHeard>>
        /\ wPc = "fetch" /\ wPc' \in {"send", "notice"}
    BY <1>10 DEF Console!FetchToken, Console!follower
  <2>2. (Asked => Asked') /\ \A n : n \in Coming => n \in Coming'
    BY <2>1 DEF Asked, Coming, Outputs
  <2>. QED  BY <1>a, <2>1, <2>2 DEF Complete
<1>11. CASE Console!Send
  <2>1. /\ UNCHANGED <<wings, toDashd, wCancelled, reply, left, wHeard>> /\ wPc = "send"
        /\ \/ /\ wPc' = "read"
              /\ toWings' = IF wings.open THEN Append(toWings, reply) ELSE toWings
           \/ wPc' = "notice"
    BY <1>11 DEF Console!Send, Console!follower
  <2>2. \A n : n \in Coming => n \in Coming'
    BY <2>1 DEF Coming, Outputs
  <2>3. ASSUME wings.authorised, wPc' # "notice" PROVE Asked => Asked'
    <3>1. toWings' = Append(toWings, reply) /\ reply \in {"auth", "send logs"}
      BY <1>a, <2>1, <2>3 DEF ConsoleType
    <3>2. /\ \E i \in DOMAIN toWings' : toWings'[i] = reply
          /\ \A i \in DOMAIN toWings : i \in DOMAIN toWings' /\ toWings'[i] = toWings[i]
      <4>. DEFINE S == {"auth", "send logs"}
                  q == toWings
                  r == toWings'
      <4>1. q \in Seq(S) /\ r = Append(q, reply) /\ reply \in S
        BY <1>t, <3>1
      <4>. HIDE DEF q, r, S
      <4>2. /\ \E i \in DOMAIN r : r[i] = reply
            /\ \A i \in DOMAIN q : i \in DOMAIN r /\ r[i] = q[i]
        BY <4>1, WithAppended
      <4>. QED  BY <4>2 DEF q, r
    <3>. QED  BY <2>1, <3>2 DEF Asked
  <2>. QED  BY <1>a, <2>1, <2>2, <2>3 DEF Complete
<1>12. CASE Console!EmitLines
  <2>1. /\ UNCHANGED <<wings, toWings, toDashd, wCancelled, reply>> /\ wPc = "emit" /\ left # <<>>
        /\ \/ Console!PutLine(Head(left)) /\ left' = Tail(left) /\ wPc' = wPc
           \/ wPc' = "closed"
    BY <1>12 DEF Console!EmitLines
  <2>2. Asked => wPc' = "closed" \/ Asked'
    BY <2>1 DEF Asked
  <2>3. ASSUME ~wCancelled, wPc' # "closed", NEW n, n \in Coming PROVE n \in Coming'
    <3>1. Console!PutLine(Head(left)) /\ left' = Tail(left)
      BY <2>1, <2>3
    <3>2. Head(left) \in 0 .. MaxSaid
      <4>1. Head(left) \in 1 .. MaxSaid
        BY <1>t, <2>1, HeadTailProperties
      <4>. QED  BY <4>1, ConsoleNumbers
    <3>3. /\ Head(left) \in Console!ToSet(wHeard')
          /\ \A k \in Console!ToSet(wHeard) : k \in Console!ToSet(wHeard')
      BY <2>3, <3>1, <3>2, ConsolePut
    <3>4. \A i \in DOMAIN left : left[i] = Head(left) \/ \E j \in DOMAIN left' : left'[j] = left[i]
      BY <1>t, <2>1, <3>1, HeadOrTail
    <3>5. \A k \in Console!ToSet(left) : k = Head(left) \/ k \in Console!ToSet(left')
      BY <3>4 DEF Console!ToSet
    <3>. QED  BY <2>1, <2>3, <3>3, <3>5 DEF Coming, Outputs
  <2>. QED  BY <1>a, <2>1, <2>2, <2>3 DEF Complete
<1>13. CASE Console!Emitted
  <2>1. /\ UNCHANGED <<wings, toWings, toDashd, wCancelled, reply, left, wHeard>>
        /\ wPc = "emit" /\ wPc' = "read"
    BY <1>13 DEF Console!Emitted, Console!follower
  <2>2. (Asked => Asked') /\ \A n : n \in Coming => n \in Coming'
    BY <2>1 DEF Asked, Coming, Outputs
  <2>. QED  BY <1>a, <2>1, <2>2 DEF Complete
<1>14. CASE UNCHANGED Console!vars
  BY <1>14 DEF Console!vars, Console!follower, Complete, Asked, Coming, Outputs
<1>. QED
  BY <1>1, <1>2, <1>3, <1>4, <1>5, <1>6, <1>7, <1>8, <1>9, <1>10, <1>11, <1>12, <1>13, <1>14
     DEF Console!Next, Console!Step

\* Once nothing is on its way, everything was heard.
LEMMA CompleteNoHole ==
  ASSUME ConsoleType, Complete
  PROVE  Console!NoHole
<1>. SUFFICES ASSUME wings.authorised, toWings = <<>>, toDashd = <<>>, wPc = "read", ~wCancelled
              PROVE  1 .. wings.said \subseteq Console!ToSet(wHeard)
  BY DEF Console!NoHole
<1>1. left = <<>>
  BY DEF ConsoleType
<1>2. DOMAIN toWings = {} /\ DOMAIN toDashd = {} /\ DOMAIN left = {}
  BY <1>1
<1>3. Console!ToSet(left) = {}
  BY <1>2 DEF Console!ToSet
<1>. QED  BY <1>2, <1>3 DEF Complete, Asked, Coming, Outputs

-----------------------------------------------------------------------------
(* The four parts together: a step is a step of one of them.               *)

LEMMA PartSteps ==
  ASSUME [PartsNext]_<<part, vars, docker, journal, console>>
  PROVE  /\ [Next]_vars /\ [Docker!Next]_(Docker!vars)
         /\ [Journal!Next]_(Journal!vars) /\ [Console!Next]_(Console!vars)
<1>1. UNCHANGED docker => UNCHANGED Docker!vars
  BY DEF docker, Docker!vars, Docker!source
<1>2. UNCHANGED journal => UNCHANGED Journal!vars
  BY DEF journal, Journal!vars
<1>3. UNCHANGED console => UNCHANGED Console!vars
  BY DEF console, Console!vars, Console!follower
<1>. QED  BY <1>1, <1>2, <1>3 DEF PartsNext

\* Every part of the log providers keeps its types, for any amount of output: a
\* newline that is found is a place in the buffer, a line that is read is one that
\* was printed, and no channel holds more than it can.
THEOREM LogTypesCorrect == PartsSpec => []TypesOK
<1>. DEFINE I == TypeOK /\ DockerType /\ Journal!TypeOK /\ ConsoleType
<1>1. PartsInit => I
  BY TypeInit, DockerInit, JournalInit, ConsoleInit DEF PartsInit
<1>2. I /\ [PartsNext]_<<part, vars, docker, journal, console>> => I'
  BY PartSteps, TypeNext, DockerStep, JournalTypeStep, ConsoleTypeStep
<1>3. I => TypesOK
  BY ConsoleTyped DEF TypesOK, DockerType
<1>. QED  BY <1>1, <1>2, <1>3, PTL DEF PartsSpec

\* systemd.go:234, pterodactyl.go:208: a journalctl or a console that failed tells
\* whoever follows, as the last line, and one that ended or was stopped does not.
THEOREM FailedLogsTell == PartsSpec => []FailuresAreTold
<1>. DEFINE I == Journal!TypeOK /\ JournalTold /\ ConsoleType /\ ConsoleTold
<1>1. PartsInit => I
  BY JournalInit, ConsoleInit DEF PartsInit
<1>2. I /\ [PartsNext]_<<part, vars, docker, journal, console>> => I'
  BY PartSteps, JournalTypeStep, JournalToldStep, ConsoleTypeStep, ConsoleToldStep
<1>3. I => FailuresAreTold
  BY DEF FailuresAreTold, JournalTold, ConsoleTold
<1>. QED  BY <1>1, <1>2, <1>3, PTL DEF PartsSpec

\* pterodactyl.go:232: on a connection that is authorised, at first or again after
\* its token expired, the follower has heard every line once nothing is on its way.
THEOREM ConsoleMissesNothing == PartsSpec => []ConsoleComplete
<1>. DEFINE I == ConsoleType /\ Complete
<1>1. PartsInit => I
  BY ConsoleInit DEF PartsInit
<1>2. I /\ [PartsNext]_<<part, vars, docker, journal, console>> => I'
  BY PartSteps, ConsoleTypeStep, CompleteStep
<1>3. I => ConsoleComplete
  BY CompleteNoHole DEF ConsoleComplete
<1>. QED  BY <1>1, <1>2, <1>3, PTL DEF PartsSpec

=============================================================================
