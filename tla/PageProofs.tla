----------------------------- MODULE PageProofs -----------------------------
(***************************************************************************)
(* Theorems about Page: of its sign-in and socket (PageSession), that a    *)
(* page never has two sockets, and none that outlives its console, for any *)
(* number of sockets, sign-ins and outages; of its log pane (LogView),     *)
(* that no line a stream has sent to the pane is lost, for any number of   *)
(* streams, lines, openings and drops of the connection.                   *)
(***************************************************************************)
EXTENDS Page, LogStreamsProofs, SequenceTheorems, TLAPS

States    == {"unused", "connecting", "open", "ended", "closing"}
SocketSet == [state : States, token : 0 .. MaxSessions]

\* Putting a record in a socket's place.
LEMMA SocketType ==
  ASSUME sockets \in [Sockets -> SocketSet], NEW s \in Sockets, NEW r \in SocketSet,
         sockets' = [sockets EXCEPT ![s] = r]
  PROVE  sockets' \in [Sockets -> SocketSet]
  OBVIOUS

\* The part of the type that OneSocket needs: which sockets there are.
ConnType ==
  /\ ws \in Sockets \cup {None}
  /\ sockets \in [Sockets -> SocketSet]
  /\ cookie \in 0 .. MaxSessions

\* A new socket is the page's own, if it had none.
LEMMA OpenKeeps ==
  ASSUME ConnType, NEW s \in Sockets, NEW token \in 0 .. MaxSessions, Open(s, token),
         \A x \in Sockets : sockets[x].state \notin {"unused", "closing"} => ws = x,
         ws = None, None \notin Sockets
  PROVE  /\ sockets' \in [Sockets -> SocketSet] /\ ws' \in Sockets /\ ~timer'
         /\ \A x \in Sockets : sockets'[x].state \notin {"unused", "closing"} => ws' = x
<1>1. sockets' = [sockets EXCEPT ![s] = [state |-> "connecting", token |-> token]]
  BY DEF Open
<1>2. [state |-> "connecting", token |-> token] \in SocketSet
  BY DEF SocketSet, States
<1>3. sockets' \in [Sockets -> SocketSet]
  BY <1>1, <1>2, SocketType DEF ConnType, SocketSet
<1>4. \A x \in Sockets : sockets'[x].state \notin {"unused", "closing"} => s = x
  BY <1>1 DEF ConnType
<1>5. QED
  BY <1>3, <1>4 DEF Open

\* close leaves the page without a socket.
LEMMA CloseKeeps ==
  ASSUME ConnType, Close,
         \A x \in Sockets : sockets[x].state \notin {"unused", "closing"} => ws = x
  PROVE  /\ sockets' \in [Sockets -> SocketSet] /\ ws' = None /\ ~timer' /\ stopped'
         /\ \A x \in Sockets : sockets'[x].state \in {"unused", "closing"}
<1>1. sockets' = [x \in Sockets |-> IF x = ws THEN [sockets[x] EXCEPT !.state = "closing"]
                                    ELSE sockets[x]]
  BY DEF Close, Hung
<1>2. \A x \in Sockets : sockets'[x] \in SocketSet
  BY <1>1 DEF ConnType, SocketSet, States
<1>3. \A x \in Sockets : sockets'[x].state \in {"unused", "closing"}
  BY <1>1 DEF ConnType, SocketSet, States
<1>4. sockets' \in [Sockets -> SocketSet]
  BY <1>1, <1>2
<1>5. QED
  BY <1>3, <1>4 DEF Close

\* OneSocket is inductive once the types of what it speaks of are known.
Inv == ConnType /\ OneSocket /\ sessions \in 0 .. MaxSessions

\* Whatever comes first, a page has one socket at most, and none at the login.
LEMMA OneSocketStep == ASSUME PageAssumption, Inv, [Next]_vars PROVE Inv'
<1> USE DEF PageAssumption, Inv
<1>a. /\ ws \in Sockets \cup {None} /\ None \notin Sockets
      /\ sockets \in [Sockets -> SocketSet] /\ cookie \in 0 .. MaxSessions
  BY DEF ConnType, SocketSet
<1>b. /\ \A s \in Sockets : sockets[s].state \notin {"unused", "closing"} => ws = s
      /\ ws # None => ~timer
      /\ phase # "in" => ws = None /\ ~timer /\ stopped
  BY DEF OneSocket
<1>c. ASSUME NEW s \in Sockets, ws = s \/ ws = None
      PROVE  Gone(s) => /\ sockets' \in [Sockets -> SocketSet]
                        /\ \A x \in Sockets : sockets'[x].state \in {"unused", "closing"}
  <2>1. Unused \in SocketSet /\ Unused.state = "unused"
    BY DEF Unused, SocketSet, States
  <2>2. SUFFICES ASSUME Gone(s) PROVE  /\ sockets' \in [Sockets -> SocketSet]
                        /\ \A x \in Sockets : sockets'[x].state \in {"unused", "closing"}
    OBVIOUS
  <2>3. sockets' = [sockets EXCEPT ![s] = Unused]
    BY <2>2 DEF Gone
  <2>4. QED
    BY <1>a, <1>b, <1>c, <2>1, <2>3, SocketType
<1> DEFINE Good == /\ ws' \in Sockets \cup {None} /\ sockets' \in [Sockets -> SocketSet]
                   /\ cookie' \in 0 .. MaxSessions /\ sessions' \in 0 .. MaxSessions
                   /\ OneSocket'
<1> SUFFICES Good
  BY DEF ConnType, SocketSet, States
<1>1. CASE Start
  <2>1. CASE UNCHANGED <<conn, requests>>
    BY <1>1, <2>1, <1>a, <1>b DEF Start, ShowConsole, Connect, Open, conn, server, OneSocket
  <2>2. CASE ShowConsole(cookie)
    <3>1. PICK s \in Sockets : Open(s, cookie)
      BY <2>2 DEF ShowConsole, Connect
    <3>2. ws = None
      BY <1>1, <1>b DEF Start
    <3>3. QED
      BY <1>1, <2>2, <1>a, <1>b, <3>1, <3>2, OpenKeeps DEF Start, ShowConsole, server, OneSocket
  <2>3. QED
    BY <1>1, <2>1, <2>2 DEF Start
<1>2. CASE SignIn
  <2>1. PICK s \in Sockets : Open(s, sessions + 1)
    BY <1>2 DEF SignIn, ShowConsole, Connect
  <2>2. ws = None /\ sessions + 1 \in 0 .. MaxSessions
    BY <1>2, <1>b DEF SignIn
  <2>3. QED
    BY <1>2, <1>a, <1>b, <2>1, <2>2, OpenKeeps DEF SignIn, ShowConsole, OneSocket
<1>3. ASSUME NEW s \in Sockets, TimerFires(s) PROVE Good
  <2>1. Open(s, cookie) /\ ws = None /\ phase = "in"
    BY <1>3, <1>b, <1>a DEF TimerFires
  <2>2. QED
    BY <1>3, <2>1, <1>a, <1>b, OpenKeeps DEF TimerFires, server, OneSocket
<1>4. ASSUME NEW s \in Sockets, Opened(s) \/ ServerCloses(s) PROVE Good
  <2>1. PICK q \in {"open", "ended"} : sockets' = [sockets EXCEPT ![s].state = q]
    BY <1>4 DEF Opened, ServerCloses
  <2>2. sockets[s].state \notin {"unused", "closing"}
    BY <1>4 DEF Opened, ServerCloses
  <2>3. sockets' \in [Sockets -> SocketSet]
    BY <2>1, <1>a DEF SocketSet, States
  <2>4. \A x \in Sockets : x # s => sockets'[x] = sockets[x]
    BY <2>1, <1>a
  <2>5. QED
    BY <1>4, <1>a, <1>b, <2>2, <2>3, <2>4 DEF Opened, ServerCloses, server, OneSocket
<1>5. ASSUME NEW s \in Sockets, Event(s) PROVE Good
  <2>1. CASE StaleClosed(s)
    <3>1. sockets' = [sockets EXCEPT ![s] = Unused]
      BY <2>1 DEF StaleClosed, Gone
    <3>2. Unused \in SocketSet /\ Unused.state = "unused"
      BY DEF Unused, SocketSet, States
    <3>3. sockets' \in [Sockets -> SocketSet]
      BY <3>1, <3>2, <1>a, SocketType
    <3>4. \A x \in Sockets : sockets'[x].state \notin {"unused", "closing"} => ws = x
      BY <3>1, <3>2, <1>a, <1>b
    <3>5. QED
      BY <2>1, <1>a, <1>b, <3>3, <3>4 DEF StaleClosed, server, OneSocket
  <2>2. CASE SessionEnded(s)
    <3>1. ws = s /\ phase = "in" /\ Gone(s)
      BY <2>2, <1>a, <1>b DEF SessionEnded
    <3>2. /\ sockets' \in [Sockets -> SocketSet]
          /\ \A x \in Sockets : sockets'[x].state \in {"unused", "closing"}
      BY <3>1, <1>c
    <3>3. QED
      BY <2>2, <1>a, <1>b, <3>1, <3>2 DEF SessionEnded, server, OneSocket
  <2>3. CASE Closed(s)
    <3>1. ws = s /\ phase = "in" /\ Gone(s)
      BY <2>3, <1>a, <1>b DEF Closed, Broken
    <3>2. /\ sockets' \in [Sockets -> SocketSet]
          /\ \A x \in Sockets : sockets'[x].state \in {"unused", "closing"}
      BY <3>1, <1>c
    <3>3. QED
      BY <2>3, <1>a, <1>b, <3>1, <3>2 DEF Closed, server, OneSocket
  <2>4. QED
    BY <1>5, <2>1, <2>2, <2>3 DEF Event
<1>6. ASSUME NEW k \in Kinds, Answered(k) PROVE Good
  <2>1. cookie' \in 0 .. MaxSessions /\ UNCHANGED sessions
    BY <1>6, <1>a DEF Answered
  <2>2. CASE UNCHANGED <<phase, conn>>
    BY <2>1, <2>2, <1>a, <1>b DEF conn, OneSocket
  <2>3. CASE SignedOut
    <3>1. CASE phase = "in"
      <4>1. Close
        BY <2>3, <3>1 DEF SignedOut
      <4>2. QED
        BY <2>1, <4>1, <1>a, <1>b, CloseKeeps DEF OneSocket
    <3>2. CASE phase # "in"
      <4>1. UNCHANGED conn /\ phase' # "in"
        BY <2>3, <3>2 DEF SignedOut
      <4>2. QED
        BY <2>1, <3>2, <4>1, <1>a, <1>b DEF conn, OneSocket
    <3>3. QED
      BY <3>1, <3>2
  <2>4. QED
    BY <1>6, <2>2, <2>3 DEF Answered
<1>7. CASE UNCHANGED <<phase, conn, cookie, sessions>>
  BY <1>7, <1>a, <1>b DEF conn, OneSocket
<1>8. QED
  <2>1. ASSUME NEW k \in Kinds, Ask(k) \/ Handle(k) \/ Fail(k)
        PROVE  UNCHANGED <<phase, conn, cookie, sessions>>
    BY <2>1 DEF Ask, Handle, Fail, server
  <2>2. ASSUME NEW t \in Tokens, SessionEnds(t) PROVE UNCHANGED <<phase, conn, cookie, sessions>>
    BY <2>2 DEF SessionEnds
  <2>3. NetChanges \/ UNCHANGED vars => UNCHANGED <<phase, conn, cookie, sessions>>
    BY DEF NetChanges, server, vars
  <2>4. QED
    BY <1>1, <1>2, <1>3, <1>4, <1>5, <1>6, <1>7, <2>1, <2>2, <2>3 DEF Next

\* The page has one socket at most, its own, and none while the login is shown.
THEOREM OneSocketAlways == ASSUME PageAssumption PROVE Spec => []OneSocket
<1>1. Init => Inv
  BY DEF PageAssumption, Init, Inv, ConnType, OneSocket, Unused, SocketSet, States
<1>2. Inv /\ [Next]_vars => Inv'
  BY OneSocketStep
<1>3. Inv => OneSocket
  BY DEF Inv
<1>4. QED
  BY <1>1, <1>2, <1>3, PTL DEF Spec
-----------------------------------------------------------------------------
(* The types of the session part, from those that OneSocket needed.        *)

RequestSet == [state : {"none", "sent", "ok", "refused", "failed"}, token : 0 .. MaxSessions]

LEMMA RequestType ==
  ASSUME PageAssumption, requests \in [Kinds -> RequestSet], NEW k \in Kinds
  PROVE  /\ \A r \in RequestSet : [requests EXCEPT ![k] = r] \in [Kinds -> RequestSet]
         /\ \A q \in {"none", "sent", "ok", "refused", "failed"} :
              [requests EXCEPT ![k].state = q] \in [Kinds -> RequestSet]
         /\ Silent \in RequestSet
         /\ \A t \in 0 .. MaxSessions : [state |-> "sent", token |-> t] \in RequestSet
<1>1. \A q \in {"none", "sent", "ok", "refused", "failed"} :
        [requests EXCEPT ![k].state = q] \in [Kinds -> RequestSet]
  BY DEF RequestSet
<1>2. Silent \in RequestSet /\ \A t \in 0 .. MaxSessions : [state |-> "sent", token |-> t] \in RequestSet
  BY DEF RequestSet, Silent, PageAssumption
<1>. QED  BY <1>1, <1>2

LEMMA SessionTypeStep == ASSUME PageAssumption, Inv, TypeOK, [Next]_vars PROVE TypeOK'
<1>. USE DEF PageAssumption
<1>1. ConnType' /\ sessions' \in 0 .. MaxSessions
  BY OneSocketStep DEF Inv
<1>2. requests \in [Kinds -> RequestSet] /\ cookie \in 0 .. MaxSessions
  BY DEF TypeOK, RequestSet
<1>a. "api" \in Kinds /\ "check" \in Kinds
  BY DEF Kinds
<1>. DEFINE Rest == /\ phase' \in {"checking", "in", "out"}
                    /\ stopped' \in BOOLEAN /\ timer' \in BOOLEAN /\ attempt' \in 0 .. Enough
                    /\ requests' \in [Kinds -> RequestSet]
                    /\ alive' \subseteq Tokens
                    /\ net' \in [up : BOOLEAN, outages : 0 .. MaxOutages]
<1>. SUFFICES Rest
  BY <1>1 DEF TypeOK, ConnType, SocketSet, States, RequestSet
<1>3. ASSUME NEW t \in 0 .. MaxSessions, ShowConsole(t)
      PROVE  /\ phase' = "in" /\ stopped' \in BOOLEAN /\ timer' \in BOOLEAN
             /\ attempt' = attempt /\ requests' \in [Kinds -> RequestSet]
  <2>1. [requests EXCEPT !["api"] = [state |-> "sent", token |-> t]] \in [Kinds -> RequestSet]
    BY <1>a, <1>2, RequestType
  <2>. QED  BY <1>3, <1>2, <2>1 DEF ShowConsole, Connect, Open, TypeOK
<1>4. CASE Start
  BY <1>2, <1>3, <1>4 DEF Start, TypeOK, server, conn
<1>5. CASE SignIn
  <2>1. sessions + 1 \in 0 .. MaxSessions /\ sessions + 1 \in Tokens
    BY <1>5 DEF SignIn, TypeOK, Tokens
  <2>. QED  BY <1>2, <1>3, <1>5, <2>1 DEF SignIn, TypeOK
<1>6. ASSUME NEW s \in Sockets, TimerFires(s) \/ Opened(s) \/ ServerCloses(s) PROVE Rest
  <2>1. UNCHANGED <<phase, stopped, requests, alive, net>> /\ timer' \in BOOLEAN
    BY <1>6 DEF TimerFires, Opened, ServerCloses, Open, TypeOK, server
  <2>2. attempt' \in {attempt, 0}
    BY <1>6 DEF TimerFires, Opened, ServerCloses
  <2>. QED  BY <1>2, <2>1, <2>2 DEF TypeOK, Enough
<1>7. ASSUME NEW s \in Sockets, Event(s) PROVE Rest
  <2>1. CASE StaleClosed(s) \/ SessionEnded(s)
    BY <1>2, <2>1 DEF StaleClosed, SessionEnded, TypeOK, server
  <2>2. CASE Closed(s)
    <3>1. [requests EXCEPT !["check"] = Sent] \in [Kinds -> RequestSet]
      BY <1>a, <1>2, RequestType DEF Sent
    <3>2. requests' \in [Kinds -> RequestSet]
      BY <1>2, <2>2, <3>1 DEF Closed
    <3>3. attempt' \in 0 .. Enough
      <4>1. attempt' \in {attempt, IF attempt < Enough THEN attempt + 1 ELSE attempt}
        BY <2>2 DEF Closed
      <4>. QED  BY <4>1 DEF TypeOK, Enough
    <3>4. timer' \in BOOLEAN /\ UNCHANGED <<phase, stopped, alive, net>>
      BY <2>2 DEF Closed, TypeOK, server
    <3>. QED  BY <3>2, <3>3, <3>4 DEF TypeOK
  <2>. QED  BY <1>7, <2>1, <2>2 DEF Event
<1>8. ASSUME NEW k \in Kinds, Ask(k) PROVE Rest
  <2>1. requests' \in [Kinds -> RequestSet]
    <3>1. requests' = [requests EXCEPT ![k] = Sent] /\ Sent \in RequestSet
      BY <1>2, <1>8, RequestType DEF Ask, Sent
    <3>. QED  BY <1>2, <3>1, RequestType
  <2>. QED  BY <1>8, <2>1 DEF Ask, TypeOK, conn, server
<1>9. ASSUME NEW k \in Kinds, Handle(k) \/ Fail(k) PROVE Rest
  <2>1. requests' \in [Kinds -> RequestSet]
    <3>1. PICK q \in {"none", "sent", "ok", "refused", "failed"} :
             requests' = [requests EXCEPT ![k].state = q]
      BY <1>9 DEF Handle, Fail
    <3>. QED  BY <1>2, <3>1, RequestType
  <2>. QED  BY <1>9, <2>1 DEF Handle, Fail, TypeOK, conn, server
<1>10. ASSUME NEW k \in Kinds, Answered(k) PROVE Rest
  <2>1. requests' \in [Kinds -> RequestSet]
    <3>1. requests' = [requests EXCEPT ![k] = Silent]
      BY <1>10 DEF Answered
    <3>. QED  BY <1>2, <3>1, RequestType
  <2>2. /\ phase' \in {"checking", "in", "out"}
        /\ stopped' \in BOOLEAN /\ timer' \in BOOLEAN /\ attempt' \in 0 .. Enough
    BY <1>10 DEF Answered, SignedOut, Close, conn, TypeOK
  <2>. QED  BY <1>10, <2>1, <2>2 DEF Answered, TypeOK
<1>11. ASSUME NEW t \in Tokens, SessionEnds(t) PROVE Rest
  BY <1>2, <1>11 DEF SessionEnds, TypeOK, conn
<1>12. CASE NetChanges
  BY <1>2, <1>12 DEF NetChanges, TypeOK, conn, server
<1>13. CASE UNCHANGED vars
  BY <1>2, <1>13 DEF vars, TypeOK, conn, server
<1>. QED
  BY <1>4, <1>5, <1>6, <1>7, <1>8, <1>9, <1>10, <1>11, <1>12, <1>13 DEF Next

LEMMA SessionInit == ASSUME PageAssumption, Init PROVE Inv /\ TypeOK
<1>. USE DEF PageAssumption
<1>1. Inv
  BY DEF Init, Inv, ConnType, OneSocket, Unused, SocketSet, States
<1>2. requests \in [Kinds -> RequestSet]
  BY DEF Init, Silent, RequestSet
<1>3. alive \subseteq Tokens /\ attempt \in 0 .. Enough
  BY DEF Init, Tokens, Enough
<1>4. /\ phase \in {"checking", "in", "out"} /\ stopped \in BOOLEAN /\ timer \in BOOLEAN
  BY DEF Init
<1>5. net \in [up : BOOLEAN, outages : 0 .. MaxOutages]
  <2>1. 0 \in 0 .. MaxOutages /\ net = [up |-> TRUE, outages |-> 0]
    BY DEF Init
  <2>. QED  BY <2>1
<1>. QED  BY <1>1, <1>2, <1>3, <1>4, <1>5 DEF TypeOK, Inv, ConnType, SocketSet, States, RequestSet

-----------------------------------------------------------------------------
(* The log pane.                                                           *)

StreamSet == [pc : {"none", "opening", "running"}, stopped : BOOLEAN,
              first : 1 .. MaxLines + 1, next : 1 .. MaxLines + 1]

LEMMA StreamType ==
  ASSUME Pane!LogViewAssumption, streams \in [Streams -> StreamSet]
  PROVE  /\ Pane!Idle \in StreamSet /\ Pane!Fresh \in StreamSet
         /\ [s \in Streams |-> Pane!Idle] \in [Streams -> StreamSet]
         /\ Pane!Stop(streams) \in [Streams -> StreamSet]
         /\ \A s \in Streams : Pane!Stop(streams)[s].first = streams[s].first
                            /\ Pane!Stop(streams)[s].next = streams[s].next
<1>1. 1 \in 1 .. MaxLines + 1
  BY DEF Pane!LogViewAssumption
<1>2. Pane!Idle \in StreamSet
  BY <1>1 DEF Pane!Idle, StreamSet
<1>3. Pane!Fresh \in StreamSet
  BY <1>1 DEF Pane!Fresh, Pane!Idle, StreamSet
<1>4. ASSUME NEW s \in Streams
      PROVE  /\ Pane!Stop(streams)[s] \in StreamSet
             /\ Pane!Stop(streams)[s].first = streams[s].first
             /\ Pane!Stop(streams)[s].next = streams[s].next
  <2>1. streams[s] \in StreamSet
    OBVIOUS
  <2>2. [streams[s] EXCEPT !.stopped = TRUE] \in StreamSet
    BY <2>1 DEF StreamSet
  <2>3. Pane!Stop(streams)[s] \in {streams[s], [streams[s] EXCEPT !.stopped = TRUE]}
    BY DEF Pane!Stop
  <2>. QED  BY <2>1, <2>2, <2>3 DEF StreamSet
<1>5. Pane!Stop(streams) \in [Streams -> StreamSet]
  BY <1>4 DEF Pane!Stop
<1>. QED  BY <1>2, <1>3, <1>4, <1>5

\* A field of a stream that is set keeps the type.
LEMMA StreamFields ==
  ASSUME NEW x \in [Streams -> StreamSet], NEW s \in Streams
  PROVE  /\ [x EXCEPT ![s].pc = "running"] \in [Streams -> StreamSet]
         /\ \A n \in 1 .. MaxLines + 1 : /\ [x EXCEPT ![s].first = n] \in [Streams -> StreamSet]
                                       /\ [x EXCEPT ![s].next = n] \in [Streams -> StreamSet]
<1>1. x[s] \in StreamSet
  OBVIOUS
<1>2. [x[s] EXCEPT !.pc = "running"] \in StreamSet
  BY <1>1 DEF StreamSet
<1>3. ASSUME NEW n \in 1 .. MaxLines + 1
      PROVE  [x[s] EXCEPT !.first = n] \in StreamSet /\ [x[s] EXCEPT !.next = n] \in StreamSet
  BY <1>1 DEF StreamSet
<1>. QED  BY <1>2, <1>3

\* The lines of a batch, as the pane appends them.
Batch(i, j) == [k \in 1 .. j - i + 1 |-> i + k - 1]

LEMMA BatchLines ==
  ASSUME NEW i \in 1 .. MaxLines, NEW j \in 1 .. MaxLines, MaxLines \in Nat
  PROVE  /\ Batch(i, j) \in Seq(1 .. MaxLines)
         /\ \A n \in i .. j : \E k \in 1 .. Len(Batch(i, j)) : Batch(i, j)[k] = n
<1>. DEFINE b == Batch(i, j)
<1>0. b = [k \in 1 .. j - i + 1 |-> i + k - 1]
  BY DEF Batch
<1>. SUFFICES b \in Seq(1 .. MaxLines) /\ \A n \in i .. j : \E k \in 1 .. Len(b) : b[k] = n
  BY DEF b
<1>. HIDE DEF b
<1>1. \A k \in 1 .. j - i + 1 : i + k - 1 \in 1 .. MaxLines
  OBVIOUS
<1>2. CASE i <= j
  <2>1. j - i + 1 \in Nat
    BY <1>2
  <2>2. b \in [1 .. j - i + 1 -> 1 .. MaxLines]
    BY <1>0, <1>1
  <2>3. b \in Seq(1 .. MaxLines) /\ Len(b) = j - i + 1
    BY <2>1, <2>2, IsASeq, LenProperties
  <2>4. ASSUME NEW n \in i .. j
        PROVE  \E k \in 1 .. Len(b) : b[k] = n
    <3>1. n - i + 1 \in 1 .. j - i + 1 /\ i + (n - i + 1) - 1 = n
      BY <1>2
    <3>. QED  BY <1>0, <2>3, <3>1
  <2>. QED  BY <2>3, <2>4
<1>3. CASE i > j
  <2>1. 1 .. j - i + 1 = {} /\ i .. j = {}
    BY <1>3
  <2>2. b = <<>>
    BY <1>0, <2>1
  <2>. QED  BY <2>1, <2>2
<1>4. i <= j \/ i > j
  OBVIOUS
<1>. QED  BY <1>2, <1>3, <1>4, Zenon

LEMMA PaneInit == ASSUME Pane!LogViewAssumption, Pane!Init PROVE Pane!TypeOK
<1>1. 1 \in 1 .. MaxLines + 1 /\ 0 \in 0 .. MaxLines /\ 0 \in 0 .. MaxOpens /\ 0 \in 0 .. MaxDrops
  BY DEF Pane!LogViewAssumption
<1>2. streams \in [Streams -> StreamSet]
  BY <1>1 DEF Pane!Init, Pane!Idle, StreamSet
<1>3. ended \in BOOLEAN /\ late \in BOOLEAN
  BY DEF Pane!Init
<1>4. /\ written \in 0 .. MaxLines /\ opens \in 0 .. MaxOpens /\ drops \in 0 .. MaxDrops
      /\ pane \in {"closed", "waiting", "open"} /\ socket \in {"open", "down"}
      /\ sub \in Streams \cup {NoStream}
  BY <1>1 DEF Pane!Init
<1>5. /\ shown \in Seq(1 .. MaxLines) /\ up \in Seq({"logs", "unlogs"})
      /\ down \in Seq(Pane!Message)
  BY DEF Pane!Init
<1>. QED  BY <1>2, <1>3, <1>4, <1>5 DEF Pane!TypeOK, StreamSet

LEMMA PaneFlags ==
  ASSUME Pane!TypeOK, [Pane!Next]_(Pane!vars)
  PROVE  late' \in BOOLEAN /\ ended' \in BOOLEAN
<1>1. late \in BOOLEAN /\ ended \in BOOLEAN /\ \A s \in Streams : streams[s].stopped \in BOOLEAN
  BY DEF Pane!TypeOK
<1>2. CASE UNCHANGED <<ended, late>>
  BY <1>1, <1>2
<1>3. CASE Pane!OpenPane
  BY <1>1, <1>3 DEF Pane!OpenPane
<1>4. CASE Pane!Receive
  <2>1. ended' \in {ended, TRUE, FALSE} /\ UNCHANGED late
    BY <1>4 DEF Pane!Receive, Pane!bounds
  <2>. QED  BY <1>1, <2>1
<1>5. CASE Pane!LoseSocket
  BY <1>1, <1>5 DEF Pane!LoseSocket, Pane!page
<1>6. ASSUME NEW s \in Streams, Pane!Flush(s) PROVE late' \in BOOLEAN /\ ended' \in BOOLEAN
  BY <1>1, <1>6 DEF Pane!Flush, Pane!page
<1>7. Pane!SubscribeLogs \/ Pane!ClosePane => UNCHANGED <<ended, late>>
  BY DEF Pane!SubscribeLogs, Pane!ClosePane, Pane!bounds
<1>8. Pane!Reconnect \/ Pane!HandleUnlogs \/ Pane!WriteLine => UNCHANGED <<ended, late>>
  BY DEF Pane!Reconnect, Pane!HandleUnlogs, Pane!WriteLine, Pane!page, Pane!bounds
<1>9. ASSUME NEW s \in Streams,
             Pane!HandleLogs(s) \/ Pane!OpenLog(s) \/ Pane!OpenFails(s) \/ Pane!LogEnds(s) \/ Pane!Exit(s)
      PROVE  UNCHANGED <<ended, late>>
  BY <1>9 DEF Pane!HandleLogs, Pane!OpenLog, Pane!OpenFails, Pane!LogEnds, Pane!Exit,
              Pane!page, Pane!bounds
<1>10. UNCHANGED Pane!vars => UNCHANGED <<ended, late>>
  BY DEF Pane!vars, Pane!page, Pane!bounds
<1>. QED  BY <1>2, <1>3, <1>4, <1>5, <1>6, <1>7, <1>8, <1>9, <1>10 DEF Pane!Next

LEMMA PaneTypeStep ==
  ASSUME Pane!LogViewAssumption, Pane!TypeOK, [Pane!Next]_(Pane!vars) PROVE Pane!TypeOK'
<1>. USE DEF Pane!LogViewAssumption
<1>1. /\ streams \in [Streams -> StreamSet] /\ up \in Seq({"logs", "unlogs"})
      /\ down \in Seq(Pane!Message) /\ shown \in Seq(1 .. MaxLines) /\ written \in 0 .. MaxLines
      /\ sub \in Streams \cup {NoStream}
      /\ opens \in 0 .. MaxOpens /\ drops \in 0 .. MaxDrops
      /\ pane \in {"closed", "waiting", "open"} /\ socket \in {"open", "down"}
  BY DEF Pane!TypeOK, StreamSet
<1>. DEFINE Good == /\ streams' \in [Streams -> StreamSet] /\ up' \in Seq({"logs", "unlogs"})
                    /\ down' \in Seq(Pane!Message) /\ shown' \in Seq(1 .. MaxLines)
                    /\ written' \in 0 .. MaxLines /\ sub' \in Streams \cup {NoStream}
                    /\ opens' \in 0 .. MaxOpens /\ drops' \in 0 .. MaxDrops
                    /\ pane' \in {"closed", "waiting", "open"} /\ socket' \in {"open", "down"}
<1>. SUFFICES Good
  BY PaneFlags DEF Pane!TypeOK, StreamSet
<1>a. Pane!End \in Pane!Message
  BY DEF Pane!Message
<1>2. CASE Pane!OpenPane
  BY <1>1, <1>2 DEF Pane!OpenPane
<1>3. CASE Pane!SubscribeLogs
  BY <1>1, <1>3 DEF Pane!SubscribeLogs, Pane!SendUp, Pane!bounds
<1>4. CASE Pane!ClosePane
  <2>1. up' \in Seq({"logs", "unlogs"})
    <3>1. Append(up, "unlogs") \in Seq({"logs", "unlogs"})
      BY <1>1
    <3>. QED  BY <1>1, <1>4, <3>1 DEF Pane!ClosePane, Pane!SendUp
  <2>. QED  BY <1>1, <1>4, <2>1 DEF Pane!ClosePane, Pane!bounds
<1>5. CASE Pane!Receive
  <2>1. /\ down # <<>> /\ down' = Tail(down)
        /\ UNCHANGED <<written, pane, socket, up, sub, streams, opens, drops, late>>
    BY <1>5 DEF Pane!Receive, Pane!bounds
  <2>2. down' \in Seq(Pane!Message) /\ Head(down) \in Pane!Message
    BY <1>1, <2>1
  <2>3. shown' \in Seq(1 .. MaxLines)
    <3>1. CASE UNCHANGED <<shown, ended>>
      BY <1>1, <3>1
    <3>2. CASE Head(down).type = "logs_end" /\ UNCHANGED shown
      BY <1>1, <3>2
    <3>3. CASE /\ Head(down).type = "logs"
               /\ shown' = shown \o [i \in 1 .. Head(down).to - Head(down).from + 1
                                       |-> Head(down).from + i - 1]
      <4>1. Head(down).from \in 1 .. MaxLines /\ Head(down).to \in 1 .. MaxLines
        BY <2>2, <3>3 DEF Pane!Message, Pane!End, Pane!Lines
      <4>2. [i \in 1 .. Head(down).to - Head(down).from + 1 |-> Head(down).from + i - 1]
              \in Seq(1 .. MaxLines)
        BY <4>1, BatchLines DEF Batch
      <4>. QED  BY <1>1, <3>3, <4>2
    <3>. QED  BY <1>5, <3>1, <3>2, <3>3 DEF Pane!Receive
  <2>. QED  BY <1>1, <2>1, <2>2, <2>3
<1>6. CASE Pane!LoseSocket
  BY <1>1, <1>6, StreamType DEF Pane!LoseSocket, Pane!page
<1>7. CASE Pane!Reconnect
  <2>1. up' \in Seq({"logs", "unlogs"})
    <3>1. <<"logs">> \in Seq({"logs", "unlogs"}) /\ <<>> \in Seq({"logs", "unlogs"})
      OBVIOUS
    <3>. QED  BY <1>7, <3>1 DEF Pane!Reconnect
  <2>. QED  BY <1>1, <1>7, <2>1 DEF Pane!Reconnect, Pane!page, Pane!bounds
<1>8. ASSUME NEW s \in Streams, Pane!HandleLogs(s) PROVE Good
  <2>1. streams' = [Pane!Stop(streams) EXCEPT ![s] = Pane!Fresh] /\ up' = Tail(up) /\ sub' = s
    BY <1>8 DEF Pane!HandleLogs
  <2>2. streams' \in [Streams -> StreamSet]
    BY <1>1, <2>1, StreamType
  <2>. QED  BY <1>1, <1>8, <2>1, <2>2 DEF Pane!HandleLogs, Pane!page, Pane!bounds
<1>9. CASE Pane!HandleUnlogs
  BY <1>1, <1>9, StreamType DEF Pane!HandleUnlogs, Pane!page, Pane!bounds
<1>10. ASSUME NEW s \in Streams, Pane!OpenLog(s) PROVE Good
  <2>1. PICK n \in 1 .. MaxLines + 1 :
           streams' = [streams EXCEPT ![s].pc = "running", ![s].first = n, ![s].next = n]
    <3>1. (IF written > TailLen THEN written - TailLen + 1 ELSE 1) \in 1 .. MaxLines + 1
      BY <1>1
    <3>. QED  BY <1>10, <3>1 DEF Pane!OpenLog
  <2>. DEFINE a == [streams EXCEPT ![s].pc = "running"]
              b == [a EXCEPT ![s].first = n]
  <2>2. streams' = [b EXCEPT ![s].next = n]
    BY <2>1
  <2>3. a \in [Streams -> StreamSet]
    BY <1>1, StreamFields
  <2>. HIDE DEF a
  <2>4. b \in [Streams -> StreamSet]
    BY <2>3, StreamFields
  <2>. HIDE DEF b
  <2>5. streams' \in [Streams -> StreamSet]
    BY <2>2, <2>4, StreamFields
  <2>. QED  BY <1>1, <1>10, <2>5 DEF Pane!OpenLog, Pane!page, Pane!bounds
<1>11. ASSUME NEW s \in Streams, Pane!OpenFails(s) \/ Pane!LogEnds(s) \/ Pane!Exit(s) PROVE Good
  <2>1. /\ streams' = [streams EXCEPT ![s] = Pane!Idle]
        /\ sub' \in {sub, NoStream} /\ down' \in {down, Append(down, Pane!End)}
        /\ UNCHANGED <<written, pane, shown, ended, socket, up, opens, drops, late>>
    BY <1>11 DEF Pane!OpenFails, Pane!LogEnds, Pane!Exit, Pane!Ended, Pane!page, Pane!bounds
  <2>2. streams' \in [Streams -> StreamSet]
    BY <1>1, <2>1, StreamType
  <2>3. Append(down, Pane!End) \in Seq(Pane!Message)
    BY <1>1, <1>a
  <2>. QED  BY <1>1, <2>1, <2>2, <2>3
<1>12. ASSUME NEW s \in Streams, Pane!Flush(s) PROVE Good
  <2>1. streams[s].next \in 1 .. MaxLines + 1
    BY <1>1 DEF StreamSet
  <2>2. streams[s].next \in 1 .. MaxLines /\ written \in 1 .. MaxLines /\ written + 1 \in 1 .. MaxLines + 1
    BY <1>1, <1>12, <2>1, SMTT(30) DEF Pane!Flush
  <2>3. Pane!Lines(streams[s].next, written) \in Pane!Message
    BY <2>2 DEF Pane!Message
  <2>4. streams' = [streams EXCEPT ![s].next = written + 1]
    BY <1>12 DEF Pane!Flush
  <2>5. streams' \in [Streams -> StreamSet]
    BY <1>1, <2>2, <2>4, StreamFields
  <2>. QED  BY <1>1, <1>12, <2>3, <2>5 DEF Pane!Flush, Pane!page
<1>13. CASE Pane!WriteLine
  BY <1>1, <1>13 DEF Pane!WriteLine, Pane!page, Pane!bounds
<1>14. CASE UNCHANGED Pane!vars
  BY <1>1, <1>14 DEF Pane!vars, Pane!page, Pane!bounds
<1>. QED
  BY <1>2, <1>3, <1>4, <1>5, <1>6, <1>7, <1>8, <1>9, <1>10, <1>11, <1>12, <1>13, <1>14
     DEF Pane!Next

\* What Head, Tail and Append do to a queue, position by position.
LEMMA QueueShifts ==
  ASSUME NEW S, NEW q \in Seq(S), q # <<>>
  PROVE  /\ Head(q) = q[1] /\ q[1] \in S /\ Len(q) \in Nat /\ Len(q) >= 1
         /\ Len(Tail(q)) = Len(q) - 1
         /\ DOMAIN q = 1 .. Len(q) /\ DOMAIN Tail(q) = 1 .. Len(Tail(q))
         /\ \A i \in 1 .. Len(q) - 1 : Tail(q)[i] = q[i + 1]
BY HeadTailProperties

LEMMA QueueGrows ==
  ASSUME NEW S, NEW q \in Seq(S), NEW m \in S
  PROVE  /\ Len(q) \in Nat /\ DOMAIN q = 1 .. Len(q)
         /\ DOMAIN Append(q, m) = 1 .. Len(q) + 1 /\ Append(q, m)[Len(q) + 1] = m
         /\ \A i \in DOMAIN q : i \in DOMAIN Append(q, m) /\ Append(q, m)[i] = q[i]
BY AppendProperties

LEMMA Concatenated ==
  ASSUME NEW S, NEW p \in Seq(S), NEW q \in Seq(S)
  PROVE  /\ Len(p) \in Nat /\ Len(q) \in Nat /\ Len(p \o q) = Len(p) + Len(q)
         /\ DOMAIN p = 1 .. Len(p) /\ DOMAIN (p \o q) = 1 .. Len(p \o q)
         /\ \A k \in 1 .. Len(p) : (p \o q)[k] = p[k]
         /\ \A k \in 1 .. Len(q) : (p \o q)[Len(p) + k] = q[k]
<1>1. /\ Len(p) \in Nat /\ Len(q) \in Nat /\ DOMAIN p = 1 .. Len(p)
      /\ p \o q \in Seq(S) /\ Len(p \o q) = Len(p) + Len(q)
      /\ \A i \in 1 .. Len(p) + Len(q) :
           (p \o q)[i] = IF i <= Len(p) THEN p[i] ELSE q[i - Len(p)]
  BY ConcatProperties
<1>2. DOMAIN (p \o q) = 1 .. Len(p \o q)
  BY <1>1
<1>. QED  BY <1>1, <1>2

LEMMA NotEmptied == ASSUME NEW S, NEW q \in Seq(S), NEW m PROVE Append(q, m) # <<>>
<1>. SUFFICES ASSUME Append(q, m) = <<>> PROVE FALSE
  OBVIOUS
<1>1. Len(Append(q, m)) = Len(q) + 1 /\ Len(q) \in Nat
  <2>1. q \in Seq(S \cup {m})
    OBVIOUS
  <2>. QED  BY <2>1, AppendProperties
<1>2. Len(Append(q, m)) = 0
  OBVIOUS
<1>. QED  BY <1>1, <1>2

\* The lines the pane shows or will be given.
Here(n) == n \in Pane!ToSet(shown) \cup Pane!InTransit

\* NothingLost is inductive for typed states: the pane is given a new list, or
\* drops what comes in, only while the server still has an op of it to handle,
\* and the stream that op leaves behind has sent nothing.
LEMMA NothingLostStep ==
  ASSUME Pane!LogViewAssumption, Pane!TypeOK, Pane!NothingLost, [Pane!Next]_(Pane!vars)
  PROVE  Pane!NothingLost'
<1>. USE DEF Pane!LogViewAssumption
<1>1. /\ streams \in [Streams -> StreamSet] /\ up \in Seq({"logs", "unlogs"})
      /\ down \in Seq(Pane!Message) /\ shown \in Seq(1 .. MaxLines) /\ written \in 0 .. MaxLines
      /\ sub \in Streams \cup {NoStream} /\ NoStream \notin Streams
  BY DEF Pane!TypeOK, StreamSet
<1>. SUFFICES ASSUME pane' = "open", socket' = "open", up' = <<>>, sub' # NoStream
              PROVE  \A n \in streams'[sub'].first .. (streams'[sub'].next - 1) : Here(n)'
  BY DEF Pane!NothingLost, Here
<1>2. ASSUME pane = "open", socket = "open", up = <<>>, sub' = sub,
             \A n \in streams'[sub].first .. (streams'[sub].next - 1) :
               n \in streams[sub].first .. (streams[sub].next - 1) \/ Here(n)',
             \A n : Here(n) => Here(n)'
      PROVE  \A n \in streams'[sub'].first .. (streams'[sub'].next - 1) : Here(n)'
  <2>1. \A n \in streams[sub].first .. (streams[sub].next - 1) : Here(n)
    BY <1>2 DEF Pane!NothingLost, Here
  <2>. QED  BY <1>2, <2>1
<1>3. CASE UNCHANGED <<pane, shown, socket, up, down, sub, streams>>
  BY <1>2, <1>3 DEF Here, Pane!ToSet, Pane!InTransit
<1>4. CASE Pane!SubscribeLogs
  <2>1. up' = Append(up, "logs")
    BY <1>4 DEF Pane!SubscribeLogs, Pane!SendUp
  <2>2. Append(up, "logs") # <<>>
    BY <1>1, NotEmptied
  <2>. QED  BY <2>1, <2>2
<1>5. ~Pane!OpenPane /\ ~Pane!ClosePane /\ ~Pane!LoseSocket
  BY DEF Pane!OpenPane, Pane!ClosePane, Pane!LoseSocket
<1>6. CASE Pane!Receive
  <2>. DEFINE m == Head(down)
  <2>1. /\ down # <<>> /\ down' = Tail(down) /\ pane = "open"
        /\ UNCHANGED <<pane, socket, up, sub, streams>>
    BY <1>6 DEF Pane!Receive, Pane!bounds
  <2>2. /\ m \in Pane!Message /\ m = down[1] /\ DOMAIN down = 1 .. Len(down)
        /\ \A i \in 1 .. Len(down) : i = 1 \/ (i - 1 \in DOMAIN down' /\ down'[i - 1] = down[i])
    <3>1. /\ Head(down) = down[1] /\ down[1] \in Pane!Message /\ Len(down) \in Nat
          /\ DOMAIN down' = 1 .. Len(down) - 1 /\ DOMAIN down = 1 .. Len(down)
          /\ \A i \in 1 .. Len(down) - 1 : down'[i] = down[i + 1]
      <4>1. /\ Head(down) = down[1] /\ down[1] \in Pane!Message /\ Len(down) \in Nat
            /\ DOMAIN down = 1 .. Len(down) /\ Len(Tail(down)) = Len(down) - 1
            /\ DOMAIN Tail(down) = 1 .. Len(Tail(down))
            /\ \A i \in 1 .. Len(down) - 1 : Tail(down)[i] = down[i + 1]
        BY <1>1, <2>1, QueueShifts, Zenon
      <4>. QED  BY <2>1, <4>1, Zenon
    <3>2. ASSUME NEW i \in 1 .. Len(down), i # 1
          PROVE  i - 1 \in DOMAIN down' /\ down'[i - 1] = down[i]
      BY <3>1, <3>2
    <3>. QED  BY <3>1, <3>2
  <2>3. m.type = "logs" => /\ m.from \in 1 .. MaxLines /\ m.to \in 1 .. MaxLines
    BY <2>2 DEF Pane!Message, Pane!End, Pane!Lines
  <2>4. \/ m.type = "logs" /\ shown' = shown \o [i \in 1 .. m.to - m.from + 1 |-> m.from + i - 1]
        \/ m.type = "logs_end" /\ shown' = shown
    BY <1>6, <2>1 DEF Pane!Receive
  <2>5. /\ \A n \in Pane!ToSet(shown) : n \in Pane!ToSet(shown')
        /\ m.type = "logs" => \A n \in m.from .. m.to : n \in Pane!ToSet(shown')
    <3>1. CASE m.type = "logs_end" /\ shown' = shown
      BY <3>1
    <3>2. CASE m.type = "logs" /\ shown' = shown \o [i \in 1 .. m.to - m.from + 1 |-> m.from + i - 1]
      <4>. DEFINE b == [i \in 1 .. m.to - m.from + 1 |-> m.from + i - 1]
      <4>1. b \in Seq(1 .. MaxLines) /\ \A n \in m.from .. m.to : \E k \in 1 .. Len(b) : b[k] = n
        <5>1. MaxLines \in Nat /\ m.from \in 1 .. MaxLines /\ m.to \in 1 .. MaxLines
          BY <2>3, <3>2
        <5>. HIDE DEF m, Pane!LogViewAssumption
        <5>2. b = Batch(m.from, m.to)
          BY DEF Batch
        <5>3. /\ Batch(m.from, m.to) \in Seq(1 .. MaxLines)
              /\ \A n \in m.from .. m.to : \E k \in 1 .. Len(Batch(m.from, m.to)) : Batch(m.from, m.to)[k] = n
          BY <5>1, BatchLines
        <5>. HIDE DEF b
        <5>. QED  BY <5>2, <5>3
      <4>. HIDE DEF b
      <4>2. /\ shown' = shown \o b /\ Len(shown') = Len(shown) + Len(b)
            /\ \A k \in 1 .. Len(shown) : shown'[k] = shown[k]
            /\ \A k \in 1 .. Len(b) : shown'[Len(shown) + k] = b[k]
            /\ DOMAIN shown = 1 .. Len(shown) /\ DOMAIN shown' = 1 .. Len(shown')
            /\ Len(shown) \in Nat /\ Len(b) \in Nat
        <5>1. shown' = shown \o b
          BY <3>2 DEF b
        <5>. QED  BY <1>1, <4>1, <5>1, Concatenated
      <4>3. ASSUME NEW n \in Pane!ToSet(shown) PROVE n \in Pane!ToSet(shown')
        <5>1. PICK k \in 1 .. Len(shown) : shown[k] = n
          BY <4>2 DEF Pane!ToSet
        <5>2. k \in 1 .. Len(shown')
          BY <4>2
        <5>. QED  BY <4>2, <5>1, <5>2 DEF Pane!ToSet
      <4>4. ASSUME NEW n \in m.from .. m.to PROVE n \in Pane!ToSet(shown')
        <5>1. PICK k \in 1 .. Len(b) : b[k] = n
          BY <4>1
        <5>2. Len(shown) + k \in 1 .. Len(shown')
          BY <4>2
        <5>. QED  BY <4>2, <5>1, <5>2 DEF Pane!ToSet
      <4>. QED  BY <4>3, <4>4
    <3>. QED  BY <2>4, <3>1, <3>2
  <2>6. ASSUME NEW n, Here(n) PROVE Here(n)'
    <3>1. CASE n \in Pane!ToSet(shown)
      BY <2>5, <3>1 DEF Here, Pane!ToSet
    <3>2. CASE n \in Pane!InTransit
      <4>1. PICK i \in 1 .. Len(down) : down[i].type = "logs" /\ n \in down[i].from .. down[i].to
        BY <1>1, <3>2 DEF Pane!InTransit
      <4>2. n \in 1 .. MaxLines
        BY <3>2 DEF Pane!InTransit
      <4>3. CASE i = 1
        BY <2>2, <2>5, <4>1, <4>3 DEF Here, Pane!ToSet
      <4>4. CASE i # 1
        <5>1. i - 1 \in DOMAIN down' /\ down'[i - 1] = down[i]
          BY <2>2, <4>4
        <5>. QED  BY <4>1, <4>2, <5>1 DEF Here, Pane!InTransit
      <4>. QED  BY <4>3, <4>4
    <3>. QED  BY <2>6, <3>1, <3>2 DEF Here
  <2>. QED  BY <1>2, <2>1, <2>6
<1>7. CASE Pane!Reconnect
  <2>1. up' = <<"logs">>
    BY <1>7 DEF Pane!Reconnect, Pane!page
  <2>. QED  BY <2>1
<1>8. ASSUME NEW s \in Streams, Pane!HandleLogs(s)
      PROVE  \A n \in streams'[sub'].first .. (streams'[sub'].next - 1) : Here(n)'
  <2>1. sub' = s /\ streams' = [Pane!Stop(streams) EXCEPT ![s] = Pane!Fresh]
    BY <1>8 DEF Pane!HandleLogs
  <2>2. streams'[s] = Pane!Fresh
    BY <2>1 DEF Pane!Stop
  <2>. QED  BY <2>1, <2>2 DEF Pane!Fresh, Pane!Idle
<1>9. ~Pane!HandleUnlogs
  BY DEF Pane!HandleUnlogs
<1>10. ASSUME NEW s \in Streams, Pane!OpenLog(s)
       PROVE  \A n \in streams'[sub'].first .. (streams'[sub'].next - 1) : Here(n)'
  <2>. DEFINE l == IF written > TailLen THEN written - TailLen + 1 ELSE 1
  <2>1. l \in Int /\ streams' = [streams EXCEPT ![s].pc = "running", ![s].first = l, ![s].next = l]
    BY <1>1, <1>10 DEF Pane!OpenLog
  <2>. HIDE DEF l
  <2>2. UNCHANGED <<pane, shown, socket, up, down, sub>>
    BY <1>10 DEF Pane!OpenLog, Pane!page
  <2>3. CASE sub = s
    <3>1. streams'[s].first = l /\ streams'[s].next = l
      BY <1>1, <2>1
    <3>2. \A n \in l .. l - 1 : FALSE
      BY <2>1
    <3>. QED  BY <2>2, <2>3, <3>1, <3>2, Zenon
  <2>4. CASE sub # s
    <3>1. streams'[sub] = streams[sub]
      <4>1. sub \in Streams
        BY <1>1, <2>2
      <4>. QED  BY <1>1, <2>1, <2>4, <4>1
    <3>. QED  BY <1>2, <2>2, <3>1 DEF Here, Pane!ToSet, Pane!InTransit
  <2>. QED  BY <2>3, <2>4
<1>11. ASSUME NEW s \in Streams, Pane!OpenFails(s) \/ Pane!LogEnds(s) \/ Pane!Exit(s)
       PROVE  \A n \in streams'[sub'].first .. (streams'[sub'].next - 1) : Here(n)'
  <2>1. /\ streams' = [streams EXCEPT ![s] = Pane!Idle] /\ sub' = IF sub = s THEN NoStream ELSE sub
        /\ down' \in {down, Append(down, Pane!End)}
        /\ UNCHANGED <<pane, shown, socket, up>>
    BY <1>11 DEF Pane!OpenFails, Pane!LogEnds, Pane!Exit, Pane!Ended, Pane!page
  <2>2. sub # s /\ sub' = sub /\ streams'[sub] = streams[sub]
    BY <1>1, <2>1
  <2>3. ASSUME NEW n, Here(n) PROVE Here(n)'
    <3>1. CASE n \in Pane!ToSet(shown)
      BY <2>1, <3>1 DEF Here, Pane!ToSet
    <3>2. CASE n \in Pane!InTransit
      <4>1. \A i \in DOMAIN down : i \in DOMAIN down' /\ down'[i] = down[i]
        <5>1. Pane!End \in Pane!Message
          BY DEF Pane!Message
        <5>2. CASE down' = down
          BY <5>2
        <5>3. CASE down' = Append(down, Pane!End)
          <6>1. \A i \in DOMAIN down : /\ i \in DOMAIN Append(down, Pane!End)
                                       /\ Append(down, Pane!End)[i] = down[i]
            BY <1>1, <5>1, QueueGrows
          <6>. QED  BY <5>3, <6>1
        <5>. QED  BY <2>1, <5>2, <5>3
      <4>. QED  BY <3>2, <4>1 DEF Here, Pane!InTransit
    <3>. QED  BY <2>3, <3>1, <3>2 DEF Here
  <2>. QED  BY <1>2, <2>1, <2>2, <2>3
<1>12. ASSUME NEW s \in Streams, Pane!Flush(s)
       PROVE  \A n \in streams'[sub'].first .. (streams'[sub'].next - 1) : Here(n)'
  <2>. DEFINE m == Pane!Lines(streams[s].next, written)
  <2>1. /\ streams' = [streams EXCEPT ![s].next = written + 1] /\ down' = Append(down, m)
        /\ UNCHANGED <<pane, shown, socket, up, sub>>
    BY <1>12 DEF Pane!Flush, Pane!page
  <2>2. /\ \A i \in DOMAIN down : i \in DOMAIN down' /\ down'[i] = down[i]
        /\ Len(down) + 1 \in DOMAIN down' /\ down'[Len(down) + 1] = m
    <3>1. m \in Pane!Message
      <4>1. streams[s].next \in 1 .. MaxLines + 1 /\ streams[s].next <= written
        BY <1>1, <1>12 DEF StreamSet, Pane!Flush
      <4>2. streams[s].next \in 1 .. MaxLines /\ written \in 1 .. MaxLines
        BY <1>1, <4>1
      <4>. QED  BY <4>2 DEF Pane!Message
    <3>. QED  BY <1>1, <2>1, <3>1, QueueGrows
  <2>3. ASSUME NEW n, Here(n) PROVE Here(n)'
    <3>1. CASE n \in Pane!ToSet(shown)
      BY <2>1, <3>1 DEF Here, Pane!ToSet
    <3>2. CASE n \in Pane!InTransit
      BY <2>2, <3>2 DEF Here, Pane!InTransit
    <3>. QED  BY <2>3, <3>1, <3>2 DEF Here
  <2>4. ASSUME NEW n \in streams[s].next .. written PROVE Here(n)'
    <3>1. n \in 1 .. MaxLines
      BY <1>1, <2>4 DEF StreamSet
    <3>2. m.type = "logs" /\ n \in m.from .. m.to
      BY DEF Pane!Lines
    <3>. QED  BY <2>2, <3>1, <3>2 DEF Here, Pane!InTransit
  <2>5. ASSUME NEW n \in streams'[sub].first .. (streams'[sub].next - 1)
        PROVE  n \in streams[sub].first .. (streams[sub].next - 1) \/ Here(n)'
    <3>1. CASE sub # s
      BY <1>1, <2>1, <2>5, <3>1
    <3>2. CASE sub = s
      <4>1. streams'[s].first = streams[s].first /\ streams'[s].next = written + 1
        BY <1>1, <2>1
      <4>2. streams[s].first \in Int /\ streams[s].next \in Int /\ written \in Int
        BY <1>1 DEF StreamSet
      <4>3. n \in streams[s].first .. written
        BY <2>5, <3>2, <4>1, <4>2
      <4>. QED  BY <2>4, <3>2, <4>2, <4>3
    <3>. QED  BY <3>1, <3>2
  <2>. QED  BY <1>2, <2>1, <2>3, <2>5
<1>13. Pane!WriteLine \/ UNCHANGED Pane!vars
         => UNCHANGED <<pane, shown, socket, up, down, sub, streams>>
  BY DEF Pane!WriteLine, Pane!vars, Pane!page
<1>. QED
  BY <1>3, <1>4, <1>5, <1>6, <1>7, <1>8, <1>9, <1>10, <1>11, <1>12, <1>13 DEF Pane!Next

-----------------------------------------------------------------------------
(* The parts side by side.                                                 *)

LEMMA PartsStep ==
  ASSUME PageAssumption, Pane!LogViewAssumption, Inv, TypesOK, [PartsNext]_<<part, vars, logs, clientVars>>
  PROVE  Inv' /\ TypesOK'
<1>1. [Next]_vars /\ [Pane!Next]_(Pane!vars) /\ [ClientNext]_clientVars
  BY DEF PartsNext, logs, Pane!vars, Pane!page, Pane!bounds
<1>2. ClientTypeOK'
  BY <1>1, TypeNext DEF TypesOK
<1>. QED
  BY <1>1, <1>2, OneSocketStep, SessionTypeStep, PaneTypeStep DEF TypesOK

\* Page: every variable of the session, of the log pane and of the client has its
\* type, for any number of streams, lines, reconnects, sign-ins, slots and units.
THEOREM PageTypesCorrect == ASSUME PageAssumption, Pane!LogViewAssumption PROVE PartsSpec => []TypesOK
<1>1. PartsInit => Inv /\ TypesOK
  BY SessionInit, PaneInit, TypeInit DEF PartsInit, TypesOK
<1>2. Inv /\ TypesOK /\ [PartsNext]_<<part, vars, logs, clientVars>> => Inv' /\ TypesOK'
  BY PartsStep
<1>. QED
  BY <1>1, <1>2, PTL DEF PartsSpec

\* LogPane.svelte and live.svelte.ts against ws.go: once the server has seen
\* every op of the page, each line the pane's stream has sent is shown or in
\* transit, whatever streams, panes and sockets came before it.
THEOREM PaneLosesNothing == ASSUME PageAssumption, Pane!LogViewAssumption PROVE PartsSpec => []NothingLost
<1>. DEFINE I == Inv /\ TypesOK /\ Pane!NothingLost
<1>1. PartsInit => I
  <2>1. Pane!Init => Pane!NothingLost
    BY DEF Pane!Init, Pane!NothingLost
  <2>. QED  BY <2>1, SessionInit, PaneInit, TypeInit DEF PartsInit, TypesOK
<1>2. I /\ [PartsNext]_<<part, vars, logs, clientVars>> => I'
  <2>1. [PartsNext]_<<part, vars, logs, clientVars>> => [Pane!Next]_(Pane!vars)
    BY DEF PartsNext, logs, Pane!vars, Pane!page, Pane!bounds
  <2>. QED  BY <2>1, PartsStep, NothingLostStep DEF TypesOK
<1>3. I => NothingLost
  BY DEF NothingLost
<1>. QED
  BY <1>1, <1>2, <1>3, PTL DEF PartsSpec
=============================================================================
