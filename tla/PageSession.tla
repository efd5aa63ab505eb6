---------------------------- MODULE PageSession -----------------------------
(***************************************************************************)
(* A page, its one websocket and its sign-in: web/src/App.svelte (which of *)
(* login and console is shown), lib/live.svelte.ts (connect, close,        *)
(* reconnect), lib/api.ts (a 401 signs out), Console.svelte and            *)
(* Login.svelte, against agent/internal/api/server.go and ws.go: every     *)
(* request carries the cookie's token, and watchSession closes the socket  *)
(* of a session that ended with code 4001.                                 *)
(*                                                                         *)
(* Browser events run one after the other, but arrive when they like: the  *)
(* close event of a socket the page has closed, or the 401 of a request    *)
(* it sent before the user signed in again.                                *)
(*                                                                         *)
(* Abstractions.  Sessions are numbered; the first request and sign-in are *)
(* answered at once; of one kind of request the page has one on its way.   *)
(* Delays are not told apart, so attempt is counted up to where it still   *)
(* makes a difference.                                                     *)
(***************************************************************************)
EXTENDS Integers, FiniteSets

CONSTANTS
  Sockets,      \* socket objects the page has at a time
  None,         \* no socket
  MaxSessions,  \* bound on the sign-ins
  MaxOutages    \* bound on the times the server is not reachable

PageAssumption ==
  None \notin Sockets /\ MaxSessions \in Nat \ {0} /\ MaxOutages \in Nat

VARIABLES
  phase,        \* App: checking, in (the console) or out (the login)
  stopped, attempt, timer, ws,     \* Live's fields
  sockets,      \* each socket: state, and the token it was opened with
  requests,     \* each kind of request: the token it carries, where it is
  cookie,       \* the browser's token, 0 for none
  alive,        \* the sessions the server knows
  sessions,     \* how many there were
  net           \* is the server reachable, and how often was it not

conn   == <<stopped, attempt, timer, ws, sockets>>
server == <<cookie, alive, sessions>>
vars   == <<phase, conn, requests, server, net>>

Tokens == 1 .. MaxSessions
Kinds  == {"check", "api", "logout"}
Enough == 3      \* attempts: only the second is special

Unused == [state |-> "unused", token |-> 0]
Silent == [state |-> "none", token |-> 0]
Sent   == [state |-> "sent", token |-> cookie]

-----------------------------------------------------------------------------
(* Live.                                                                   *)

\* #open: a new socket, with the cookie of the moment, becomes the page's own.
Open(s, token) ==
  /\ sockets[s].state = "unused"
  /\ sockets' = [sockets EXCEPT ![s] = [state |-> "connecting", token |-> token]]
  /\ ws' = s /\ timer' = FALSE

\* Mutant of Connect: the page stays stopped.
MConnect(token) ==
  /\ \E s \in Sockets : Open(s, token)
  /\ UNCHANGED <<stopped, attempt>>

\* connect, called when the console is shown.
Connect(token) ==
  /\ \E s \in Sockets : Open(s, token)
  /\ stopped' = FALSE
  /\ UNCHANGED attempt

\* The console is shown: it connects, and asks for what the socket does not carry.
ShowConsole(token) ==
  /\ phase' = "in"
  /\ Connect(token)
  /\ requests' = IF requests["api"] # Silent THEN requests
                 ELSE [requests EXCEPT !["api"] = [state |-> "sent", token |-> token]]

Hung(ss) == [s \in Sockets |-> IF s = ws THEN [ss[s] EXCEPT !.state = "closing"] ELSE ss[s]]

\* Mutant of Close: the timer of the next attempt is not cleared.
MClose ==
  /\ stopped' = TRUE /\ ws' = None
  /\ sockets' = Hung(sockets)
  /\ UNCHANGED <<attempt, timer>>

\* close, called when the console goes away.
Close ==
  /\ stopped' = TRUE /\ timer' = FALSE /\ ws' = None
  /\ sockets' = Hung(sockets)
  /\ UNCHANGED attempt

\* SIGNED_OUT: the login is shown, and a console that was is closed.
SignedOut ==
  /\ phase' = IF phase = "checking" THEN phase ELSE "out"
  /\ IF phase = "in" THEN Close ELSE UNCHANGED conn

TimerFires(s) ==
  /\ timer
  /\ Open(s, cookie)
  /\ UNCHANGED <<phase, stopped, attempt, requests, server, net>>

\* onopen.
Opened(s) ==
  /\ sockets[s].state = "connecting"
  /\ net.up /\ sockets[s].token \in alive
  /\ sockets' = [sockets EXCEPT ![s].state = "open"]
  /\ attempt' = 0
  /\ UNCHANGED <<phase, stopped, timer, ws, requests, server, net>>

\* watchSession has found the session gone.
ServerCloses(s) ==
  /\ sockets[s].state = "open" /\ net.up /\ sockets[s].token \notin alive
  /\ sockets' = [sockets EXCEPT ![s].state = "ended"]
  /\ UNCHANGED <<phase, stopped, attempt, timer, ws, requests, server, net>>

\* The upgrade is refused, or the connection is lost.
Broken(s) ==
  \/ sockets[s].state = "connecting" /\ (~net.up \/ sockets[s].token \notin alive)
  \/ sockets[s].state \in {"open", "ended"} /\ ~net.up

Gone(s) == sockets' = [sockets EXCEPT ![s] = Unused]

\* onclose of a socket that is not the page's own any more.
StaleClosed(s) ==
  /\ sockets[s].state = "closing"
  /\ Gone(s)
  /\ UNCHANGED <<phase, stopped, attempt, timer, ws, requests, server, net>>

\* onclose with 4001.
SessionEnded(s) ==
  /\ sockets[s].state = "ended"
  /\ Gone(s) /\ ws' = None
  /\ IF stopped THEN UNCHANGED <<phase, stopped, timer>>
     ELSE phase' = "out" /\ stopped' = TRUE /\ timer' = FALSE
  /\ UNCHANGED <<attempt, requests, server, net>>

\* onclose otherwise: another attempt after a while, and once, at the second, the
\* question whether the session died.
Closed(s) ==
  /\ Broken(s)
  /\ Gone(s) /\ ws' = None
  /\ IF stopped THEN UNCHANGED <<timer, attempt, requests>>
     ELSE /\ timer' = TRUE
          /\ attempt' = IF attempt < Enough THEN attempt + 1 ELSE attempt
          /\ requests' = IF attempt = 1 THEN [requests EXCEPT !["check"] = Sent] ELSE requests
  /\ UNCHANGED <<phase, stopped, server, net>>

-----------------------------------------------------------------------------
(* The page's requests.                                                    *)

\* The first thing a page asks: is it signed in?
Start ==
  /\ phase = "checking"
  /\ IF net.up /\ cookie \in alive
     THEN ShowConsole(cookie)
     ELSE phase' = "out" /\ UNCHANGED <<conn, requests>>
  /\ UNCHANGED <<server, net>>

SignIn ==
  /\ phase = "out" /\ net.up /\ sessions < MaxSessions
  /\ sessions' = sessions + 1 /\ cookie' = sessions + 1
  /\ alive' = alive \cup {sessions + 1}
  /\ ShowConsole(sessions + 1)
  /\ UNCHANGED net

\* The console asks for something, or the user signs out.
Ask(k) ==
  /\ phase = "in" /\ k # "check" /\ requests[k] = Silent
  /\ requests' = [requests EXCEPT ![k] = Sent]
  /\ UNCHANGED <<phase, conn, server, net>>

\* authed and the handler: only a logout changes anything.
Handle(k) ==
  /\ requests[k].state = "sent" /\ net.up
  /\ LET known == requests[k].token \in alive
     IN  /\ requests' = [requests EXCEPT ![k].state = IF known THEN "ok" ELSE "refused"]
         /\ alive' = IF known /\ k = "logout" THEN alive \ {requests[k].token} ELSE alive
  /\ UNCHANGED <<phase, conn, cookie, sessions, net>>

Fail(k) ==
  /\ requests[k].state = "sent" /\ ~net.up
  /\ requests' = [requests EXCEPT ![k].state = "failed"]
  /\ UNCHANGED <<phase, conn, server, net>>

\* A 401 signs out, and so does whatever comes of a logout; who has signed in
\* since is not asked.  The answer to a logout takes the cookie away.
Answered(k) ==
  /\ requests[k].state \in {"ok", "refused", "failed"}
  /\ IF requests[k].state = "refused" \/ k = "logout" THEN SignedOut ELSE UNCHANGED <<phase, conn>>
  /\ cookie' = IF k = "logout" /\ requests[k].state = "ok" THEN 0 ELSE cookie
  /\ requests' = [requests EXCEPT ![k] = Silent]
  /\ UNCHANGED <<alive, sessions, net>>

-----------------------------------------------------------------------------
(* The server's sessions and the network.                                  *)

SessionEnds(t) ==
  /\ t \in alive
  /\ alive' = alive \ {t}
  /\ UNCHANGED <<phase, conn, requests, cookie, sessions, net>>

NetChanges ==
  /\ net.up => net.outages < MaxOutages
  /\ net' = [up |-> ~net.up, outages |-> IF net.up THEN net.outages + 1 ELSE net.outages]
  /\ UNCHANGED <<phase, conn, requests, server>>

-----------------------------------------------------------------------------
Init ==
  /\ phase = "checking"
  /\ stopped = TRUE /\ attempt = 0 /\ timer = FALSE /\ ws = None
  /\ sockets = [s \in Sockets |-> Unused]
  /\ requests = [k \in Kinds |-> Silent]
  /\ \/ cookie = 0 /\ alive = {} /\ sessions = 0
     \/ cookie = 1 /\ alive \in {{}, {1}} /\ sessions = 1
  /\ net = [up |-> TRUE, outages |-> 0]

Event(s) == StaleClosed(s) \/ SessionEnded(s) \/ Closed(s)

Next ==
  \/ Start \/ SignIn
  \/ \E s \in Sockets : TimerFires(s) \/ Opened(s) \/ ServerCloses(s) \/ Event(s)
  \/ \E k \in Kinds : Ask(k) \/ Handle(k) \/ Fail(k) \/ Answered(k)
  \/ \E t \in Tokens : SessionEnds(t)
  \/ NetChanges

Spec == Init /\ [][Next]_vars

\* The browser's timers and events come, and the server answers whom it can
\* reach.  Nothing is assumed of the user, the network or how long sessions last.
Fairness ==
  /\ WF_vars(Start)
  /\ WF_vars(\E s \in Sockets : TimerFires(s))
  /\ \A s \in Sockets : WF_vars(Opened(s)) /\ WF_vars(ServerCloses(s)) /\ WF_vars(Event(s))
  /\ \A k \in Kinds : WF_vars(Handle(k)) /\ WF_vars(Fail(k)) /\ WF_vars(Answered(k))

FairSpec == Spec /\ Fairness

-----------------------------------------------------------------------------
(* Properties.                                                             *)

\* Every variable has its type.
TypeOK ==
  /\ phase \in {"checking", "in", "out"}
  /\ stopped \in BOOLEAN /\ timer \in BOOLEAN /\ attempt \in 0 .. Enough
  /\ ws \in Sockets \cup {None}
  /\ sockets \in [Sockets -> [state : {"unused", "connecting", "open", "ended", "closing"},
                              token : 0 .. MaxSessions]]
  /\ requests \in [Kinds -> [state : {"none", "sent", "ok", "refused", "failed"},
                             token : 0 .. MaxSessions]]
  /\ cookie \in 0 .. MaxSessions /\ alive \subseteq Tokens /\ sessions \in 0 .. MaxSessions
  /\ net \in [up : BOOLEAN, outages : 0 .. MaxOutages]

\* A page has at most one socket that is not being closed, its own, and none, nor
\* a timer that will open one, while the login is shown: whichever close event,
\* timer or late answer comes first.
OneSocket ==
  /\ \A s \in Sockets : sockets[s].state \notin {"unused", "closing"} => ws = s
  /\ ws # None => ~timer
  /\ phase # "in" => ws = None /\ ~timer /\ stopped

\* A console that stays, of a session that lives, at a server that can be reached,
\* ends up connected for good.
Connected      == ws # None /\ sockets[ws].state = "open"
StaysConnected == <>[](net.up /\ phase = "in" /\ cookie \in alive) => <>[]Connected

\* live.svelte.ts:116 says of a failed upgrade that it is checked whether the
\* session died: a page whose session is gone, and that can reach the server
\* again, ends up at the login.
SessionDeathIsSeen == <>[](net.up /\ cookie \notin alive) => <>(phase = "out")
=============================================================================
