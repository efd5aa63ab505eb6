------------------------------ MODULE Activity ------------------------------
(***************************************************************************)
(* From an action to the Activity list: the handler action() of server.go, *)
(* audit.go with its file, the broadcast, and on the page Console.svelte   *)
(* (the fetch when it is mounted) and live.svelte.ts (setAudit, onmessage).*)
(*                                                                         *)
(* The handler acts, appends an entry to the log (memory and file, under   *)
(* one lock), broadcasts it and answers.  The page fills its list with an  *)
(* answer of /api/audit and puts entries that are broadcast in front.      *)
(*                                                                         *)
(* Abstractions.  An entry is named by its request.  The file is the       *)
(* entries a reader finds in it and how it ends.  A short write leaves a   *)
(* part of a line, or all of it but the newline; what is written next      *)
(* continues that line, which nobody can read then.  The hub's queue and   *)
(* the websocket are one sequence of entries under way; module Hub has the *)
(* queue's limit, which loses the connection (Lose here).  RefreshUnits    *)
(* belongs to Hub.                                                         *)
(***************************************************************************)
EXTENDS Integers, Sequences, SequencesExt

CONSTANTS
  Requests,     \* action requests
  Mounts,       \* times the page's console is mounted (signing in again), 1..n
  Keep,         \* keep: entries in memory (200 in the code)
  Shown,        \* entries asked for and listed by the page (100 in the code)
  MaxRestarts,  \* bound: restarts of dashd
  MaxLosses     \* bound: broken websockets

ASSUME ActivityAssumption ==
  /\ Keep \in Nat \ {0} /\ Shown \in Nat \ {0}
  /\ Mounts \subseteq Nat /\ MaxRestarts \in Nat /\ MaxLosses \in Nat

VARIABLES
  pc,        \* where each request's handler is
  result,    \* what Registry.Do returned
  recent,    \* Log.recent, oldest first
  file,      \* the audit file: its entries, and its end: "whole" lines, one that is
             \*   "torn", or an entry that is "unended", without its newline
  mounted,   \* how many times the console was mounted, and whether it is now
  socket,    \* its websocket is in h.clients
  net,       \* entries broadcast to it and not yet received
  fetch,     \* each mount's request for /api/audit
  list,      \* live.audit: newest first
  count,     \* how many restarts and lost sockets there were
  ran,       \* history: requests whose action was carried out
  failed     \* history: a write to the file failed

vars == <<pc, result, recent, file, mounted, socket, net, fetch, list, count,
          ran, failed>>

handlers == <<pc, result, ran>>
log      == <<recent, file, failed>>
page     == <<mounted, socket, net, fetch, list>>

\* "refused": ErrUnknownUnit or ErrBadAction, nothing was tried.
Results == {"ok", "error", "refused"}

\* The last n elements of a sequence, and its first n.
Newest(s, n) == SubSeq(s, IF Len(s) > n THEN Len(s) - n + 1 ELSE 1, Len(s))
Cut(s, n)    == SubSeq(s, 1, IF Len(s) > n THEN n ELSE Len(s))

-----------------------------------------------------------------------------
(* The handler.                                                            *)

\* Registry.Do returns; a failed action was tried, a refused one was not.
Do(r, res) ==
  /\ pc[r] = "idle"
  /\ pc' = [pc EXCEPT ![r] = "acted"]
  /\ result' = [result EXCEPT ![r] = res]
  /\ ran' = IF res = "refused" THEN ran ELSE ran \cup {r}
  /\ UNCHANGED <<log, page, count>>

\* push: the newest Keep entries stay in memory.
Push(r) == recent' = Newest(Append(recent, r), Keep)

\* The entries whose lines are complete: what is written later leaves them alone.
Lines == IF file.end = "unended" THEN Front(file.entries) ELSE file.entries

\* Write: the whole line, nothing of it, a part, or all but the newline.  What
\* does not start a line is lost, and so is the entry it was added to.
Write(r) ==
  \/ /\ file' = [entries |-> IF file.end = "whole" THEN Append(Lines, r) ELSE Lines,
                 end |-> "whole"]
     /\ UNCHANGED failed
  \/ /\ failed' = TRUE
     /\ \/ UNCHANGED file
        \/ file' = [entries |-> Lines, end |-> "torn"]
        \/ file.end = "whole" /\ file' = [entries |-> Append(Lines, r), end |-> "unended"]

\* Mutant of Record: an action that failed leaves no record.
MRecord(r) ==
  /\ pc[r] = "acted" /\ result[r] # "refused"
  /\ IF result[r] = "ok" THEN Push(r) /\ Write(r) ELSE UNCHANGED log
  /\ pc' = [pc EXCEPT ![r] = "recorded"]
  /\ UNCHANGED <<result, ran, page, count>>

\* Mutant of Record: requests for unknown units are recorded as well.
RecordAll(r) ==
  /\ pc[r] = "acted"
  /\ Push(r) /\ Write(r)
  /\ pc' = [pc EXCEPT ![r] = "recorded"]
  /\ UNCHANGED <<result, ran, page, count>>

\* Audit.Append: both under l.mu.  A failed write is only logged.
Record(r) ==
  /\ pc[r] = "acted" /\ result[r] # "refused"
  /\ Push(r) /\ Write(r)
  /\ pc' = [pc EXCEPT ![r] = "recorded"]
  /\ UNCHANGED <<result, ran, page, count>>

\* Hub.Broadcast.
Send(r) ==
  /\ pc[r] = "recorded"
  /\ net' = IF socket THEN Append(net, r) ELSE net
  /\ pc' = [pc EXCEPT ![r] = "sent"]
  /\ UNCHANGED <<result, ran, log, mounted, socket, fetch, list, count>>

\* The answer goes out.
Reply(r) ==
  /\ \/ pc[r] = "sent"
     \/ pc[r] = "acted" /\ result[r] = "refused"
  /\ pc' = [pc EXCEPT ![r] = "answered"]
  /\ UNCHANGED <<result, ran, log, page, count>>

\* Mutant of Restart: Open keeps the oldest entries of the file.
MRestart ==
  /\ count.restarts < MaxRestarts
  /\ count' = [count EXCEPT !.restarts = @ + 1]
  /\ pc' = [r \in Requests |-> IF pc[r] \in {"acted", "recorded", "sent"}
                                 THEN "gone" ELSE pc[r]]
  /\ recent' = Cut(file.entries, Keep)
  /\ socket' = FALSE /\ net' = <<>>
  /\ fetch' = [m \in Mounts |-> IF fetch[m].pc = "asked"
                                  THEN [pc |-> "over", entries |-> <<>>] ELSE fetch[m]]
  /\ UNCHANGED <<result, ran, file, failed, mounted, list>>

\* dashd dies or is stopped at any moment: serve returns as soon as Shutdown
\* begins, without waiting for handlers.  A request under way gets no answer.
\* Open reads the file.
Restart ==
  /\ count.restarts < MaxRestarts
  /\ count' = [count EXCEPT !.restarts = @ + 1]
  /\ pc' = [r \in Requests |-> IF pc[r] \in {"acted", "recorded", "sent"}
                                 THEN "gone" ELSE pc[r]]
  /\ recent' = Newest(file.entries, Keep)
  /\ socket' = FALSE /\ net' = <<>>
  /\ fetch' = [m \in Mounts |-> IF fetch[m].pc = "asked"
                                  THEN [pc |-> "over", entries |-> <<>>] ELSE fetch[m]]
  /\ UNCHANGED <<result, ran, file, failed, mounted, list>>

-----------------------------------------------------------------------------
(* The page.                                                               *)

\* onMount of the console: live.connect() and api.audit().
Mount ==
  /\ ~mounted.now /\ mounted.times + 1 \in Mounts
  /\ mounted' = [now |-> TRUE, times |-> mounted.times + 1]
  /\ fetch' = [fetch EXCEPT ![mounted.times + 1] = [pc |-> "asked", entries |-> <<>>]]
  /\ UNCHANGED <<handlers, log, socket, net, list, count>>

\* Signing out: live.close().  The list stays, and so does a fetch under way.
Unmount ==
  /\ mounted.now
  /\ mounted' = [mounted EXCEPT !.now = FALSE]
  /\ socket' = FALSE /\ net' = <<>>
  /\ UNCHANGED <<handlers, log, fetch, list, count>>

\* The websocket opens, or opens again; hello has no entries.
Connect ==
  /\ mounted.now /\ ~socket
  /\ socket' = TRUE
  /\ UNCHANGED <<handlers, log, mounted, net, fetch, list, count>>

Lose ==
  /\ socket /\ count.losses < MaxLosses
  /\ count' = [count EXCEPT !.losses = @ + 1]
  /\ socket' = FALSE /\ net' = <<>>
  /\ UNCHANGED <<handlers, log, mounted, fetch, list>>

\* /api/audit reads Recent; the answer travels beside the websocket.
ServeAudit(m) ==
  /\ fetch[m].pc = "asked"
  /\ fetch' = [fetch EXCEPT ![m] = [pc |-> "answered", entries |-> Reverse(Newest(recent, Shown))]]
  /\ UNCHANGED <<handlers, log, mounted, socket, net, list, count>>

\* setAudit: the answer replaces the list.
SetAudit(m) ==
  /\ fetch[m].pc = "answered"
  /\ list' = fetch[m].entries
  /\ fetch' = [fetch EXCEPT ![m] = [pc |-> "over", entries |-> <<>>]]
  /\ UNCHANGED <<handlers, log, mounted, socket, net, count>>

\* onmessage "audit": in front, and the list keeps its length.
Receive ==
  /\ net # <<>>
  /\ list' = Cut(<<Head(net)>> \o list, Shown)
  /\ net' = Tail(net)
  /\ UNCHANGED <<handlers, log, mounted, socket, fetch, count>>

-----------------------------------------------------------------------------

Init ==
  /\ pc = [r \in Requests |-> "idle"] /\ result = [r \in Requests |-> "ok"]
  /\ recent = <<>> /\ file = [entries |-> <<>>, end |-> "whole"]
  /\ mounted = [now |-> FALSE, times |-> 0]
  /\ socket = FALSE /\ net = <<>>
  /\ fetch = [m \in Mounts |-> [pc |-> "over", entries |-> <<>>]]
  /\ list = <<>>
  /\ count = [restarts |-> 0, losses |-> 0]
  /\ ran = {} /\ failed = FALSE

Next ==
  \/ \E r \in Requests : \/ \E res \in Results : Do(r, res)
                         \/ Record(r) \/ Send(r) \/ Reply(r)
  \/ Restart \/ Mount \/ Unmount \/ Connect \/ Lose \/ Receive
  \/ \E m \in Mounts : ServeAudit(m) \/ SetAudit(m)

Spec == Init /\ [][Next]_vars

-----------------------------------------------------------------------------
(* Properties.                                                             *)

Fetches == [pc : {"asked", "answered", "over"}, entries : Seq(Requests)]

TypeOK ==
  /\ pc \in [Requests -> {"idle", "acted", "recorded", "sent", "answered", "gone"}]
  /\ result \in [Requests -> Results]
  /\ recent \in Seq(Requests) /\ Len(recent) <= Keep
  /\ file \in [entries : Seq(Requests), end : {"whole", "torn", "unended"}]
  /\ file.end = "unended" => file.entries # <<>>
  /\ mounted \in [now : BOOLEAN, times : {0} \cup Mounts]
  /\ socket \in BOOLEAN /\ net \in Seq(Requests)
  /\ fetch \in [Mounts -> Fetches]
  /\ \A m \in Mounts : Len(fetch[m].entries) <= Shown
  /\ list \in Seq(Requests) /\ Len(list) <= Shown
  /\ count \in [restarts : 0..MaxRestarts, losses : 0..MaxLosses]
  /\ ran \subseteq Requests /\ failed \in BOOLEAN

\* What is in memory is what a restart would read back, as long as every write
\* succeeded: Recent does not change over a restart.
MemoryMatchesFile == ~failed => recent = Newest(file.entries, Keep)

\* Whoever was told of an action, by an answer or by an entry in the page's list,
\* was told of one that the file has, as long as every write succeeded: no crash
\* takes it back.  The broadcast, the answer and /api/audit all come after it.
Told == {r \in Requests : pc[r] = "answered" /\ result[r] # "refused"}
          \cup Range(list) \cup Range(net)
          \cup UNION {Range(fetch[m].entries) : m \in Mounts}

ToldIsSaved == ~failed => Told \subseteq Range(file.entries)

\* The complete lines of the file are an audit log as AuditLog states it: entries
\* of actions that were carried out, each once, only ever appended to, whatever
\* restarts and failed writes there are.  An entry that was written without its
\* newline is not one of them: Open reads it, but the next Append destroys it.
Abstract == INSTANCE AuditLog WITH Actions <- Requests, log <- Lines

IsAuditLog == Abstract!Spec

\* README.md:68: "Every action, including failed ones, is appended to the audit
\* log".  An action that was carried out and whose handler is through with it, or
\* gone, has its entry, even if only writes that succeed are considered.
EveryActionRecorded ==
  ~failed => \A r \in ran : pc[r] # "acted" => r \in Range(file.entries)

\* README.md:68 goes on: "and shown under Activity."  Once nothing is under way
\* any more, a page that is open and connected lists the newest entries of the
\* log.
Quiet ==
  /\ \A r \in Requests : pc[r] \in {"idle", "answered", "gone"}
  /\ mounted.now /\ socket /\ net = <<>>
  /\ \A m \in Mounts : fetch[m].pc = "over"

ShownUnderActivity ==
  Quiet => Range(Newest(recent, Shown)) \subseteq Range(list)

=============================================================================
