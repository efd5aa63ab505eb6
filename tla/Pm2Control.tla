----------------------------- MODULE Pm2Control -----------------------------
(***************************************************************************)
(* Bot buttons, end to end: dashd's side (providers/pm2/pm2.go Do,         *)
(* control.go SendControl, api/server.go action), the dashd-pm2 helper     *)
(* (control.go handleControl and act, export.go Run) and the pm2 daemon,   *)
(* which is outside the repository and modelled by how it is used.         *)
(*                                                                         *)
(* A press names a unit; dashd looks the unit up in the snapshot file,     *)
(* which lags behind pm2, and asks the helper.  The helper takes one       *)
(* request at a time: it lists pm2, checks that id and name still belong   *)
(* together, and only then calls pm2.  Any of the three can be slow, the   *)
(* helper can crash, and pm2 may still do what nobody waits for any more.  *)
(*                                                                         *)
(* Time.  A tick ages every press that dashd waits for and the helper's    *)
(* running action.  A deadline is met exactly: time does not pass a timer  *)
(* that is due.  A request reaches the helper's handler within Slack.      *)
(*                                                                         *)
(* Abstractions.  A unit is a process name that occurs once (bind gives    *)
(* others a different id); start, stop and restart are one action.         *)
(***************************************************************************)
EXTENDS Integers, FiniteSets

CONSTANTS
  Presses,      \* button presses
  Ids,          \* pm2 ids
  Names,        \* process names
  NoName,       \* no process has this id
  NoId,         \* a press that was not resolved
  NoPress,      \* nobody holds actMu
  ServerWait,   \* ticks dashd waits for an action (90 s in the code)
  ActionWait,   \* ActionTimeout (60 s in the code)
  MaxTableChanges \* bound on the changes of pm2's process table

ASSUME Pm2Assumption ==
  /\ NoName \notin Names /\ NoPress \notin Presses
  /\ ServerWait \in Nat /\ ActionWait \in Nat \ {0} /\ ActionWait < ServerWait
  /\ MaxTableChanges \in Nat

VARIABLES
  table,    \* pm2's processes: the name of each id
  taken,    \* what the exporter's Take last read
  snap,     \* the snapshot file
  holder,   \* the request that holds actMu
  actAge,   \* ticks since it took the lock
  pc,       \* where each press is
  unit,     \* the unit it names, once found in the snapshot
  target,   \* the id it was resolved to
  age,      \* ticks dashd has waited
  report,   \* what the page was told
  call,     \* the call to pm2: "none", "pending", "done" or "failed"
  hit,      \* history: the name of the process the call acted on
  moved,    \* history: the table changed between the helper's check and the call
  changes

pm2    == <<table, changes>>
files  == <<taken, snap>>
lock   == <<holder, actAge>>
resolved  == <<unit, target>>
calls  == <<call, hit, moved>>
buttonVars == <<pm2, files, lock, pc, resolved, age, report, calls>>

Slack   == ServerWait - ActionWait - 1
Acting  == {"listing", "checked", "calling"}
Answers == {"accepted", "refused", "failed", "lost"}

\* dashd still waits for the press's answer.
Waiting(p) == pc[p] \in {"asked"} \cup Acting \cup Answers /\ report[p] = "none"

Goto(p, where) == pc' = [pc EXCEPT ![p] = where]
Unlock == holder' = NoPress /\ actAge' = 0

-----------------------------------------------------------------------------
(* dashd.                                                                  *)

\* Do: the unit is looked up in the snapshot of the moment, however old the
\* page is.  A snapshot that cannot be used, and a unit that is not in it,
\* refuse the press at once.
Press(p, n) ==
  /\ pc[p] = "idle"
  /\ \/ \E i \in Ids :
          /\ snap[i] = n /\ \A j \in Ids \ {i} : snap[j] # n
          /\ unit' = [unit EXCEPT ![p] = n]
          /\ target' = [target EXCEPT ![p] = i]
          /\ Goto(p, "asked")
          /\ UNCHANGED report
     \/ /\ Goto(p, "over")
        /\ report' = [report EXCEPT ![p] = "refused"]
        /\ UNCHANGED resolved
  /\ UNCHANGED <<pm2, files, lock, age, calls>>

\* Mutant of Report: a closed connection ends the wait without a word.
MReport(p) ==
  /\ Waiting(p) /\ pc[p] \in Answers
  /\ Goto(p, "over")
  /\ report' = [report EXCEPT ![p] = CASE pc[p] = "accepted" -> "ok"
                                       [] pc[p] = "refused"  -> "refused"
                                       [] pc[p] = "failed"   -> "unknown"
                                       [] OTHER              -> "none"]
  /\ age' = [age EXCEPT ![p] = 0]
  /\ UNCHANGED <<pm2, files, lock, resolved, calls>>

\* SendControl reads the answer, or finds the connection closed.
Report(p) ==
  /\ Waiting(p) /\ pc[p] \in Answers
  /\ Goto(p, "over")
  /\ report' = [report EXCEPT ![p] = CASE pc[p] = "accepted" -> "ok"
                                       [] pc[p] = "refused"  -> "refused"
                                       [] OTHER              -> "unknown"]
  /\ age' = [age EXCEPT ![p] = 0]
  /\ UNCHANGED <<pm2, files, lock, resolved, calls>>

\* Its deadline passes first; the helper goes on without a reader.
WaitEnds(p) ==
  /\ Waiting(p) /\ age[p] >= ServerWait
  /\ report' = [report EXCEPT ![p] = "unknown"]
  /\ age' = [age EXCEPT ![p] = 0]
  /\ UNCHANGED <<pm2, files, lock, pc, resolved, calls>>

-----------------------------------------------------------------------------
(* The helper.                                                             *)

\* act: TryLock.
Begin(p) ==
  /\ pc[p] = "asked"
  /\ holder = NoPress
  /\ holder' = p /\ actAge' = 0
  /\ Goto(p, "listing")
  /\ UNCHANGED <<pm2, files, resolved, age, report, calls>>

Busy(p) ==
  /\ pc[p] = "asked"
  /\ holder # NoPress
  /\ Goto(p, "refused")
  /\ UNCHANGED <<pm2, files, lock, resolved, age, report, calls>>

\* Mutant of Check: any process with the id will do.
MCheck(p) ==
  /\ pc[p] = "listing"
  /\ \/ /\ table[target[p]] # NoName
        /\ Goto(p, "checked")
        /\ UNCHANGED lock
     \/ /\ table[target[p]] = NoName
        /\ Goto(p, "refused")
        /\ Unlock
  /\ UNCHANGED <<pm2, files, resolved, age, report, calls>>

\* list answers: the id and the name must still belong together.
Check(p) ==
  /\ pc[p] = "listing"
  /\ \/ /\ table[target[p]] = unit[p]
        /\ Goto(p, "checked")
        /\ UNCHANGED lock
     \/ /\ table[target[p]] # unit[p]
        /\ Goto(p, "refused")
        /\ Unlock
  /\ UNCHANGED <<pm2, files, resolved, age, report, calls>>

\* pm2 cannot be listed: nothing was asked of it.
ListFails(p) ==
  /\ pc[p] = "listing"
  /\ Goto(p, "refused")
  /\ Unlock
  /\ UNCHANGED <<pm2, files, resolved, age, report, calls>>

\* The call is sent, or pm2 cannot be reached for it.
Call(p) ==
  /\ pc[p] = "checked"
  /\ \/ /\ Goto(p, "calling")
        /\ call' = [call EXCEPT ![p] = "pending"]
        /\ UNCHANGED lock
     \/ /\ Goto(p, "failed")
        /\ Unlock
        /\ UNCHANGED call
  /\ UNCHANGED <<pm2, files, resolved, age, report, hit, moved>>

\* Mutant of Answer: a call that was sent counts as done.
MAnswer(p) ==
  /\ pc[p] = "calling"
  /\ \/ call[p] # "failed" /\ Goto(p, "accepted")
     \/ Goto(p, "failed")
  /\ Unlock
  /\ UNCHANGED <<pm2, files, resolved, age, report, calls>>

\* pm2 answered, with success or with an error of its own, or hung up.
Answer(p) ==
  /\ pc[p] = "calling"
  /\ \/ call[p] = "done" /\ Goto(p, "accepted")
     \/ Goto(p, "failed")
  /\ Unlock
  /\ UNCHANGED <<pm2, files, resolved, age, report, calls>>

\* Mutant of Overdue: the helper waits for as long as dashd does.
MOverdue == actAge >= ServerWait

\* The action's context ends: whatever it was waiting for, the lock is free.
Overdue == actAge >= ActionWait

ActionTimeout(p) ==
  /\ pc[p] \in Acting
  /\ Overdue
  /\ Goto(p, "failed")
  /\ Unlock
  /\ UNCHANGED <<pm2, files, resolved, age, report, calls>>

\* The helper dies and systemd starts it again: its connections close.
HelperCrash ==
  /\ pc' = [p \in Presses |-> IF pc[p] \in Acting \cup {"asked"} THEN "lost" ELSE pc[p]]
  /\ Unlock
  /\ taken' = snap
  /\ UNCHANGED <<pm2, snap, resolved, age, report, calls>>

\* Run: Take reads pm2, WriteSnapshot replaces the file.
Take ==
  /\ taken' = table
  /\ UNCHANGED <<pm2, snap, lock, pc, resolved, age, report, calls>>

WriteSnapshot ==
  /\ snap' = taken
  /\ UNCHANGED <<pm2, taken, lock, pc, resolved, age, report, calls>>

-----------------------------------------------------------------------------
(* pm2.                                                                    *)

\* The call acts on whatever process has the id by now.
Execute(p) ==
  /\ call[p] = "pending"
  /\ \/ /\ table[target[p]] # NoName
        /\ call' = [call EXCEPT ![p] = "done"]
        /\ hit' = [hit EXCEPT ![p] = table[target[p]]]
     \/ /\ call' = [call EXCEPT ![p] = "failed"]
        /\ UNCHANGED hit
  /\ UNCHANGED <<pm2, files, lock, pc, resolved, age, report, moved>>

\* Someone deletes, adds or renames processes with the pm2 command.
ChangeTable(i, n) ==
  /\ changes < MaxTableChanges
  /\ table[i] # n
  /\ table' = [table EXCEPT ![i] = n]
  /\ changes' = changes + 1
  /\ moved' = [p \in Presses |-> moved[p] \/ pc[p] = "checked" \/ call[p] = "pending"]
  /\ UNCHANGED <<files, lock, pc, resolved, age, report, call, hit>>

-----------------------------------------------------------------------------
\* Time passes, unless a timer is due or a request has waited long enough to
\* be taken.
Tick ==
  /\ holder # NoPress => ~Overdue
  /\ \A p \in Presses :
       /\ Waiting(p) => age[p] < ServerWait
       /\ pc[p] = "asked" => age[p] < Slack
  /\ age' = [p \in Presses |-> IF Waiting(p) THEN age[p] + 1 ELSE age[p]]
  /\ actAge' = IF holder # NoPress THEN actAge + 1 ELSE 0
  /\ UNCHANGED <<pm2, files, holder, pc, resolved, report, calls>>

ButtonsInit ==
  /\ table \in [Ids -> Names \cup {NoName}]
  /\ taken = table /\ snap = table
  /\ holder = NoPress /\ actAge = 0
  /\ pc = [p \in Presses |-> "idle"]
  /\ unit = [p \in Presses |-> NoName] /\ target = [p \in Presses |-> NoId]
  /\ age = [p \in Presses |-> 0]
  /\ report = [p \in Presses |-> "none"]
  /\ call = [p \in Presses |-> "none"]
  /\ hit = [p \in Presses |-> NoName]
  /\ moved = [p \in Presses |-> FALSE]
  /\ changes = 0

ButtonsNext ==
  \/ \E p \in Presses, n \in Names : Press(p, n)
  \/ \E p \in Presses :
       \/ Report(p) \/ WaitEnds(p)
       \/ Begin(p) \/ Busy(p) \/ Check(p) \/ ListFails(p) \/ Call(p) \/ Answer(p)
       \/ ActionTimeout(p) \/ Execute(p)
  \/ HelperCrash \/ Take \/ WriteSnapshot
  \/ \E i \in Ids, n \in Names \cup {NoName} : ChangeTable(i, n)
  \/ Tick

ButtonsSpec == ButtonsInit /\ [][ButtonsNext]_buttonVars

\* Timers fire, answers are read, and the helper takes what it is sent: each
\* press has a goroutine in dashd and one in the helper, and both run.  Nothing
\* is assumed of pm2, nor of how long the helper keeps running.
ButtonsFairness ==
  /\ WF_buttonVars(Tick)
  /\ \A p \in Presses : /\ WF_buttonVars(Report(p) \/ WaitEnds(p))
                        /\ WF_buttonVars(Begin(p) \/ Busy(p) \/ ActionTimeout(p))

-----------------------------------------------------------------------------
(* Properties.                                                             *)

Table == [Ids -> Names \cup {NoName}]

\* Every variable has its type.
ButtonsTypeOK ==
  /\ table \in Table /\ taken \in Table /\ snap \in Table
  /\ holder \in Presses \cup {NoPress} /\ actAge \in 0 .. ActionWait
  /\ pc \in [Presses -> {"idle", "asked", "over"} \cup Acting \cup Answers]
  /\ unit \in [Presses -> Names \cup {NoName}] /\ target \in [Presses -> Ids \cup {NoId}]
  /\ age \in [Presses -> 0 .. ServerWait]
  /\ report \in [Presses -> {"none", "ok", "refused", "unknown"}]
  /\ call \in [Presses -> {"none", "pending", "done", "failed"}]
  /\ hit \in [Presses -> Names \cup {NoName}] /\ moved \in [Presses -> BOOLEAN]
  /\ changes \in 0 .. MaxTableChanges

\* What the page is told is true, then and later: a success was done by pm2, and
\* what was refused (unknown, gone, busy) never reached pm2.
ReportsAreTrue ==
  \A p \in Presses : /\ report[p] = "ok" => call[p] = "done"
                     /\ report[p] = "refused" => call[p] = "none"

\* control.go:131: an action is not started after the page reported a failure,
\* because the helper refuses what it cannot start now and gives up before
\* dashd does.
NoLateStart ==
  [][\A p \in Presses : call[p] = "none" /\ call'[p] = "pending" => report[p] = "none"]_buttonVars

\* control.go:31: however old the page and the snapshot are, the process that
\* is acted on is the one the press names, unless pm2's table changes between
\* the helper's check and pm2's answer to it.
RightProcess ==
  \A p \in Presses : hit[p] # NoName /\ ~moved[p] => hit[p] = unit[p]

\* The helper runs one action at a time, also across time-outs and crashes.
OneAtATime == \A p \in Presses : pc[p] \in Acting => holder = p

\* Every press is answered: there is always a later moment at which none waits.
Answered == []<>(\A p \in Presses : pc[p] # "idle" => report[p] # "none")
=============================================================================
