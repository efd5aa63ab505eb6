-------------------------- MODULE Pm2ControlProofs --------------------------
(***************************************************************************)
(* Theorems about Pm2Control, for any number of presses, ids and names, any *)
(* two timeouts of which dashd's is the longer, and any number of changes.  *)
(*                                                                         *)
(* One inductive invariant, ControlInv, in four parts about each press:    *)
(* how far its call is (Course), where it aims (Aim), how long it has      *)
(* taken (Timing), and that it was resolved before it acts (Resolved).     *)
(***************************************************************************)
EXTENDS Pm2Control, TLAPS

Resolved(p) == pc[p] \in {"asked"} \cup Acting \/ call[p] # "none" => target[p] \in Ids

\* Nothing is sent before "calling"; a result is reported only of what is over.
Course(p) ==
  /\ pc[p] \in {"idle", "asked", "listing", "checked", "refused"} => call[p] = "none"
  /\ pc[p] = "accepted" => call[p] = "done"
  /\ hit[p] # NoName => call[p] = "done"
  /\ report[p] = "ok" => call[p] = "done"
  /\ report[p] = "refused" => call[p] = "none" /\ pc[p] = "over"

\* What was checked holds until the table changes.
Aim(p) ==
  ~moved[p] => /\ pc[p] = "checked" \/ call[p] = "pending" => table[target[p]] = unit[p]
               /\ hit[p] # NoName => hit[p] = unit[p]

\* dashd's clock is ahead of the helper's by Slack at most, so the helper's
\* timeout is first, and the press that acts is the one that holds the lock.
Timing(p) ==
  /\ pc[p] = "idle" => report[p] = "none" /\ age[p] = 0
  /\ pc[p] = "asked" => report[p] = "none" /\ age[p] <= Slack
  /\ pc[p] \in Acting => report[p] = "none" /\ holder = p /\ age[p] <= Slack + actAge

ControlInv ==
  /\ ButtonsTypeOK
  /\ \A p \in Presses : Resolved(p) /\ Course(p) /\ Aim(p) /\ Timing(p)

\* The two timeouts in numbers.
LEMMA SlackType == Slack \in Nat /\ Slack + ActionWait < ServerWait
  BY Pm2Assumption DEF Slack

-----------------------------------------------------------------------------
(* Types.                                                                  *)

\* The invariant holds at first.
LEMMA ControlInit == ButtonsInit => ControlInv
<1> SUFFICES ASSUME ButtonsInit PROVE ControlInv
  OBVIOUS
<1>1. ButtonsTypeOK
  BY Pm2Assumption DEF ButtonsInit, ButtonsTypeOK, Table
<1>2. ASSUME NEW p \in Presses PROVE Resolved(p) /\ Course(p) /\ Aim(p) /\ Timing(p)
  BY <1>2 DEF ButtonsInit, Resolved, Course, Aim, Timing, Acting
<1>. QED  BY <1>1, <1>2 DEF ControlInv

\* Every step keeps the types; Resolved is needed for the process pm2 acts on.
LEMMA TypeNext == ControlInv /\ [ButtonsNext]_buttonVars => ButtonsTypeOK'
<1> SUFFICES ASSUME ControlInv, [ButtonsNext]_buttonVars PROVE ButtonsTypeOK'
  OBVIOUS
<1> USE Pm2Assumption DEF ButtonsTypeOK, Table, ControlInv, Acting, Answers, pm2, files, lock, resolved, calls
<1>1. ASSUME NEW p \in Presses, NEW n \in Names, Press(p, n) PROVE ButtonsTypeOK'
  BY <1>1 DEF Press, Goto
<1>2. ASSUME NEW p \in Presses, Report(p) PROVE ButtonsTypeOK'
  BY <1>2 DEF Report, Goto, Waiting
<1>3. ASSUME NEW p \in Presses, WaitEnds(p) PROVE ButtonsTypeOK'
  BY <1>3 DEF WaitEnds, Waiting
<1>4. ASSUME NEW p \in Presses, Begin(p) PROVE ButtonsTypeOK'
  BY <1>4 DEF Begin, Goto
<1>5. ASSUME NEW p \in Presses, Busy(p) PROVE ButtonsTypeOK'
  BY <1>5 DEF Busy, Goto
<1>6. ASSUME NEW p \in Presses, Check(p) PROVE ButtonsTypeOK'
  BY <1>6 DEF Check, Goto, Unlock
<1>7. ASSUME NEW p \in Presses, ListFails(p) PROVE ButtonsTypeOK'
  BY <1>7 DEF ListFails, Goto, Unlock
<1>8. ASSUME NEW p \in Presses, Call(p) PROVE ButtonsTypeOK'
  BY <1>8 DEF Call, Goto, Unlock
<1>9. ASSUME NEW p \in Presses, Answer(p) PROVE ButtonsTypeOK'
  BY <1>9 DEF Answer, Goto, Unlock
<1>10. ASSUME NEW p \in Presses, ActionTimeout(p) PROVE ButtonsTypeOK'
  BY <1>10 DEF ActionTimeout, Goto, Unlock
<1>11. ASSUME NEW p \in Presses, Execute(p) PROVE ButtonsTypeOK'
  BY <1>11 DEF Execute, Resolved
<1>12. CASE HelperCrash
  BY <1>12 DEF HelperCrash, Unlock
<1>13. CASE Take
  BY <1>13 DEF Take
<1>14. CASE WriteSnapshot
  BY <1>14 DEF WriteSnapshot
<1>15. ASSUME NEW i \in Ids, NEW n \in Names \cup {NoName}, ChangeTable(i, n) PROVE ButtonsTypeOK'
  BY <1>15 DEF ChangeTable
<1>16. CASE Tick
  BY <1>16 DEF Tick, Waiting, Overdue
<1>17. CASE UNCHANGED buttonVars
  BY <1>17 DEF buttonVars
<1>. QED  BY <1>1, <1>2, <1>3, <1>4, <1>5, <1>6, <1>7, <1>8, <1>9,
             <1>10, <1>11, <1>12, <1>13, <1>14, <1>15, <1>16, <1>17 DEF ButtonsNext

-----------------------------------------------------------------------------
(* Each part of the invariant is kept by every step.                       *)

\* A press is resolved before anything is asked, and its target is never changed.
LEMMA ResolvedNext ==
  ASSUME ControlInv, [ButtonsNext]_buttonVars, NEW q \in Presses
  PROVE  Resolved(q)'
<1> USE Pm2Assumption DEF ControlInv, ButtonsTypeOK, Acting, Answers, pm2, files, lock, resolved, calls
<1>1. ASSUME NEW p \in Presses, NEW n \in Names, Press(p, n) PROVE Resolved(q)'
  BY <1>1 DEF Press, Goto, Resolved
<1>2. ASSUME NEW p \in Presses, Report(p) PROVE Resolved(q)'
  BY <1>2 DEF Report, Goto, Resolved, Waiting
<1>3. ASSUME NEW p \in Presses, WaitEnds(p) PROVE Resolved(q)'
  BY <1>3 DEF WaitEnds, Resolved, Waiting
<1>4. ASSUME NEW p \in Presses, Begin(p) PROVE Resolved(q)'
  BY <1>4 DEF Begin, Goto, Resolved
<1>5. ASSUME NEW p \in Presses, Busy(p) PROVE Resolved(q)'
  BY <1>5 DEF Busy, Goto, Resolved
<1>6. ASSUME NEW p \in Presses, Check(p) PROVE Resolved(q)'
  BY <1>6 DEF Check, Goto, Unlock, Resolved
<1>7. ASSUME NEW p \in Presses, ListFails(p) PROVE Resolved(q)'
  BY <1>7 DEF ListFails, Goto, Unlock, Resolved
<1>8. ASSUME NEW p \in Presses, Call(p) PROVE Resolved(q)'
  BY <1>8 DEF Call, Goto, Unlock, Resolved
<1>9. ASSUME NEW p \in Presses, Answer(p) PROVE Resolved(q)'
  BY <1>9 DEF Answer, Goto, Unlock, Resolved
<1>10. ASSUME NEW p \in Presses, ActionTimeout(p) PROVE Resolved(q)'
  BY <1>10 DEF ActionTimeout, Goto, Unlock, Resolved
<1>11. ASSUME NEW p \in Presses, Execute(p) PROVE Resolved(q)'
  BY <1>11 DEF Execute, Resolved
<1>12. CASE HelperCrash
  BY <1>12 DEF HelperCrash, Unlock, Resolved
<1>13. CASE Take
  BY <1>13 DEF Take, Resolved
<1>14. CASE WriteSnapshot
  BY <1>14 DEF WriteSnapshot, Resolved
<1>15. ASSUME NEW i \in Ids, NEW n \in Names \cup {NoName}, ChangeTable(i, n) PROVE Resolved(q)'
  BY <1>15 DEF ChangeTable, Resolved
<1>16. CASE Tick
  BY <1>16 DEF Tick, Resolved, Waiting
<1>17. CASE UNCHANGED buttonVars
  BY <1>17 DEF buttonVars, Resolved
<1>. QED  BY <1>1, <1>2, <1>3, <1>4, <1>5, <1>6, <1>7, <1>8, <1>9,
             <1>10, <1>11, <1>12, <1>13, <1>14, <1>15, <1>16, <1>17 DEF ButtonsNext

\* The call and the report follow the steps of the helper.
LEMMA CourseNext ==
  ASSUME ControlInv, [ButtonsNext]_buttonVars, NEW q \in Presses
  PROVE  Course(q)'
<1> USE Pm2Assumption DEF ControlInv, ButtonsTypeOK, Acting, Answers, pm2, files, lock, resolved, calls
<1>1. ASSUME NEW p \in Presses, NEW n \in Names, Press(p, n) PROVE Course(q)'
  BY <1>1 DEF Press, Goto, Course
<1>2. ASSUME NEW p \in Presses, Report(p) PROVE Course(q)'
  BY <1>2 DEF Report, Goto, Course, Waiting
<1>3. ASSUME NEW p \in Presses, WaitEnds(p) PROVE Course(q)'
  BY <1>3 DEF WaitEnds, Course, Waiting
<1>4. ASSUME NEW p \in Presses, Begin(p) PROVE Course(q)'
  BY <1>4 DEF Begin, Goto, Course
<1>5. ASSUME NEW p \in Presses, Busy(p) PROVE Course(q)'
  BY <1>5 DEF Busy, Goto, Course
<1>6. ASSUME NEW p \in Presses, Check(p) PROVE Course(q)'
  BY <1>6 DEF Check, Goto, Unlock, Course
<1>7. ASSUME NEW p \in Presses, ListFails(p) PROVE Course(q)'
  BY <1>7 DEF ListFails, Goto, Unlock, Course
<1>8. ASSUME NEW p \in Presses, Call(p) PROVE Course(q)'
  BY <1>8 DEF Call, Goto, Unlock, Course
<1>9. ASSUME NEW p \in Presses, Answer(p) PROVE Course(q)'
  BY <1>9 DEF Answer, Goto, Unlock, Course
<1>10. ASSUME NEW p \in Presses, ActionTimeout(p) PROVE Course(q)'
  BY <1>10 DEF ActionTimeout, Goto, Unlock, Course
<1>11. ASSUME NEW p \in Presses, Execute(p) PROVE Course(q)'
  BY <1>11 DEF Execute, Course
<1>12. CASE HelperCrash
  BY <1>12 DEF HelperCrash, Unlock, Course
<1>13. CASE Take
  BY <1>13 DEF Take, Course
<1>14. CASE WriteSnapshot
  BY <1>14 DEF WriteSnapshot, Course
<1>15. ASSUME NEW i \in Ids, NEW n \in Names \cup {NoName}, ChangeTable(i, n) PROVE Course(q)'
  BY <1>15 DEF ChangeTable, Course
<1>16. CASE Tick
  BY <1>16 DEF Tick, Course, Waiting
<1>17. CASE UNCHANGED buttonVars
  BY <1>17 DEF buttonVars, Course
<1>. QED  BY <1>1, <1>2, <1>3, <1>4, <1>5, <1>6, <1>7, <1>8, <1>9,
             <1>10, <1>11, <1>12, <1>13, <1>14, <1>15, <1>16, <1>17 DEF ButtonsNext

\* Only a change of the table can spoil what was checked, and it sets moved.
LEMMA AimNext ==
  ASSUME ControlInv, [ButtonsNext]_buttonVars, NEW q \in Presses
  PROVE  Aim(q)'
<1> USE Pm2Assumption DEF ControlInv, ButtonsTypeOK, Acting, Answers, pm2, files, lock, resolved, calls
<1>1. ASSUME NEW p \in Presses, NEW n \in Names, Press(p, n) PROVE Aim(q)'
  BY <1>1 DEF Press, Goto, Aim, Course, Table
<1>2. ASSUME NEW p \in Presses, Report(p) PROVE Aim(q)'
  BY <1>2 DEF Report, Goto, Aim, Course, Table, Waiting
<1>3. ASSUME NEW p \in Presses, WaitEnds(p) PROVE Aim(q)'
  BY <1>3 DEF WaitEnds, Aim, Course, Table, Waiting
<1>4. ASSUME NEW p \in Presses, Begin(p) PROVE Aim(q)'
  BY <1>4 DEF Begin, Goto, Aim, Course, Table
<1>5. ASSUME NEW p \in Presses, Busy(p) PROVE Aim(q)'
  BY <1>5 DEF Busy, Goto, Aim, Course, Table
<1>6. ASSUME NEW p \in Presses, Check(p) PROVE Aim(q)'
  BY <1>6 DEF Check, Goto, Unlock, Aim, Course, Table
<1>7. ASSUME NEW p \in Presses, ListFails(p) PROVE Aim(q)'
  BY <1>7 DEF ListFails, Goto, Unlock, Aim, Course, Table
<1>8. ASSUME NEW p \in Presses, Call(p) PROVE Aim(q)'
  BY <1>8 DEF Call, Goto, Unlock, Aim, Course, Table
<1>9. ASSUME NEW p \in Presses, Answer(p) PROVE Aim(q)'
  BY <1>9 DEF Answer, Goto, Unlock, Aim, Course, Table
<1>10. ASSUME NEW p \in Presses, ActionTimeout(p) PROVE Aim(q)'
  BY <1>10 DEF ActionTimeout, Goto, Unlock, Aim, Course, Table
<1>11. ASSUME NEW p \in Presses, Execute(p) PROVE Aim(q)'
  BY <1>11 DEF Execute, Aim, Course, Table, Resolved
<1>12. CASE HelperCrash
  BY <1>12 DEF HelperCrash, Unlock, Aim, Course, Table
<1>13. CASE Take
  BY <1>13 DEF Take, Aim, Course, Table
<1>14. CASE WriteSnapshot
  BY <1>14 DEF WriteSnapshot, Aim, Course, Table
<1>15. ASSUME NEW i \in Ids, NEW n \in Names \cup {NoName}, ChangeTable(i, n) PROVE Aim(q)'
  BY <1>15 DEF ChangeTable, Aim, Course, Table
<1>16. CASE Tick
  BY <1>16 DEF Tick, Aim, Course, Table, Waiting
<1>17. CASE UNCHANGED buttonVars
  BY <1>17 DEF buttonVars, Aim, Course, Table
<1>. QED  BY <1>1, <1>2, <1>3, <1>4, <1>5, <1>6, <1>7, <1>8, <1>9,
             <1>10, <1>11, <1>12, <1>13, <1>14, <1>15, <1>16, <1>17 DEF ButtonsNext

\* Ticks age both clocks, and stop at the timer that is due.
LEMMA TimingNext ==
  ASSUME ControlInv, [ButtonsNext]_buttonVars, NEW q \in Presses
  PROVE  Timing(q)'
<1> USE Pm2Assumption DEF ControlInv, ButtonsTypeOK, Acting, Answers, pm2, files, lock, resolved, calls
<1>1. ASSUME NEW p \in Presses, NEW n \in Names, Press(p, n) PROVE Timing(q)'
  BY <1>1, SlackType DEF Press, Goto, Timing
<1>2. ASSUME NEW p \in Presses, Report(p) PROVE Timing(q)'
  BY <1>2, SlackType DEF Report, Goto, Timing, Waiting
<1>3. ASSUME NEW p \in Presses, WaitEnds(p) PROVE Timing(q)'
  BY <1>3, SlackType DEF WaitEnds, Timing, Waiting
<1>4. ASSUME NEW p \in Presses, Begin(p) PROVE Timing(q)'
  BY <1>4, SlackType DEF Begin, Goto, Timing
<1>5. ASSUME NEW p \in Presses, Busy(p) PROVE Timing(q)'
  BY <1>5, SlackType DEF Busy, Goto, Timing
<1>6. ASSUME NEW p \in Presses, Check(p) PROVE Timing(q)'
  BY <1>6, SlackType DEF Check, Goto, Unlock, Timing
<1>7. ASSUME NEW p \in Presses, ListFails(p) PROVE Timing(q)'
  BY <1>7, SlackType DEF ListFails, Goto, Unlock, Timing
<1>8. ASSUME NEW p \in Presses, Call(p) PROVE Timing(q)'
  BY <1>8, SlackType DEF Call, Goto, Unlock, Timing
<1>9. ASSUME NEW p \in Presses, Answer(p) PROVE Timing(q)'
  BY <1>9, SlackType DEF Answer, Goto, Unlock, Timing
<1>10. ASSUME NEW p \in Presses, ActionTimeout(p) PROVE Timing(q)'
  BY <1>10, SlackType DEF ActionTimeout, Goto, Unlock, Timing
<1>11. ASSUME NEW p \in Presses, Execute(p) PROVE Timing(q)'
  BY <1>11, SlackType DEF Execute, Timing
<1>12. CASE HelperCrash
  BY <1>12, SlackType DEF HelperCrash, Unlock, Timing
<1>13. CASE Take
  BY <1>13, SlackType DEF Take, Timing
<1>14. CASE WriteSnapshot
  BY <1>14, SlackType DEF WriteSnapshot, Timing
<1>15. ASSUME NEW i \in Ids, NEW n \in Names \cup {NoName}, ChangeTable(i, n) PROVE Timing(q)'
  BY <1>15, SlackType DEF ChangeTable, Timing
<1>16. CASE Tick
  BY <1>16, SlackType DEF Tick, Timing, Waiting, Overdue
<1>17. CASE UNCHANGED buttonVars
  BY <1>17, SlackType DEF buttonVars, Timing
<1>. QED  BY <1>1, <1>2, <1>3, <1>4, <1>5, <1>6, <1>7, <1>8, <1>9,
             <1>10, <1>11, <1>12, <1>13, <1>14, <1>15, <1>16, <1>17 DEF ButtonsNext

\* Together.
LEMMA ControlNext == ControlInv /\ [ButtonsNext]_buttonVars => ControlInv'
<1> SUFFICES ASSUME ControlInv, [ButtonsNext]_buttonVars PROVE ControlInv'
  OBVIOUS
<1>1. ButtonsTypeOK'
  BY TypeNext
<1>2. ASSUME NEW q \in Presses PROVE Resolved(q)' /\ Course(q)' /\ Aim(q)' /\ Timing(q)'
  BY ResolvedNext, CourseNext, AimNext, TimingNext
<1>. QED  BY <1>1, <1>2 DEF ControlInv

\* So the invariant always holds.
LEMMA ControlInvariant == ButtonsSpec => []ControlInv
<1>. QED  BY ControlInit, ControlNext, PTL DEF ButtonsSpec

-----------------------------------------------------------------------------
(* The theorems.                                                           *)

\* Every variable keeps its type.
THEOREM TypeCorrect == ButtonsSpec => []ButtonsTypeOK
<1>1. ControlInv => ButtonsTypeOK
  BY DEF ControlInv
<1>. QED  BY <1>1, ControlInvariant, PTL

\* What the page is told about a press is true, and stays true.
THEOREM ReportsStayTrue == ButtonsSpec => []ReportsAreTrue
<1>1. ControlInv => ReportsAreTrue
  BY DEF ControlInv, Course, ReportsAreTrue
<1>. QED  BY <1>1, ControlInvariant, PTL

\* The process that was acted on is the one the press names, unless the table
\* changed between the helper's check and pm2's answer to it.
THEOREM TheRightProcessIsHit == ButtonsSpec => []RightProcess
<1>1. ControlInv => RightProcess
  BY DEF ControlInv, Aim, RightProcess
<1>. QED  BY <1>1, ControlInvariant, PTL

\* At most one request acts, the one that holds actMu.
THEOREM ActionsAreExclusive == ButtonsSpec => []OneAtATime
<1>1. ControlInv => OneAtATime
  BY DEF ControlInv, Timing, OneAtATime
<1>. QED  BY <1>1, ControlInvariant, PTL

\* No action is started after the page was told something.
THEOREM NothingStartsLate == ButtonsSpec => NoLateStart
<1>1. ASSUME ControlInv, [ButtonsNext]_buttonVars, NEW p \in Presses, call[p] = "none", call'[p] = "pending"
      PROVE  report[p] = "none"
  <2>1. pc[p] = "checked"
    BY <1>1 DEF ControlInv, ButtonsTypeOK, ButtonsNext, Press, Report, WaitEnds, Begin, Busy, Check, ListFails, Call,
                Answer, ActionTimeout, Execute, HelperCrash, Take, WriteSnapshot, ChangeTable, Tick, buttonVars, calls
  <2>. QED  BY <1>1, <2>1 DEF ControlInv, Timing, Acting
<1>2. ControlInv /\ [ButtonsNext]_buttonVars =>
        \A p \in Presses : call[p] = "none" /\ call'[p] = "pending" => report[p] = "none"
  BY <1>1
<1>. QED  BY <1>2, ControlInvariant, PTL DEF ButtonsSpec, NoLateStart
=============================================================================
