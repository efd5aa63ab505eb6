------------------------------ MODULE AuditLog ------------------------------
(***************************************************************************)
(* What the audit log promises, apart from how it is kept: README.md:68,   *)
(* "Every action, including failed ones, is appended to the audit log",    *)
(* and audit.go:1, "records every control action taken".  An entry is      *)
(* written once, at the end, after its action was carried out, and what is *)
(* written stays.  That every action gets its entry is not a part of this: *)
(* a stop or a failed write can come first (EveryActionRecorded, Activity).*)
(***************************************************************************)
EXTENDS Sequences

CONSTANT Actions     \* one element for each action request

VARIABLES
  ran,               \* the actions that were carried out, with whatever result
  log                \* the log: the actions it records, oldest first

Recorded == {log[i] : i \in DOMAIN log}

Init == ran = {} /\ log = <<>>

\* A provider carries an action out, or tries to and fails.
Run(a) == ran' = ran \cup {a} /\ UNCHANGED log

\* Its entry is appended.
Record(a) ==
  /\ a \in ran \ Recorded
  /\ log' = Append(log, a)
  /\ UNCHANGED ran

Next == \E a \in Actions : Run(a) \/ Record(a)

Spec == Init /\ [][Next]_<<ran, log>>
=============================================================================
