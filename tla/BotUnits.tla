------------------------------ MODULE BotUnits ------------------------------
(***************************************************************************)
(* The names the page knows bots by: bind gives every process of a pm2     *)
(* snapshot a unit id of its own, List shows them, and Do and Logs find    *)
(* the process behind an id by binding the snapshot of that moment again   *)
(* (agent/internal/providers/pm2/pm2.go).                                  *)
(*                                                                         *)
(* Abstractions.  A name is a sequence: <<b>>, or what makes it look like  *)
(* an id that bind makes up, <<b, "-", 3>> for "b-3".  next in the code    *)
(* only saves looking at ids that are used already; names that are empty   *)
(* are the excluded ones.  What a unit shows beside its id is left out.    *)
(***************************************************************************)
EXTENDS Integers, Sequences, SequencesExt, FiniteSetsExt

CONSTANTS
  ProcNames,   \* the names processes have
  Pids,        \* pm2's ids
  Exclude,     \* names dashd was told to leave out
  MaxProcs     \* bound on the processes of a snapshot

BotUnitsAssumption ==
  /\ Pids \subseteq Nat /\ Exclude \subseteq ProcNames /\ MaxProcs \in Nat
  /\ \A n \in ProcNames : Len(n) \in Nat /\ n = [i \in 1 .. Len(n) |-> n[i]]

VARIABLES
  procs,       \* the processes in the snapshot file, in pm2's order
  shown,       \* the units on the page, with the process each was made from
  sent         \* the request to the helper just made, and the unit it was made for

vars == <<procs, shown, sent>>

Procs  == [name : ProcNames, id : Pids]
\* What pm2 can list: an id belongs to one process.
IsTable(t) ==
  /\ Len(t) <= MaxProcs
  /\ \A i, j \in DOMAIN t : i # j => t[i].id # t[j].id

NoRequest == <<>>

-----------------------------------------------------------------------------
\* How often a name occurs: the processes of a cluster share theirs.
Count(t, name) == Cardinality({i \in DOMAIN t : t[i].name = name})

BaseId(t, p) == IF Count(t, p.name) > 1 THEN p.name \o <<"-", p.id>> ELSE p.name

\* The id itself, or the first of id~2, id~3, ... that is not used.
FreeId(base, used) ==
  IF base \notin used THEN base
  ELSE base \o <<"~", Min({k \in 2 .. Cardinality(used) + 2 : base \o <<"~", k>> \notin used})>>

\* Mutant of Bind: the instances of a cluster are numbered as they come.
MBind(t) ==
  LET b[i \in 0 .. Len(t)] ==
        IF i = 0 THEN <<>>
        ELSE IF t[i].name \in Exclude THEN b[i - 1]
        ELSE Append(b[i - 1], [id   |-> FreeId(t[i].name, {u.id : u \in ToSet(b[i - 1])}),
                               proc |-> t[i]])
  IN  b[Len(t)]

Bind(t) ==
  LET b[i \in 0 .. Len(t)] ==
        IF i = 0 THEN <<>>
        ELSE IF t[i].name \in Exclude THEN b[i - 1]
        ELSE Append(b[i - 1], [id   |-> FreeId(BaseId(t, t[i]), {u.id : u \in ToSet(b[i - 1])}),
                               proc |-> t[i]])
  IN  b[Len(t)]

\* pm2's table changes by a process, and the helper writes a snapshot.
NewSnapshot ==
  /\ \/ \E i \in DOMAIN procs : procs' = RemoveAt(procs, i)
     \/ \E i \in 1 .. Len(procs) + 1, p \in Procs :
          procs' = InsertAt(procs, i, p) /\ IsTable(procs')
  /\ sent' = NoRequest
  /\ UNCHANGED shown

List ==
  /\ shown' = Bind(procs)
  /\ sent' = NoRequest
  /\ UNCHANGED procs

\* A button or a log pane of the page: its id is looked up anew, or refused.
Do(unit) ==
  /\ \E u \in ToSet(Bind(procs)) : u.id = unit.id /\ sent' = <<[unit |-> unit, proc |-> u.proc]>>
  /\ UNCHANGED <<procs, shown>>

Init == procs = <<>> /\ shown = <<>> /\ sent = NoRequest

Next == NewSnapshot \/ List \/ \E unit \in ToSet(shown) : Do(unit)

Spec == Init /\ [][Next]_vars

-----------------------------------------------------------------------------
(* Properties.                                                             *)

\* Nothing is named like an id that bind makes up.
Plain(names) == \A n \in names : Len(n) = 1

\* No two bots of a snapshot have the same id, whatever their names.  And, only
\* where neither the page nor the snapshot has a bot that is named like an id made
\* up by bind, what is pressed on a page that is out of date never reaches a bot
\* of another name or, in a cluster, another instance.  (Beside a cluster "bot",
\* the id "bot-3" goes from its instance to a bot of that name and back.)
IdsHoldStill ==
  /\ \A i, j \in DOMAIN Bind(procs) : i # j => Bind(procs)[i].id # Bind(procs)[j].id
  /\ \A s \in ToSet(sent) :
       Plain({p.name : p \in ToSet(procs)} \cup {u.proc.name : u \in ToSet(shown)}) =>
         /\ s.proc.name = s.unit.proc.name
         /\ Plain({s.unit.id}) \/ s.proc.id = s.unit.proc.id
=============================================================================
