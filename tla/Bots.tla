-------------------------------- MODULE Bots --------------------------------
(***************************************************************************)
(* What dashd knows of the bots from files: the helper's snapshots         *)
(* (Snapshots), the names by which the page knows the bots of a snapshot   *)
(* (BotUnits) and their logs (LogFollow), each explored by itself.  The    *)
(* part "ages" has a longer interval than the part "names", and a bot that *)
(* logs nothing.                                                           *)
(***************************************************************************)
EXTENDS Snapshots

CONSTANTS ProcNames, Pids, Exclude, MaxProcs,
          Inodes, N, Window, MaxLogLine, LogTail, MaxLogRead, MaxBytes, MaxSwaps, MaxFails

VARIABLES
  part,
  procs, shown, sent,
  path, content, born, count, reader, f, st, feed, start, told

units == <<procs, shown, sent>>
logs  == <<path, content, born, count, reader, f, st, feed, start, told>>

Units  == INSTANCE BotUnits
Follow == INSTANCE LogFollow WITH pc <- reader

ASSUME BotsAssumption ==
  SnapshotsAssumption /\ Units!BotUnitsAssumption /\ Follow!FollowAssumption

PartsInit ==
  /\ part \in {"names", "ages", "units", "logs"}
  /\ Init /\ Units!Init /\ Follow!Init
  /\ every = IF part = "ages" THEN Hour ELSE 1
  /\ part # "logs" => path = 0

PartsNext ==
  /\ UNCHANGED part
  /\ \/ part = "names" /\ Next /\ UNCHANGED <<units, logs>>
     \/ part = "ages" /\ Next /\ UNCHANGED <<units, logs, log>>
     \/ part = "units" /\ Units!Next /\ UNCHANGED <<vars, logs>>
     \/ part = "logs" /\ Follow!Next /\ UNCHANGED <<vars, units>>

PartsSpec ==
  /\ PartsInit /\ [][PartsNext]_<<part, vars, units, logs>>
  /\ part = "logs" => Follow!Fairness

-----------------------------------------------------------------------------
\* Every variable of the snapshots and of a followed log has its type.
TypesOK == TypeOK /\ Follow!TypeOK

\* Whatever the names of the bots, the page can tell them apart.  What is pressed
\* on a page that is out of date does not reach another bot as long as no bot is
\* named like an id that bind makes up for another ("bot-3"); where one is, it can.
IdsHoldStill == Units!IdsHoldStill

\* A followed log is returned line by line, each once, whole and in order.
EveryLineOnce == Follow!EveryLineOnce

\* Nothing of a log is returned again, whenever reading starts over.
NeverTwice == Follow!NeverTwice

\* The reader of a log that is left alone gets to its end.
CatchesUp == part = "logs" => Follow!CatchesUp
=============================================================================
