-------------------------------- MODULE Page --------------------------------
(***************************************************************************)
(* The two ends of a page's websocket: in the browser its sign-in and      *)
(* socket (PageSession) and its log pane (LogView, two streams), in dashd  *)
(* the client's log streams (LogStreams), each explored by itself.         *)
(***************************************************************************)
EXTENDS PageSession, LogStreams

CONSTANTS TailLen, MaxLines, MaxOpens, MaxDrops

VARIABLES
  part,
  written, pane, shown, ended, socket, up, down, sub, streams, opens, drops, late

logs == <<written, pane, shown, ended, socket, up, down, sub, streams, opens, drops, late>>

Pane == INSTANCE LogView

ASSUME PageAssumption /\ Pane!LogViewAssumption

PartsInit ==
  /\ part \in {"pane", "session", "client"} /\ Init /\ Pane!Init /\ ClientInit
  /\ part # "session" => cookie = 0

PartsNext ==
  /\ UNCHANGED part
  /\ \/ part = "pane" /\ Pane!Next /\ UNCHANGED <<vars, clientVars>>
     \/ part = "session" /\ Next /\ UNCHANGED <<logs, clientVars>>
     \/ part = "client" /\ ClientNext /\ UNCHANGED <<vars, logs>>

PartsSpec ==
  /\ PartsInit /\ [][PartsNext]_<<part, vars, logs, clientVars>>
  /\ \/ part = "pane" /\ Pane!Fairness
     \/ part = "session" /\ Fairness
     \/ part = "client" /\ ClientFairness

-----------------------------------------------------------------------------
\* Every variable of the three parts has its type.
TypesOK == TypeOK /\ Pane!TypeOK /\ ClientTypeOK

\* The pane shows every line its stream has sent, or will get it.
NothingLost == Pane!NothingLost

\* A pane that stays open ends up showing the newest line, or that its stream ended.
Follows == Pane!Follows
=============================================================================
