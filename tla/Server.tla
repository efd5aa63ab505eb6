------------------------------- MODULE Server -------------------------------
(***************************************************************************)
(* What dashd's server does for a page that looks and for a page that acts *)
(* (server.go): the hub's polls and broadcasts (Hub) and the buttons of    *)
(* pm2's processes (Pm2Control), each explored by itself.  An action ends  *)
(* with a call of RefreshUnits, which Hub has at any time.                 *)
(***************************************************************************)
EXTENDS Hub, Pm2Control

VARIABLE part

\* A hub that has polled, which nobody looks at.
Quiet == AtStart /\ units = world /\ hub = [pc |-> "idle", read |-> 0]

PartsInit ==
  /\ ButtonsInit
  /\ \/ part = "hub" /\ Init /\ table = [i \in Ids |-> NoName]
     \/ part = "buttons" /\ Quiet

PartsNext ==
  /\ UNCHANGED part
  /\ \/ part = "hub" /\ Next /\ UNCHANGED buttonVars
     \/ part = "buttons" /\ ButtonsNext /\ UNCHANGED vars

\* What is fair in a part cannot happen while the other is explored.
PartsSpec ==
  /\ PartsInit /\ [][PartsNext]_<<part, vars, buttonVars>>
  /\ Fairness /\ ButtonsFairness
=============================================================================
