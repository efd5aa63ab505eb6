------------------------------ MODULE MCServer ------------------------------
(***************************************************************************)
(* Server on a small instance: one page of a hub; two presses that race   *)
(* for one id and two names.                                               *)
(***************************************************************************)
EXTENDS Server
=============================================================================
