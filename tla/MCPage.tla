------------------------------- MODULE MCPage -------------------------------
(* Page on a small instance: a pane of two streams, a page of two sockets, a *)
(* client with one slot, two units and two goroutines for their logs.        *)
EXTENDS Page
=============================================================================
