------------------------------- MODULE MCBots -------------------------------
(***************************************************************************)
(* Bots, with a bot, one that is named like an instance of the first, and  *)
(* one that is left out.                                                   *)
(***************************************************************************)
EXTENDS Bots

CONSTANTS Bot, Other

MCProcNames == {<<Bot>>, <<Bot, "-", 1>>, <<Other>>}
MCExclude   == {<<Other>>}
=============================================================================
