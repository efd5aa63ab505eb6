---------------------------- MODULE LogProviders ----------------------------
(***************************************************************************)
(* The four ways in which a log comes to dashd, each explored by itself:   *)
(* pm2's across the helper's socket (HelperLogs, two calls and one slot),  *)
(* docker's, the journal's and the console of a game server.  They share   *)
(* no state, so their product would show nothing more.                     *)
(***************************************************************************)
EXTENDS HelperLogs

CONSTANTS MaxToken, MaxBytes, MaxOutput, MaxSaid, MaxExpiries

VARIABLES
  part,
  tty, body, ended, dCancelled, reader, dQueued, dHeard, size, log,
  child, pipe, printed, jCancelled, jPc, entry, jQueued, jHeard,
  wings, toWings, toDashd, wCancelled, wPc, reply, left, wQueued, wHeard, sent

docker  == <<tty, body, ended, dCancelled, reader, dQueued, dHeard, size, log>>
journal == <<child, pipe, printed, jCancelled, jPc, entry, jQueued, jHeard>>
console == <<wings, toWings, toDashd, wCancelled, wPc, reply, left, wQueued, wHeard, sent>>

Docker  == INSTANCE DockerLogs
             WITH cancelled <- dCancelled, queued <- dQueued, heard <- dHeard
Journal == INSTANCE JournalLogs
             WITH cancelled <- jCancelled, pc <- jPc, queued <- jQueued, heard <- jHeard
Console == INSTANCE WingsConsole
             WITH cancelled <- wCancelled, pc <- wPc, queued <- wQueued, heard <- wHeard

ASSUME ProvidersAssumption ==
  Docker!DockerAssumption /\ Journal!JournalAssumption /\ Console!ConsoleAssumption

PartsInit ==
  /\ part \in {"pm2", "docker", "systemd", "pterodactyl"}
  /\ Init /\ Docker!Init /\ Journal!Init /\ Console!Init

PartsNext ==
  /\ UNCHANGED part
  /\ \/ part = "pm2" /\ Next /\ UNCHANGED <<docker, journal, console>>
     \/ part = "docker" /\ Docker!Next /\ UNCHANGED <<vars, journal, console>>
     \/ part = "systemd" /\ Journal!Next /\ UNCHANGED <<vars, docker, console>>
     \/ part = "pterodactyl" /\ Console!Next /\ UNCHANGED <<vars, docker, journal>>

\* What is fair in a part cannot happen while another is explored.
PartsSpec ==
  /\ PartsInit /\ [][PartsNext]_<<part, vars, docker, journal, console>>
  /\ Fairness /\ Docker!Fairness /\ Journal!Fairness /\ Console!Fairness

-----------------------------------------------------------------------------
\* Every variable of every part has its type.
TypesOK == TypeOK /\ Docker!TypeOK /\ Journal!TypeOK /\ Console!TypeOK

\* Docker's frames, journalctl's output and the console's messages reach the
\* follower as the contract of Logs (provider.go:82) has it: every line whole,
\* once and in order, and the channel closed after the last and not before.
\* LogContract has one exception, a place from which on nothing is owed: a line
\* that is too long for a terminal's reader or the journal's, and the renewal of
\* a console's token when it fails.
LogsKeepContract ==
  Docker!KeepsContract /\ Journal!KeepsContract /\ Console!KeepsContract

\* provider.go:82: Logs "follows new output until ctx is cancelled or the source
\* ends", of a container and of a unit's journal, with no exception.
LogsFollowToTheEnd == Docker!FollowsToTheEnd /\ Journal!FollowsToTheEnd

\* A journalctl or a console that failed says so, as the last line that is heard,
\* and one that was stopped or came to its end does not.
FailuresAreTold == Journal!FailureIsTold /\ Console!FailureIsTold

\* No line of a console is missed between the replay and what is said live, also
\* where the token has to be renewed.
ConsoleComplete == Console!NoHole
=============================================================================
