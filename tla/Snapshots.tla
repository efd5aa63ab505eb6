----------------------------- MODULE Snapshots ------------------------------
(***************************************************************************)
(* The file that tells dashd about the bots: the helper takes a snapshot   *)
(* of pm2's process list every `every' and after each action, and writes   *)
(* it (agent/internal/providers/pm2/export.go Run, Take, discordNames,     *)
(* WriteSnapshot); dashd reads it and judges by its age whether the helper *)
(* still lives (pm2.go snapshot).                                          *)
(*                                                                         *)
(* Time.  Only the answer of pm2 and the wait for the next snapshot take   *)
(* time; reading a log and writing the file are quick, and a helper whose  *)
(* ticker or kick is ready goes on at once.  Ages are counted up to        *)
(* MaxAge.  The clock does not step, so no file is dated in the future.    *)
(*                                                                         *)
(* Abstractions.  One bot.  pm2's table is the number of its changes and   *)
(* whether the bot is in it; the bot's log is the number of the last login *)
(* and whether the last 256 KB hold it.                                    *)
(***************************************************************************)
EXTENDS Integers

CONSTANTS
  Everys,      \* intervals the helper may be started with
  ListWait,    \* ticks pm2 is waited for (10 s in the code)
  MinStale,    \* StaleAfter (45 s)
  Hour,
  MaxAge,
  MaxChanges,  \* bound on the changes of pm2's table
  MaxLogins    \* bound on the logins in the log

Larger(a, b)  == IF a >= b THEN a ELSE b
Smaller(a, b) == IF a <= b THEN a ELSE b

\* From which age on dashd says the helper is not running.
StaleAfter(e) == Larger(MinStale, 3 * Smaller(e, Hour))

SnapshotsAssumption ==
  /\ Everys \subseteq Nat \ {0} /\ \A e \in Everys : e <= Hour
  /\ ListWait \in Nat \ {0} /\ MinStale \in Nat /\ 3 * ListWait <= MinStale
  /\ Hour \in Nat /\ MaxAge \in Nat
  /\ \A e \in Everys : StaleAfter(e) + ListWait < MaxAge
  /\ MaxChanges \in Nat /\ MaxLogins \in Nat

VARIABLES
  every,       \* the helper's interval
  table,       \* pm2's process table
  log,         \* the bot's log
  pc,          \* the helper: off, list, stat, read, write or wait
  busy,        \* ticks pm2 has been asked for
  toTick,      \* ticks until the ticker fires
  ticked,      \* a tick is in the ticker's channel
  kicked,      \* a kick is in e.kick
  cache,       \* e.names: the name, and whether the log is as it was read
  marked,      \* the log is as it was when readTail took its size and time
  taken,       \* what Take has so far
  file,        \* the snapshot file
  missed,      \* history: writes that failed since the last that did not, to 2
  acted        \* history: the table when the helper last kicked itself

timer == <<busy, toTick, ticked>>
names == <<cache, marked>>
world == <<table, log>>
vars  == <<every, world, pc, timer, kicked, names, taken, file, missed, acted>>

Older(n) == IF n < MaxAge THEN n + 1 ELSE n

Nothing == [error |-> TRUE, version |-> 0, listed |-> FALSE, lag |-> 0]
NoFile  == [there |-> FALSE, age |-> 0, snap |-> Nothing]

-----------------------------------------------------------------------------
(* pm2, the bot and the clock.                                             *)

TableChanges ==
  /\ table.version < MaxChanges
  /\ \E l \in BOOLEAN : table' = [version |-> table.version + 1, listed |-> l]
  /\ UNCHANGED <<every, log, pc, timer, kicked, names, taken, file, missed, acted>>

\* The bot logs in, or logs so much else, or its log is rotated, that the login
\* is not found near the end any more.
LogChanges ==
  /\ \/ log.login < MaxLogins /\ log' = [login |-> log.login + 1, near |-> TRUE]
     \/ log.near /\ log' = [log EXCEPT !.near = FALSE]
  /\ marked' = FALSE /\ cache' = [cache EXCEPT !.fresh = FALSE]
  /\ UNCHANGED <<every, table, pc, timer, kicked, taken, file, missed, acted>>

\* pm2 puts its answer together, which may then take until the deadline to come.
Answer ==
  /\ pc = "list" /\ taken = Nothing
  /\ taken' = [Nothing EXCEPT !.error = FALSE, !.version = table.version, !.listed = table.listed]
  /\ UNCHANGED <<every, world, pc, timer, kicked, names, file, missed, acted>>

Tick ==
  /\ \/ pc = "off" /\ UNCHANGED timer
     \/ /\ \/ pc = "list" /\ busy < ListWait /\ busy' = busy + 1
           \/ pc = "wait" /\ ~ticked /\ ~kicked /\ UNCHANGED busy
        /\ toTick' = IF toTick = 1 THEN every ELSE toTick - 1
        /\ ticked' = (ticked \/ toTick = 1)
  /\ taken' = IF taken.error THEN taken ELSE [taken EXCEPT !.lag = @ + 1]
  /\ file' = IF file.there THEN [file EXCEPT !.age = Older(@)] ELSE file
  /\ UNCHANGED <<every, world, pc, kicked, names, missed, acted>>

-----------------------------------------------------------------------------
(* The helper.                                                             *)

Begin ==
  /\ pc' = "list" /\ busy' = 0 /\ taken' = Nothing

Unknown == [name |-> 0, fresh |-> FALSE]

\* A new process: the ticker is set, the first snapshot taken at once.
Start ==
  /\ pc = "off"
  /\ Begin
  /\ UNCHANGED <<every, world, toTick, ticked, kicked, names, file, missed, acted>>

\* A crash, or the end of the service: nothing in memory is left, and no half of
\* a file is left behind.
Crash ==
  /\ pc # "off"
  /\ pc' = "off" /\ taken' = Nothing
  /\ busy' = 0 /\ toTick' = every /\ ticked' = FALSE /\ kicked' = FALSE
  /\ cache' = Unknown /\ marked' = FALSE
  /\ missed' = 2 /\ acted' = 0
  /\ UNCHANGED <<every, world, file>>

\* pm2 is not there, does not answer in time or with nonsense: the snapshot says so.
ListFails ==
  /\ pc = "list"
  /\ taken' = Nothing /\ pc' = "write"
  /\ UNCHANGED <<every, world, timer, kicked, names, file, missed, acted>>

\* The list is there.  The name of a bot that is not in it is forgotten.
ListBots ==
  /\ pc = "list" /\ taken # Nothing
  /\ IF taken.listed
     THEN pc' = "stat" /\ UNCHANGED names
     ELSE pc' = "write" /\ cache' = Unknown /\ UNCHANGED marked
  /\ UNCHANGED <<every, world, timer, kicked, taken, file, missed, acted>>

\* A log that is as it was when it was read need not be read again.
StatLog ==
  /\ pc = "stat"
  /\ \/ ~cache.fresh /\ pc' = "read" /\ marked' = TRUE
     \/ pc' = "write" /\ UNCHANGED marked                 \* nor one that is no file
  /\ UNCHANGED <<every, world, timer, kicked, cache, taken, file, missed, acted>>

\* The last login near the end.  A log that changes while it is read may show an
\* earlier login, though none before one found already, or none at all: logs grow,
\* or are rotated as a whole; nobody cuts the end of one off.
Found == IF marked THEN {IF log.near THEN log.login ELSE 0}
         ELSE {0} \cup {n \in 1 .. log.login : n >= cache.name}

\* Mutant of ReadLog: the mark is taken after reading.
MReadLog ==
  /\ pc = "read" /\ pc' = "write"
  /\ \/ \E n \in Found : cache' = [name |-> IF n = 0 THEN cache.name ELSE n, fresh |-> TRUE]
     \/ UNCHANGED cache
  /\ UNCHANGED <<every, world, timer, kicked, marked, taken, file, missed, acted>>

\* Mutant of ReadLog: a name that is not found any more is not known any more.
ForgetfulReadLog ==
  /\ pc = "read" /\ pc' = "write"
  /\ \/ \E n \in Found : cache' = [name |-> n, fresh |-> marked]
     \/ UNCHANGED cache
  /\ UNCHANGED <<every, world, timer, kicked, marked, taken, file, missed, acted>>

\* A name found before a rotation or a quiet stretch is kept.  Nothing is kept of
\* a log that cannot be read.
ReadLog ==
  /\ pc = "read" /\ pc' = "write"
  /\ \/ \E n \in Found : cache' = [name |-> IF n = 0 THEN cache.name ELSE n, fresh |-> marked]
     \/ UNCHANGED cache
  /\ UNCHANGED <<every, world, timer, kicked, marked, taken, file, missed, acted>>

\* Mutant of Write: the wait for the next snapshot begins when this one is written.
MWrite ==
  /\ pc = "write"
  /\ \/ file' = [there |-> TRUE, age |-> 0, snap |-> taken] /\ missed' = 0
     \/ missed' = Smaller(missed + 1, 2) /\ UNCHANGED file
  /\ pc' = "wait" /\ taken' = Nothing
  /\ toTick' = every /\ ticked' = FALSE
  /\ UNCHANGED <<every, world, busy, kicked, names, acted>>

\* The end of Take stamps the snapshot, and WriteSnapshot replaces the file, or
\* leaves it as it is: a full disk.
Write ==
  /\ pc = "write"
  /\ \/ file' = [there |-> TRUE, age |-> 0, snap |-> taken] /\ missed' = 0
     \/ missed' = Smaller(missed + 1, 2) /\ UNCHANGED file
  /\ pc' = "wait" /\ taken' = Nothing
  /\ UNCHANGED <<every, world, timer, kicked, names, acted>>

Wake ==
  /\ pc = "wait"
  /\ Begin
  /\ \/ ticked /\ ticked' = FALSE /\ UNCHANGED kicked
     \/ kicked /\ kicked' = FALSE /\ UNCHANGED ticked
  /\ UNCHANGED <<every, world, toTick, names, file, missed, acted>>

\* Mutant of Kick: e.kick has no room, so a kick while Run is busy is lost.
MKick ==
  /\ pc # "off"
  /\ kicked' = (kicked \/ pc = "wait") /\ acted' = table.version
  /\ UNCHANGED <<every, world, pc, timer, names, taken, file, missed>>

\* After an action pm2 finished, two seconds later and five seconds later: more
\* than one kick that waits is not needed.
Kick ==
  /\ pc # "off"
  /\ kicked' = TRUE /\ acted' = table.version
  /\ UNCHANGED <<every, world, pc, timer, names, taken, file, missed>>

-----------------------------------------------------------------------------
(* dashd: List, Do and Logs all begin with snapshot().                     *)

TooOld == file.there /\ file.age > StaleAfter(every)

\* The list that is shown; otherwise an error says why there is none.
Listed == file.there /\ ~TooOld /\ ~file.snap.error

-----------------------------------------------------------------------------
Init ==
  /\ every \in Everys
  /\ table = [version |-> 0, listed |-> TRUE]
  /\ log = [login |-> 0, near |-> FALSE]
  /\ pc = "off"
  /\ busy = 0 /\ toTick = every /\ ticked = FALSE /\ kicked = FALSE
  /\ cache = Unknown /\ marked = FALSE
  /\ taken = Nothing /\ file = NoFile
  /\ missed = 2 /\ acted = 0

Next ==
  \/ TableChanges \/ LogChanges \/ Answer \/ Tick
  \/ Start \/ Crash \/ ListFails \/ ListBots \/ StatLog \/ ReadLog \/ Write \/ Wake \/ Kick

Spec == Init /\ [][Next]_vars

-----------------------------------------------------------------------------
(* Properties.                                                             *)

Snaps == [error : BOOLEAN, version : 0 .. MaxChanges, listed : BOOLEAN, lag : 0 .. ListWait]

\* Every variable has its type.
TypeOK ==
  /\ every \in Everys
  /\ table \in [version : 0 .. MaxChanges, listed : BOOLEAN]
  /\ log \in [login : 0 .. MaxLogins, near : BOOLEAN]
  /\ pc \in {"off", "list", "stat", "read", "write", "wait"}
  /\ busy \in 0 .. ListWait /\ toTick \in 1 .. every
  /\ ticked \in BOOLEAN /\ kicked \in BOOLEAN
  /\ cache \in [name : 0 .. MaxLogins, fresh : BOOLEAN] /\ marked \in BOOLEAN
  /\ taken \in Snaps
  /\ file \in [there : BOOLEAN, age : 0 .. MaxAge, snap : Snaps]
  /\ missed \in 0 .. 2 /\ acted \in 0 .. MaxChanges

\* The age of the file tells a dead helper from a live one.  One that lives and
\* whose last write or the one before it succeeded is never said not to be
\* running, however slow pm2 is and wherever the ticker is; and what is shown was
\* read from pm2 no longer ago than the age allowed and the wait for pm2.
FreshnessIsRight ==
  /\ missed <= 1 => ~TooOld
  /\ Listed => file.age + file.snap.lag <= StaleAfter(every) + ListWait

\* When the helper has come to rest after an action, the page sees at least what
\* the action did: no kick is lost to a snapshot that was already being taken.
ActionIsShown ==
  pc = "wait" /\ ~kicked /\ missed = 0 =>
    file.snap.error \/ file.snap.version >= acted

\* A name in memory that the log's mark vouches for is the one the log says.
NamesAreCurrent == cache.fresh /\ log.near => cache.name = log.login

\* A name once found is not lost again, nor replaced by an earlier one, while the
\* helper runs and pm2 lists the bot.
NameIsKept ==
  [][cache'.name < cache.name => pc' = "off" \/ (pc = "list" /\ ~taken.listed)]_vars
=============================================================================
