# dashd: specifications, model checks and proofs

dashd is a dashboard daemon for one home server. A Go agent polls the host and
its services, serves a web page, streams state and logs over a websocket, and
starts and stops services for the signed-in user. pm2 bots belong to another
user, so a small helper (`dashd pm2-export`, unit `dashd-pm2`) runs as that user
and does for dashd what it may not do itself.

This directory holds TLA+ models of the parts where order, failure and
concurrency matter, what TLC checks about them, and what TLAPS proves.

## 1. Inventory

Paths are under `agent/internal/` unless they begin with `web/`.

| component | state | operations | properties that make it correct |
|---|---|---|---|
| sign-in: `auth/auth.go`, `limiter.go`, `totp.go` | sessions, last TOTP step, sessions file, failure times per key and in total | Login, Session, Logout, save, load, Allow, Fail, Reset | a code opens one session; removed sessions stay removed; saved sessions survive; failures are limited; locks hold |
| websocket connection: `api/ws.go` | send queue, `cl.subs`, goroutines, contexts | read loop, write loop, session watch, subscribeLogs, unsubscribe | `cl.subs` agrees with the goroutines; cap; stopped streams end; dropped clients leave |
| hub: `api/hub.go` | clients, history, units, refresh channel | poll, RefreshUnits, Broadcast, add, remove | a client's view converges to the stored one; a refresh starts after the action that asked for it |
| server: `api/server.go` | none of its own | login, logout, action, audit, units | an action's answer is true; every action that ran is recorded |
| audit: `audit/audit.go` | file, last 200 entries | Open, Append, Recent | memory is a suffix of the file; reload gives it back |
| registry, ring: `provider/` | providers; last lines of a log | ListAll, Do, Logs, Push, Last | ring = last n pushed |
| pm2 provider and helper: `providers/pm2/` pm2, control, export, rpc | snapshot file, actMu, kick, log slots, name cache | List, Do, act, Take, WriteSnapshot | the right process is acted on; one action at a time; nothing starts after the page gave up |
| snapshots: `providers/pm2/export.go`, `snapshot.go`, `names.go`, `pm2.go` | snapshot file, ticker, kick, cache of names | Run, Take, WriteSnapshot, snapshot, bind | a snapshot's age tells whether the helper lives; no kick and no name is lost; ids are unique and hold still |
| pm2 logs: `providers/pm2/logs.go` | offset, partial line, file identity | open, poll, streamLogs, streamFromHelper | every complete line once, in order, across truncation and rotation |
| docker, systemd, pterodactyl | an HTTP body, a journalctl process, a websocket with a token | List, Do, Logs | lines arrive whole, once, in order; the channel closes at the end and not before; failures are told |
| mock | none | List, Do, Logs | none: made-up data |
| page: `web/src/App.svelte`, `lib/live.svelte.ts`, `lib/api.ts`, `LogPane.svelte`, `Console.svelte` | phase, socket, timer, handlers, lines, audit list | connect, close, onclose, subscribeLogs, signOut | the pane shows its stream; nothing is lost over a reconnect; one socket at most, none at the login |

How they interact: the page calls the server over HTTP and holds one websocket;
the hub broadcasts to all websockets through their queues; a websocket's read
loop starts log goroutines that call the registry, which calls a provider; the
pm2 provider reads a file that the helper replaces, and talks to the helper over
a unix socket; the helper talks to the pm2 daemon over another.

What is hard here: check-then-act across unlocked work (a login's hash, the
helper's list-then-call); goroutines that outlive what asked for them (log
streams, timed-out actions); messages that name a unit but not the stream they
belong to; state that is saved late, or not at all, before a restart; timeouts
inside timeouts. `PROJECT.json` lists each hazard at its line, with the
properties that watch it.

## 2. Modules

| module | models | kind |
|---|---|---|
| `Auth` | sign-in | component |
| `AuthProofs` | theorems about `Auth` | proofs |
| `LogStreams` | dashd's end of a websocket: its queue and its log streams | component |
| `LogStreamsProofs` | theorems about `LogStreams` | proofs |
| `LogView` | a log pane, the page's socket and the server's streams of one unit | composition |
| `Pm2Control` | a bot button from page to pm2 and back | composition |
| `Pm2ControlProofs` | theorems about `Pm2Control` | proofs |
| `Hub` | polls, kicks and broadcasts, and what pages make of them | composition |
| `HubProofs` | theorems about `Hub` | proofs |
| `Server` | `Hub` and `Pm2Control` side by side | the parts of one run |
| `AuditLog` | what an audit log promises | abstract specification |
| `Activity` | an action's record: handler, memory, file, broadcast, the page's list | composition, implements `AuditLog` |
| `ActivityProofs` | theorems about `Activity` | proofs |
| `LogFollow` | a log file followed by the helper while it grows, is emptied and is replaced | component |
| `HelperLogs` | log streams between dashd and the helper, with the helper's slots | composition |
| `Snapshots` | the helper's snapshots and what dashd makes of their age | composition |
| `BotUnits` | the ids of bots, on the page and in the next snapshot | algorithm and its users |
| `Bots` | `Snapshots`, `BotUnits`, `LogFollow` side by side | the parts of one run |
| `BotsProofs` | theorems about `Bots` | proofs |
| `LogContract` | what `Logs` promises to whoever follows a log | abstract specification |
| `DockerLogs` | a container's log | component, implements `LogContract` |
| `JournalLogs` | a systemd unit's log | component, implements `LogContract` |
| `WingsConsole` | a game server's console | component, implements `LogContract` |
| `LogProviders` | `HelperLogs`, `DockerLogs`, `JournalLogs`, `WingsConsole` side by side | the parts of one run |
| `LogProvidersProofs` | theorems about `LogProviders` | proofs |
| `PageSession` | a page, its one socket and its sign-in | composition |
| `Page` | `PageSession`, `LogView` and `LogStreams` side by side | the parts of one run |
| `PageProofs` | theorems about `Page` | proofs |
| `MCAuth`, `MCPage`, `MCLogView`, `MCPageForgotten`, `MCServer`, `MCActivity`, `MCBots`, `MCLogProviders` | one module each, with constants of a size for TLC | model checking |

`Page`, `Server`, `Bots` and `LogProviders` put modules that share no state side by side: a
variable `part` chooses one in the initial state, and the others stand still. One run then
explores all of them, and theorems about the whole speak of the same definitions. Where a
module is EXTENDed beside another one its top operators have a name of their own
(`ClientInit`, `ClientNext`, `ClientSpec` in `LogStreams`; `ButtonsInit`, `ButtonsNext`,
`ButtonsSpec` in `Pm2Control`).

### Auth

| code | model |
|---|---|
| `Limiter.fails`, `allFails` | `fails`, `allFails`: sequences of times |
| `Authenticator.sessions`, `lastStep` | `sessions` (records with token, user, expiry), `lastStep` |
| `sessions.json` | `disk`; `persist` says whether `SessionsPath` is set |
| a running `Login` | `req[r]`: idle, hashing, matched |
| `Login` lines 67 / 74-78 / 80-99 | `Arrive` / `HashError`, `MatchCode` / `Reject`, `Accept` |
| `Session`, `Logout`, `New` with `load` | `ExpireSession`, `Logout`, `Restart` |

A login is three steps because it holds no lock between the limiter and `a.mu`,
and reads the clock in between. `save` runs inside the locked section, so it is
part of the action that calls it; it may fail, which leaves the old file and
sets the history variable `unsaved`. A restart then sets `forgot`. `grants`,
`revoked` and `issued` are history too: the code does not have them, the
properties need them.

`Restart` has both ways through `load`: it reads the file, or finds one it cannot read or
parse, and then starts without sessions and with `lastStep` 0 (`readable` is FALSE, which
sets `forgot` too). `SurvivesRestart` is about the restarts that read the file.

The password hash and the HMAC are perfect, tokens are fresh and the clock is
monotone. Steps count from 2, so that every step within drift is above the zero
`lastStep` starts with.

### LogStreams

`subs` is `cl.subs`; `pc[s]` is where goroutine `s` is in `subscribeLogs`;
`told[s]` and `cancelled` are its own and the connection's cancelled context;
`queued` is the length of `cl.send`. The three outcomes of `sendEnvelope`
(queued, context ended, five seconds on a full queue) are `Queue`, `GiveUp` and
`TimeOut`. What `select` may choose is one action per case. Names of goroutines
are used again once they have ended: two names mean two goroutines at a time, not
two in all. Broadcasts from the hub compete for the queue (`Broadcast`).

### LogView

The page's side (`OpenPane`, `SubscribeLogs` after the debounce, `ClosePane`,
`Receive`, `LoseSocket`, `Reconnect`) and the server's side with the queue left
out, since `LogStreams` covers it. A line is its position in the unit's log, a
message a range of lines or the end. `up` and `down` are the socket's two
directions; losing it loses both. `late` is history: a stopped stream of this
connection still flushed a batch.

### Pm2Control

`table` is pm2's process list and `snap` the file dashd reads, which lags behind.
A press goes: `Press` (look the unit up in `snap`), `Begin` or `Busy` (TryLock),
`Check` (id and name still together) or `ListFails`, `Call`, `Answer` or
`ActionTimeout`, then `Report`, or `WaitEnds` when dashd's deadline is first.
`Execute` is pm2 doing what it was asked, at any time, also when nobody waits any
more; `ChangeTable` is its user at work; `HelperCrash` is the helper's death and restart
(`Restart=always` in its unit file). pm2 itself is external: `Execute` and `ChangeTable` model
how the code uses it.

Time is counted in ticks. A timer that is due stops the clock until it fired, and
a request reaches the helper's handler within `Slack` ticks: local sockets and
scheduling are taken to be faster than the 30 seconds between the two timeouts.
`NoLateStart` depends on that, as the code does.

### Hub

`hub` is the one goroutine of `Run`: idle, or in a poll at one of the points
between which it holds no lock. `TickUnits` and `TakeRefresh` start a poll,
`ListAll`, `StoreUnits` and `SendUnits` are the rest of `pollUnits`; `PollHost` and
`SendHost` are `pollHost`. `RefreshUnits` kicks and leaves two timers (`KickLater`).
A connection is greeted (`Greet`: hello from what is stored) and added (`Join`) in
two steps, as in `ws()`. A broadcast that finds a full queue cancels the client.
The units are a counter of changes, a host sample its number, so that order,
loss and repetition can be seen. `asked` and `newest` are history.

### Activity and AuditLog

`Do`, `Record`, `Send`, `Reply` are the handler after one another; `Record` is
`Audit.Append`, memory and file under one lock. A write may succeed, fail, or be short:
it leaves a part of a line, or all of it but the newline. The file is the entries that
`Open` would read in it and how it ends (`whole`, `torn`, `unended`): what is written next
continues an unfinished line, and neither it nor an entry that lacked its newline can be
read then. `Restart` may come at any point:
a crash, but also a plain stop, since `serve` returns when `Shutdown` begins and does
not wait for handlers. The page mounts, fetches (`ServeAudit`, `SetAudit`), connects,
loses its socket and receives.

`AuditLog` has two actions, run and record; the refinement maps its log to the entries
of the complete lines (`Lines`). The entry of an unended line is not among them: a restart shows
it, but the next `Append` destroys it. That every action gets its entry is not a part of `AuditLog`,
since the code does not do it (`EveryActionRecorded`, violated).

### LogFollow

| code | model |
|---|---|
| `logFile` (`off`, `partial`, `info`, `ok`, `missing`, `skip`) | `f` |
| `open`: Stat / `readTail` opens and takes the size / ReadAt and the rest | `OpenStat` / `OpenSize` / `OpenRead`, or `OpenFails` |
| `poll`: Stat and the switch / open, ReadAt and the rest | `PollStat` / `PollRead`, or `PollFails` |
| bot, `pm2 flush`, logrotate | `WriteByte`, `Truncate`, `MoveAway`, `Create` |

`open` and `poll` are several steps because each goes to the file system by path more
than once, and the file may be another one, or a shorter one, each time. A newline
is 0 and every other byte has its number, so that a line returned twice, missing or
put together from two files can be told. A buffer that was to be filled from a file
that shrank meanwhile keeps zero bytes (`Nul`). A new file may have the inode of the
one before; `born` tells the two apart where the code cannot. `start` and `told` are
history: where the present reading started, and what has been returned so far.
Two kinds of reading are excepted from `EveryLineOnce`, since the code has no
means to know: one that starts inside a line (`start.cut`: open's window lies in a
single line, or open failed and poll follows from the end), and one under which
the file was swapped between Stat and the read (`start.other`).

### HelperLogs

One connection for each stream. `dash` is where `streamFromHelper` or its goroutine
is, `helper` where the handler is, `wire` what is on the connection, `out` the
channel to `subscribeLogs`; `Holders` are the handlers with a slot of `logSlots`.
`open` and `eof` are the two ends. Dialling, the first line with its 15 seconds, the
copying loop, the notice at the end, the slot, `list`, the old lines, following and
the goroutine that watches for a hang-up are one action each. `Crash` is the helper's
death or restart at any point. Reading the files is `LogFollow`.

### Snapshots

| code | model |
|---|---|
| `Run`: ticker, `e.kick`, the select | `toTick`, `ticked`, `kicked`; `Tick`, `Wake` |
| `Take`: `list` / the processes / a log's stat, read and cache | `Answer`, `ListFails` / `ListBots` / `StatLog`, `ReadLog` |
| `WriteSnapshot`, which replaces the file or fails | `Write` |
| `kickSoon` after an action | `Kick` |
| `e.names` (size, time, name) | `cache`: the name, and whether the log is still as it was |
| `Provider.snapshot` | `StaleAfter`, `TooOld`, `Listed` |

pm2's table and the bot's log change at any time, also between the two looks the
helper takes. pm2 answers (`Answer`) up to `ListWait` before the answer is taken, which
`lag` counts: the stamp is set when `Take` ends, not when pm2 looked. Only the wait
for pm2 and for the ticker take time; reading a log and writing a small file are taken
to be quick, and the clock not to step. What a scan of a changing log finds (`Found`) rests
on a premise about the log: it grows, or is rotated as a whole, and nobody cuts the end of
one off, so a scan never finds a login older than one found before. `NameIsKept` says what
the cache does with what is found, under that premise. A ticker keeps its own time while a
snapshot is being taken, and one tick waits at most, as in Go. `Crash` loses all but the
file. `missed` and `acted` are history.

What the model says beside its properties: the comment at pm2.go:98 allows three missed
writes, but with an interval above the default the third is already too many, since a
write takes up to ten seconds more than the interval (`FreshnessIsRight` holds for one);
an interval of more than an hour makes a live helper look dead, which is why
`SnapshotsAssumption` has `Every <= Hour`; and names are lost with each restart of the
helper whose bots do not log in again.

### BotUnits

`Bind` is `bind`: a name that occurs once is the id, instances of a cluster get their
number, and an id that is taken already gets `~2`, `~3` and so on. Names are sequences, so
that a bot can be named like an instance of another. A page keeps what `List`
showed; `Do` and `Logs` bind the snapshot of their moment again. `IdsHoldStill` says of all
names that the ids on a page differ, and of names that do not look like made-up ids
(`Plain`) that an old page's press reaches no other bot.

### DockerLogs, JournalLogs, WingsConsole and LogContract

`LogContract` is the sentence at provider.go:82: every line said is heard once, in
order and whole, and the channel is closed when the source has ended and everything
was heard, or when nobody listens. It has one exception, which provider.go does not have:
a place `barred` in what is said, from which on nothing is owed and where the channel may be
closed early; everything before it is still due. With `barred` 0 it is the sentence itself.
`LogsKeepContract` is the contract with each provider's own place barred; `LogsFollowToTheEnd` is
docker's and the journal's contract without any, and is violated. Each source maps its own notion
of said lines:

- Docker: the container's lines in the order in which their newlines were written, then
  what stdout and stderr left unfinished; it ends when Docker ends the body. Barred is the
  first line, finished or begun, that is too long for a terminal's reader. `ReadFrame`,
  `EmitLine`, `KeepRest` and `FlushRest` are `readMultiplexed`; a terminal's stream has one
  slot, no frames and a longest line (`readRaw`). `SendFrame` cuts and mixes the two streams
  freely.
- journalctl: every entry it printed; it ends when the process does. Barred is what follows a
  line that is too long. `ChildEnds` and `Kill` are the process, `Scan`, `Put`, `Wait` and
  `PutNotice` the goroutine.
- Wings: every line it sent; it ends when the connection breaks. Barred is what follows a
  token that was refused, that the panel does not give out or that cannot be sent.
  `ReadMessage` is the switch over events, `FetchToken` and `Send` the renewal of a token.
  That nothing is missing between a replay and what is said live is `NoHole`. That Wings
  replays its last lines when asked is how the code uses it, and external.

What happens after the follower cancelled is not stated: select may still put a line.
A line over a megabyte ends what is heard: in docker's terminal stream the channel is
closed without a word, in the journal's it stays open and silent while journalctl runs,
because `cmd.Wait` waits for it. A console that gives up says so (`FailuresAreTold`).

### PageSession

| code | model |
|---|---|
| `App.svelte` `phase` | `phase`; `Start`, `SignIn`, `SignedOut` |
| `Live` `#stopped`, `#attempt`, `#timer`, `#ws` | `stopped`, `attempt`, `timer`, `ws` |
| `connect`, `close`, `#open`, `onopen`, `onclose` | `Connect`, `Close`, `Open`, `Opened`; `StaleClosed`, `SessionEnded`, `Closed` |
| `request` and its 401, `signOut`, the question at live.svelte.ts:117 | `Ask`, `Handle`, `Fail`, `Answered` for the kinds api, logout and check |
| `authed`, `login`, `logout`, `watchSession` | `Handle`, `SignIn`, `ServerCloses`; `SessionEnds` |

A socket object lives until its close event was handled, so the event of one that
the page has closed can come when another is open. A request keeps the token it was
sent with, so its 401 can come after the user signed in again. Two such cases are in
the model because they are in the code, and no doc says otherwise: a late 401 signs
out a page whose new session is good, and a sign-out that does not reach the server
shows the login while session and cookie live on.

## 3. Runs

| run | question | bounds | result |
|---|---|---|---|
| `auth` | can a code be used twice, a removed session return, a saved one vanish? how far can failures exceed the limits, what ends a lock early? | 1 key, 2 requests, 2 tokens, 2 users, limits 2 and 2, window 1, clock 2..4 | holds, 1 230 000 states |
| `auth_lockout` | does a lock last a whole window? | 1 key, limit 2, window 2, clock 2..6 | violated |
| `page` | does the pane show its stream? has the page one socket at most, and in the end one? in dashd, does the cap of streams hold, does everything end? | pane: 2 streams, tail 2, 3 lines, 2 openings, 1 lost socket; session: 2 sockets, 2 sign-ins, 1 outage; client: 2 units, 2 goroutines, cap 1, queue 2, batch 2 | holds, 165 000 states |
| `log_view_reconnect` | is a line shown once? | 1 opening, 1 lost socket | violated |
| `page_session_forgotten` | does a page whose session is gone end up at the login? | 2 sockets, 1 sign-in, 1 outage | violated |
| `server` | does a page go back, is a kick honoured, has the trace holes, does the page converge? is the report of a press true, the process right, the action in time, every press answered? | hub: 1 page, history 3, queue 2, 2 changes, 3 samples, 1 refresh, 1 restart; buttons: 2 presses, 1 id, 2 names, 1 change, timeouts 1 and 3 | holds, 855 000 states |
| `activity` | do memory, file and what people were told agree; are the file's complete lines an audit log? | 3 requests, 200 and 100 scaled to 2 and 1, 1 restart, 1 lost socket | holds, 3 130 000 states |
| `activity_recorded` | has every action its entry? | 1 request, 1 restart | violated |
| `activity_shown` | does a connected page list the newest entries? | 1 request, 1 lost socket | violated |
| `bots` | does a snapshot's age tell the truth, are kicks, names and ids kept? is every line of a log returned once, and does the reader get to its end? | snapshots: interval 1 with 1 change and 2 logins, interval 2 with a log that is quiet, StaleAfter 3; ids: 3 names, 3 pm2 ids, 3 processes; logs: 5 bytes, 2 inodes, 1 swap, 1 failure, limits of 1 to 3 bytes | holds, 990 000 states |
| `log_providers` | do docker's, the journal's and the console's logs keep their contract, are failures told, is a stream's slot freed? | channels of 1 line; pm2: 2 streams, 1 slot, 1 crash; docker: 3 bytes; journal: 3 lines; console: 2 lines, 1 expiry | holds, 104 000 states |
| `logs_end_early` | does a log follow until its source ends? | docker: 2 bytes, lines shorter than 1; journal: 2 lines | violated |

Why these bounds are enough to be interesting. Two requests are the least that
race; with limits of 2 both the per-key and the global limit are reached (they differ
once a login has cleared the key) and
exceeded. Two users let a rename and a rename back happen. One process id is enough for
a button: a change can give it to another name, take it away or give it back, and
its safety properties are proved for any number of ids and names. In a client's streams two
units at a cap of one reach refusal, replacement at the cap and a replaced
goroutine that outlives its successor; a queue of two is full after hello and one
more message, so every send can block, and a batch of two can be flushed by the
ticker before it is full. More goroutines are the proofs' business. A tail of 2 in a
log of 3 lines is both shorter and longer than the log. With timeouts 1 and 3 the answer can be in transit when dashd's deadline
passes, and the helper's deadline can pass in each of its states. One change of the
table is enough to take over an id, remove a process or make a name ambiguous.
One page is enough for the hub: pages meet only in `clientCount`, where one more
client makes the hub poll more. A history of 3 has room for two irregular places,
which is what the property forbids; a queue of 2 is full after hello and one more
message. Three requests overflow a memory of two entries.
Five bytes are two lines with a rest in `bots`, longer than each of its limits,
so that every limit is met inside a line; one swap puts a new, a shorter or a
refilled file under a read. Two streams and one slot make a stream wait for the other's
slot; a channel and a connection of one line each are full at once.
Two sockets and two sign-ins are the least at which an old socket's close event, an old
timer or an old session's 401 can meet a new one; there is no bound on lost sessions and
failed requests, and one outage can come at any point and last. An interval of 1 with
`StaleAfter` 3 has the three missed writes of the code's comment, one of 2 makes
`3 * Every` the larger, and pm2's wait of 1 makes a snapshot late against its ticker; one
change and two logins are what it takes to be stale or to lose a name, and the theorems
hold for any number. Three processes with names of which one is made like an id of the
other's instances are the least that collide. Three bytes are a line that spans two
frames, or two lines in one; a terminal's limit of 2 is met within them. A channel of
one line makes every put wait.
Symmetry is used in runs without liveness only.

`CHECK_DEADLOCK FALSE` is set where the system may stop: a websocket connection
ends for good and a user may leave the page alone while the log is
quiet, or at the login (`page`, `log_view_reconnect`), nobody may have another request
(`activity`, `activity_recorded`, `activity_shown`), a bot may write no more (`bots`), and
nobody may follow a log any more (`log_providers`, `logs_end_early`).

### The six violations

- `LockoutLastsWindow`: README line 65 and the server's message promise 15
  minutes. `Allow` drops failures one window after each was made, so the lock ends
  when the oldest leaves the window.
- `ShownOnce`: a comment says that after a reconnect the lines shown are replaced
  by the fresh tail; the pane appends it.
- `ShownUnderActivity`: the README promises that every action is shown under
  Activity. The page fetches the list once, when it is mounted, hello has no entries,
  and the answer replaces what was broadcast meanwhile; so an action taken while the
  socket is down stays off the list.
- `SessionDeathIsSeen`: a comment says of a failed upgrade that it is checked whether
  the session died. That is asked once, at the second attempt, and a request that fails
  is forgotten: a page that loses its server for a while, and its session with it (a
  restart after a failed save, an expiry), retries for ever and never shows the login.
- `EveryActionRecorded`: the README says that every action is appended to the audit log. A
  stop of dashd does not wait for handlers (`serve` returns as soon as `ListenAndServe` does,
  which is when `Shutdown` begins): one between an action and its entry leaves the
  action without a record, with no write that failed. `ToldIsSaved` holds beside it: nobody
  was told of such an action.
- `LogsFollowToTheEnd`: provider.go says that `Logs` follows until it is cancelled or the source
  ends. At a line of a megabyte a terminal's reader stops and the channel is closed, although
  the container goes on; the journal's reader stops too and waits, silent. In the shortest
  trace docker's reader closes the channel.

More things the models show, recorded as hazards. `save` only logs a failed write, so a
restart after it goes back to an older `lastStep` and accepts a used code that is still
within drift; `CodeOnce` is therefore stated for runs in which no unsaved state was
lost. A stopped stream can flush one more batch, which carries only the unit's name: it reaches the pane that took
over, and clears its "ended" notice (`Follows` therefore excludes those runs). And
pm2's table can change between the helper's check and its call, so `RightProcess`
is stated for presses during which that did not happen. A page's trace may have one
sample twice or a hole where its hello ends, since a sample is stored and broadcast
in two steps and hello is made before `add`; `TraceHasOneSeam` says that this is the
only place. Ids of bots hold still only where no bot is named like an id that `bind`
makes up: beside a cluster "bot" and a bot that is named "bot-3", a page that is out of
date can reach another bot than the one it shows. `IdsHoldStill` excepts such names
(`Plain`) and no doc promises more; that the ids on one page differ holds for all names.

### Fairness

- `LogStreams`: goroutines run, and a send that blocks times out (weak fairness).
  Noticing a cancelled context has strong fairness: a goroutine with lines to take
  returns to its `select` again and again, where Go picks a ready case at random.
  Nothing is assumed of lines, the browser, the writer or a provider whose context
  is still good.
- `LogView`: timers fire, messages arrive, goroutines run. Nothing is assumed of
  the user, the unit or the network.
- `Pm2Control`: time passes, and for each press timers fire, the helper takes what was sent
  and dashd reads the answer. Nothing is assumed of pm2, and the helper may crash for ever.
- `Hub`: the select of `Run` chooses at random among what is ready, so a due units
  ticker or a kick is served in the end (strong fairness, since host samples come
  between); polls end by their timeouts, timers fire, a connection that holds
  delivers. `Converges` is stated for a page that stays connected and units that
  stop changing.
- `LogFollow`: the stream's goroutine goes on (a ticker every half second); nothing is
  assumed of the file, except that calls fail only so often.
- `PageSession`: timers and browser events come, and the server answers whom it can
  reach. Nothing is assumed of the user, the network or how long a session lasts.
- `DockerLogs`, `JournalLogs`, `WingsConsole`: the goroutine runs, the websocket's goroutine
  takes lines, and a cancelled process is killed. Nothing is assumed of the source.
- `HelperLogs`: goroutines run, reads and sends end by their deadlines, and the
  websocket's goroutine takes lines or is stopped (`StopEnds` of `LogStreams`). A stream may
  be quiet for ever: following without anything to send is no progress.

## 4. Proofs

All for every value of the constants, under the assumption each module states of its own
(`LimitsAssumption`, `StreamsAssumption`, `Pm2Assumption`, `HubAssumption`, `ActivityAssumption`,
`HelperAssumption`, `ProvidersAssumption`, `BotsAssumption`, `PageAssumption` and
`LogViewAssumption`; TLC evaluates each): limits, window, lifetime, timeouts and bounds
are numbers (limits, queues, what the log keeps and lists, the reader's windows, and the TOTP
period positive, the helper's timeout shorter than dashd's), requests and units are finite
sets where they are counted, and the names for "nothing" are not names of
something. `SnapshotsAssumption`, a part of `BotsAssumption`, has the code's own relations: the
interval is at most an hour, and three waits for pm2 fit into `StaleAfter` (10 s and 45 s).
`BotUnitsAssumption` says that pm2's ids are numbers and a name is a sequence; its
characters may be anything. The bounds of the models (`MaxBytes`, `MaxLines` and the like) are
numbers too, and as large as one wants.

| theorem | says | inductive invariant |
|---|---|---|
| `AuthProofs!TypeCorrect` | `[]TypeOK` | itself |
| `AuthProofs!CodesAreUsedOnce` | `[]CodeOnce` | `CodeInv` |
| `AuthProofs!LogoutsAreFinal` | `[]LogoutFinal` | `SessionInv` |
| `AuthProofs!SessionsSurviveRestart` | `SurvivesRestart` | `SessionInv` |
| `AuthProofs!AttemptsAreLimited` | `[]RateLimit` | `RateInv` |
| `AuthProofs!LocksHold` | `LockHolds` | `TypeOK` |
| `LogStreamsProofs!TypeCorrect` | `[]ClientTypeOK` | itself |
| `LogStreamsProofs!StreamsStayRegistered` | `[]StreamsRegistered` | `StreamsInv` |
| `LogStreamsProofs!StreamsAreCapped` | `[]StreamCap` | `StreamsInv` |
| `Pm2ControlProofs!TypeCorrect` | `[]ButtonsTypeOK` | `ControlInv` |
| `Pm2ControlProofs!ReportsStayTrue` | `[]ReportsAreTrue` | `ControlInv` |
| `Pm2ControlProofs!TheRightProcessIsHit` | `[]RightProcess` | `ControlInv` |
| `Pm2ControlProofs!ActionsAreExclusive` | `[]OneAtATime` | `ControlInv` |
| `Pm2ControlProofs!NothingStartsLate` | `[]NoLateStart` | `ControlInv` |
| `HubProofs!TypeCorrect` | `[]TypeOK` | `HubInv` |
| `HubProofs!PagesNeverGoBack` | `[]NeverBack` | `HubInv` |
| `HubProofs!KicksAreHonoured` | `[]KickHonoured` | `HubInv` |
| `HubProofs!TracesHaveOneSeam` | `[]TraceHasOneSeam` | `SeamInv` |
| `ActivityProofs!TypeCorrect` | `[]TypeOK` | `ActivityInv` |
| `ActivityProofs!MemoryIsTheFile` | `[]MemoryMatchesFile` | `ActivityInv` |
| `ActivityProofs!ToldEntriesAreSaved` | `[]ToldIsSaved` | `ActivityInv` |
| `ActivityProofs!FileIsAuditLog` | `Spec => AuditLog's Spec`, for the complete lines | `ActivityInv` |
| `LogProvidersProofs!TypeCorrect` | `[]TypeOK` of `HelperLogs` | itself |
| `LogProvidersProofs!EndsAreTold` | `[]EndIsTold` | `StreamInv` |
| `LogProvidersProofs!LogTypesCorrect` | `[]TypesOK` | `DockerType`, `JournalTold`, `ConsoleType` |
| `LogProvidersProofs!FailedLogsTell` | `[]FailuresAreTold` | `JournalTold`, `ConsoleTold` |
| `LogProvidersProofs!ConsoleMissesNothing` | `[]ConsoleComplete` | `Complete` |
| `BotsProofs!TypeCorrect` | `[]TypeInv` of `Snapshots` | itself |
| `BotsProofs!FreshnessIsKept` | `[]FreshnessIsRight` | `TimeInv` |
| `BotsProofs!ActionsAreShown` | `[]ActionIsShown` | `KickInv` |
| `BotsProofs!NamesStayCurrent` | `[]NamesAreCurrent` | `NameInv` |
| `BotsProofs!NamesAreKept` | `NameIsKept` | `NameInv` |
| `BotsProofs!IdsStayTrue` | `[]IdsHoldStill`, whose second half excepts made-up names | `UnitsInv`, with `BindInv` inside `bind` |
| `BotsProofs!BotTypesCorrect` | `[]TypesOK` | `TypeInv`, `FollowType` |
| `BotsProofs!LinesComeOnce` | `[]EveryLineOnce` | `FollowType`, `LineInv` |
| `BotsProofs!NothingComesAgain` | `[]NeverTwice` | `FollowType`, `BytesInv` |
| `PageProofs!OneSocketAlways` | `[]OneSocket` | `Inv` |
| `PageProofs!PageTypesCorrect` | `[]TypesOK` | `Inv`, `ClientTypeOK` and itself |
| `PageProofs!PaneLosesNothing` | `[]NothingLost` | itself, with the types |

With these every invariant that a passing run checks is a theorem.

The type invariants of `Auth`, `Pm2Control`, `Hub` and `Activity`, `StreamsRegistered` (`cl.subs` agrees with the goroutines) and `OneAtATime` (only the
holder of `actMu` acts) are proved and need no run.

- `CodeInv`. That no step was granted twice is not inductive: it also has to be
  known that every granted step is at most `lastStep`, and, for a restart, at most
  the step in the file whenever the last save succeeded.
- `SessionInv`. A removed token could return from the file, so the file must not
  hold one when the last save succeeded; sessions in memory are then a subset of
  those in the file; and revoked tokens were all issued, so a fresh one is not
  among them.
- `RateInv`. What is bounded is failures on record plus logins still running: a
  rejection moves one from the second to the first, and only a login that finds
  fewer failures than the limit adds to the sum.
- `LockHolds` is an action property, and what it needs is about `Prune`: it cuts a list of
  times at its first recent entry, so pruning twice is pruning once with the later cutoff,
  pruning after an append keeps what pruning before it kept, and whatever is recent enough to
  lock stays on record (`PruneCuts`, `PruneTwice`, `PruneAppend`, `PruneKeepsRecent`).
- `StreamsInv`. That an unstopped goroutine is its unit's entry, and that an entry
  names a running goroutine of that unit, need each other: the first keeps
  `Cleanup` from removing a foreign entry, the second keeps a new name from being
  in some entry already. The cap follows by counting entries: the live streams map
  one to one into the subscribed units.

- `ControlInv`. Per press: where it is resolved, which answer goes with which state
  of the call (`Course`), that the process it is aimed at still carries its name
  unless the table moved (`Aim`), and how old it can be (`Timing`). The last links
  the two clocks: a press that acts is at most `Slack` older than the time the lock
  has been held, so the helper's timeout ends it before dashd's does.
- `HubInv`. Every value the units take on their way has an age, and the stations are
  in order: what a poll read is at least what is stored, what is stored at least
  anything in a queue, a queue ascends, and its first value is at least what its
  page has shown in this run of dashd. For the kicks: a request either still lies in
  the channel or is covered by the poll that took it, which reads the units after.
- `SeamInv`. One seam is a statement about the past, so it is turned round: a trace
  and the queue behind it are continued by the sample that is due. `Continues` gives each
  message in the queue the sample expected before it; a hello may only be first, and the
  trace that it brings is without a seam until the first sample that follows.
- `ActivityInv`. That everyone told of an entry finds it in the file needs every
  stage a request or an entry can be in (`Kept`, `Shows`), because each is fed by the
  one before. For the refinement it must be known that a handler that has acted but
  not recorded has no entry yet (`Honest`); this also holds when writes fail, where
  the rest (`Sound`) is given up.
- `StreamInv`. A connection may fail at dashd's own end, and the notice would then be
  a lie; it must be known that this end stays open while the page follows (`Held`). And
  nothing may be said after the notice, so it is the last in the channel from
  the moment it is put there (`NoticeIsLast`).
- `DockerType` is the types, the reader's record taken apart, and that it cuts lines of one of
  its slots. Behind it is that the newline a line is cut at is a place in what has been read
  (`NewlineInside`).
- `JournalTold`, `ConsoleTold`. A notice that is on record was the last step but closing, and
  where journalctl failed, was stopped or ended is known from before it is put until after.
- `Complete`. On a connection that is authorised, every line said so far was heard, waits to
  be put or is on its way (`Coming`), unless a replay is asked for or will be (`Asked`). Each
  half hands over to the other: an expired token stops the lines, its renewal asks for a
  replay, and a replay has every line.

- `TypeInv` of `BotsProofs` adds to the types that nothing has been read from pm2
  before it was asked, and that a reading is no older than pm2 was waited for.
- `KickInv`. A kick that waits no more has begun a snapshot, and what that reads from pm2
  is no older than the action. So at each point of the snapshot, and in the file after
  it, the reading covers the last action whenever no kick waits.
- `TimeInv`. The file's age is bounded at each point of the helper's loop, by how many
  writes failed since: a snapshot begins at the latest when its tick comes, and while no
  tick waits, the time since the last one bounds the wait. `StaleAfter` leaves room for two
  intervals and two waits for pm2.
- `NameInv`. A log that holds a login near its end holds the last; no name is of a login
  that has not been; and what a mark vouches for is the log's.
- `BindInv`, `UnitsInv`. `bind` goes through the processes with a set of ids used so far;
  `BindInv` says of what it has made up to process i what is wanted of all: ids differ, each
  unit is of a process that is listed, each such process has one, and without names that look
  like made-up ids each id is the plain one. That `FreeId` ends with a free id is the
  pigeonhole: among as many candidates as used ids and one more, one is free. `UnitsInv` then
  says that what is on the page was made of some table, and what was sent is what its id
  finds in the table of that moment.
- `FollowType`: the types, and `OpenInv`: as long as the reader is in the file it began with, and
  that was not emptied, its offset lies in that file. An offset, a size and a file come
  from different calls; `OpenInv` says which of them still belong together.
- `LineInv`. What was returned is told from what was read: `LinesTold` says that the lines
  returned are those of the bytes up to the offset, without those before the start, and that
  `partial` is the line that has begun. That a read keeps this is a statement about cutting
  text into lines: of two texts put together the lines are the lines of the first, then those of
  its rest with the second (`InTwoParts`); a text without a newline adds to the rest only
  (`NoLineEnds`); what `open` cuts off before the first newline of its window is whole lines
  (`FromFirstBreak`); so reading on goes on with the lines (`LinesGoOn`), with the cap at
  `maxLogLine` and the skipping of a longer line's remainder in it.
- `BytesInv`. That nothing comes again spans files. `DiskInv`: bytes rise in each file, and
  the file at the path has the newest. `OnceInv`: what is still ahead of the reader, the begun
  line included, is above all that was returned; when the file at the path is another one,
  all of it is. Each case of `poll` then has to show that it goes on in that order, also
  where it starts over.
- `Inv` of `PageProofs` is the types of the page's connection, `OneSocket`, which is
  inductive as it is stated because it also ties the timer to the socket, and the bound on
  sign-ins. `NothingLost` is inductive for states of the right types: a stream's lines are
  appended, a batch takes them from the socket to the screen, and whatever else happens
  (another stream, a closed pane, a lost socket) ends the case it speaks of.

Induction. The library's induction theorems cannot be instantiated here, but every set of
numbers that is not empty has a least element (`LeastElement`, from
`FiniteSubsetsOf` being well founded), and with a set in place of a predicate that gives
induction over a recursive function's argument (`Recursion`) and over sequences
(`SequenceInduction`: a set that has the empty sequence, and with each sequence every longer
one by an element, has all). So what `bind` makes of a table and where
the newlines of a text are (`Breaks`) is proved for every input.

Only model-checked: that docker's, the journal's and the console's logs implement
`LogContract` (`LogsKeepContract`: its safety half would need an invariant for each that counts the
lines on their way; its liveness half is out of reach), and all liveness (`StopEnds`, `DroppedLeaves`,
`Follows`, `StaysConnected`, `Answered`, `Converges`, `CatchesUp`, `SlotFreed`, `StreamsEnd`),
because TLAPS here does not handle fairness (`ENABLED`). The violations are for TLC as
well.

## 5. What is left

Each module states its own properties and is written without RECURSIVE operators.
Modelled are all parts with state that changes under
concurrency, failure or restart. What could follow:

1. The safety half of `LogContract`: for the console, that what was received is what was heard
   and what waits to be put; for the journal, the same with the entries in the pipe; for
   docker, with the lines begun in each stream.
2. The page's guards of a press (arming, holding, the pending action) against the server's
   `action`.
3. `Ring` against a queue of the last n lines; the frame format of rpc.go.

Not modelled, and why:

- List and Do of docker, systemd and pterodactyl: single calls to an external service and
  conversions of what it answers, without state.
- Host statistics, unit descriptions, configuration: read or looked up, sequential,
  no state that a step of another could disturb. The command line is wiring but for
  its shutdown, which `Activity` has.
- Password hashing: taken as perfect. The access list of the control socket: one system call.
- Mock data, embedded files, the page's layout and drawing, deployment scripts.

`PROJECT.json` lists every part with its reason.

## 6. Running

    tlc -workers 2 -config MCAuth.cfg MCAuth
    tlapm AuthProofs.tla

Definitions whose comment begins with "Mutant of" are not part of a model: each is
a plausible mistake in the code, and the property named for it in `PROJECT.json`
fails when it takes the place of the original.
