# A specification of SpringLobby

This directory holds TLA+ modules, TLC configurations and TLAPS proofs for the core of
SpringLobby, the wxWidgets client of the Spring lobby server.  Paths such as `ibattle.cpp:323`
are those of the program's own sources, `src/src/`.

1. [The system](#1-the-system)
2. [Inventory of components](#2-inventory-of-components)
3. [The modules](#3-the-modules)
4. [What the runs check](#4-what-the-runs-check)
5. [Where code and comments disagree](#5-where-code-and-comments-disagree)
6. [What is proved](#6-what-is-proved)
7. [Plan](#7-plan)
8. [What is not modelled](#8-what-is-not-modelled)

How to run (`tlc` and `tlapm` stand for the usual launchers, with the community modules on the
path): `tlc -config BattleHostStart.cfg MCBattleHost`, `tlapm BattleHost_proofs.tla`.

## 1. The system

SpringLobby is one process.  A **GUI thread** runs the wx event loop and nearly everything
happens on it: socket events, the 100 ms server update, menu commands, the one-second battle
timer, the end of the game process.  Beside it run

- a **ping thread**, one per login (`pingthread.cpp`), which sends a command over the same socket;
- **worker threads** (`thread.cpp`) that take jobs from a priority queue: unitsync's asynchronous
  loads, torrent requests, the resource list;
- a **thread that waits for the game process** (`springprocess.cpp`) and posts an event;
- loaders of replays and saved games, HTTP downloads, and the threads of foreign libraries.

A server message travels `Socket` → `TASServer::ExecuteCommand` → `ServerEvents` →
`Server`/`Battle`/`User` (the registry and bookkeeping) → `Ui` (the windows).  Commands go the
other way: windows → `Battle` → `TASServer` → `Socket`.  The server echoes many of the client's own
commands back as messages, so the same bookkeeping is written from two sides.

Two things make this program hard although it has a single GUI thread:

- **nesting.** A handler may open a modal dialog, and the dialog runs the event loop: messages,
  timers and socket events are handled in the middle of another handler, which then goes on with
  what it had read.
- **echoes.** What the host does is confirmed by messages that arrive later and in between other
  messages, and counters are maintained partly by increments, partly by recomputation.

## 2. Inventory of components

For each: state, operations, interaction, what is hard, what makes it correct.  `PROJECT.json` has
the full list with the sources and the state of the work, and the hazards, each at its line.

**Battle bookkeeping and host duties** (`ibattle.*`, `battle.*`, `user.*`).  State: the users and
bots with their battle status, `m_opts` (founder, lock, number of spectators, rank limit),
`m_players_ok`, the sizes of teams, `m_ready_up_map`, `m_ingame`.  Operations: the messages
JOINEDBATTLE, LEFTBATTLE, CLIENTBATTLESTATUS, ADDBOT, UPDATEBOT, REMOVEBOT, UPDATEBATTLEINFO,
CLIENTSTATUS, BATTLEOPENED, BATTLECLOSED; the user's ready, start, lock, spectate, leave; the
timer.  Hard: counters compared with counts that others change; unsigned arithmetic; the host acting
by itself (automatic start, automatic spectating) on state that is on its way.  Correct: nobody is
started over, nobody is made to spectate too early or never, the counts mean what they say.

**Teams, allies and balance** (`battle.cpp`, `autobalancedialog.cpp`).  State: team, ally and colour
of each player, the balance lock.  Operations: free team, fix ids and colours, balance by rank and
clan, forcing back of changes.  Hard: forced changes are echoed as changes; players that share a team
are dealt as one; the ids are fixed before the alliances are made of them.  Correct: ids are
distinct where they must be, divisions even, clans and teams together, the forcing stops and the host
has its way.

**Start boxes and host information** (`ibattle.cpp`, `tasserver.cpp`, `mapctrl.cpp`,
`autohost.cpp`).  State: boxes with added/removed/resized marks; map, lock, options.  Operations: edit
by mouse, by command, by choosing a map or a profile; send the difference, take the server's echo.
Hard: marks and indices change while the difference is sent; the echo of an older value overtakes a
newer local one.  Correct: an unmarked box is the server's box; nothing stays unsent; in the end both
sides agree.

**Lobby connection and session** (`tasserver.*`, `server.cpp`, `ui.cpp`).  State: `m_connected`,
`m_online`, `m_redirecting`, `m_last_denied`, the ping thread, the registry, the wish to join a
battle through NAT.  Operations: connect, login, denial, redirect, loss, disconnect, reconnect; join
and host a battle.  Hard: a disconnect calls back into a dialog from which a connection is made; a
join waits for the first of an answer and a time-out.  Correct: thread, list of pings and registry
belong to the present connection and end with it; a join is sent once.

**Relay host** (`tasserver.cpp`).  State: the manager that was asked, the bot it named, the delayed
OPENBATTLE.  Operations: ask, take the answer, meet the bot's login, its battle, its end.  Hard: four
messages of three senders in any order, over a connection that may end.  Correct: the bot that was
named gets the command, once.

**Ping thread** (`pingthread.*`, `mutexwrapper.h`).  State: the last command number and the list of
pings, shared with the GUI thread through references that outlive their lock.  Correct: both threads'
commands leave whole, with the ids the server expects.

**Socket** (`socket.*`).  State: the wx socket, the send buffer, a rate budget of 800 bytes.
Correct: commands leave whole and in order, no faster than the server allows, and leave at last.

**Registry of users, battles and channels** (`server.cpp`, `userlist.cpp`, `battlelist.cpp`,
`channel/`, `serverevents.cpp`) with the **battle room and the battle list** (`mainjoinbattletab.cpp`,
`battlelisttab.cpp`).  State: objects that point at each other, and the battle that the room shows.
Operations: arrivals, departures, openings, closings; join, leave, host.  Hard: loops over lists that
shrink; a server that takes leave of a user in one message or in four; answers that come when the user
has gone elsewhere.  Correct: no pointer outlives its object, lists and pointers say the same, the room
is where one is.

**Start and end of the game process** (`spring.cpp`, `springprocess.cpp`, `ui.cpp`).  State:
`m_running`, the process object, the in-game flag.  Correct: the lobby says "in game" exactly
while a game runs.

**Worker thread** (`thread.*`).  State: the heap of items, a semaphore, `m_must_exit`.  Operations:
`DoWork`, `Cancel`, `Wait`, `Entry`.  Hard: lost wake-ups, cancelling what is being taken, ending
while asleep.  Correct: it is a pool that runs each item once, by priority, and ends.

**Map selection** (`mapgridctrl.*`, `mapselectdialog.cpp`).  State: four containers of maps (shown,
unused, filtered, pending), counters of fetches, two pointers into the grid.  Operations: lists,
filter, mouse, painting, results from unitsync's worker.  Hard: results of an earlier question
arrive after the next one was asked; each result triggers the next fetch.  Correct: what was asked
for is there at last, and what is on the screen with its picture.

**Unitsync access and caches** (`springunitsync.*`), **torrents** (`torrentwrapper.*`), **HTTP
downloads and updater**, **replays and saved games** (`playback/`), **autohost commands**
(`autohost.cpp`), **map and mod options**, **script reading and writing**, **user actions and
groups**, **settings**, **chat**, **windows, widgets, sound, SpringSettings, checksums, start-up**: see
section 8 for those that stay out, section 7 for those that are planned.

## 3. The modules

| module | kind | models |
| --- | --- | --- |
| `BattleHost` | component | one open battle as a client (host or member) keeps it |
| `BattleHost_proofs` | proofs | six theorems about `BattleHost` |
| `MCBattleHost` | constants | the statuses that players report in the runs |
| `JobPool` | abstract specification | what a pool of jobs promises to its owner |
| `WorkQueue` | component, refines `JobPool` | the worker thread, its owner, the queue between them |
| `MCWorkQueue` | constants | the priorities |
| `MapGrid` | component | the map selection dialog's grid and its fetches |
| `MapGrid_proofs` | proofs | four theorems about `MapGrid` |
| `MCMapGrid` | constants | the lists of names and the filters |
| `Session` | component | the connection to the server, the GUI thread's nested calls, the ping thread |
| `Threads_proofs` | proofs | four theorems about `WorkQueue`, the refinement among them, and three about `Session`: the two components with threads of their own |
| `Pipe` | abstract specification | what a connection promises to the commands given to it |
| `Outgoing` | component, refines `Pipe` | `SendCmd` on two threads, the send buffer and its rate limit |
| `Outgoing_proofs` | proofs | three theorems about `Outgoing`, the refinement among them |
| `Joining` | component | joining through NAT, and hosting with a relay bot |
| `Joining_proofs` | proofs | two theorems about `Joining` |
| `HostInfo`, `MCHostInfo` | component, symmetry | map, lock and start boxes of the host and what the server has of them |
| `HostInfo_proofs` | proofs | three theorems about `HostInfo` |
| `Registry`, `MCRegistry` | component, names | users, battles, a channel and the battle room as the server's messages make them |
| `Registry_proofs` | proofs | four theorems about `Registry` |
| `Balance` | functions | `Battle::Autobalance` and `Battle::FixTeamIDs` |
| `BattleTeams`, `MCBattleTeams` | component over `Balance`, constants | teams and allies of one's own battle, the balance lock and its echoes |
| `BattleTeams_proofs` | proofs | three theorems about `BattleTeams` and the algorithms of `Balance` |

Which module composes which: `BattleTeams` extends `Balance`; `Outgoing` and `WorkQueue` instantiate their
abstract specifications.  The other components meet in the program through a few values, and each module
says in its environment what the others may do to it: `Session` numbers the connections that `Outgoing`
and `Joining` count; `Registry` decides who is in the battle whose bookkeeping is `BattleHost`, whose
teams are `BattleTeams` and whose map and boxes are `HostInfo`.

Where a definition would be a plausible bug in the code (`OkStays`, `PostNothing`, ...) it is marked
*mutant*: no action uses it; replacing the definition it is a mutant of by it must break a property.

### BattleHost

The handlers of server messages, the user's commands and the timer are one action each, because each
runs to completion on the GUI thread; the exception is `BattleRoomTab::OnStart`, whose question "force
start?" is a modal dialog: `OnStart` sets `asking`, `OnForceStart` is the answer, and every other
action may come between.

| variable | code |
| --- | --- |
| `users` | `UserList::m_users` of the battle, with the bots |
| `status` | `UserBattleStatus`: spectator, ready, sync |
| `spectators`, `playersOk` | `m_opts.spectators`, `m_players_ok`, both unsigned: arithmetic is modulo `UINT` |
| `readyUp` | `m_ready_up_map`, as the ticks since the stored time |
| `ingame`, `locked` | `m_ingame`, `m_opts.islocked` |
| `spring`, `meInGame` | `Spring::m_running`, the own in-game status |
| `asking` | the dialog is open |
| `sent` | FORCESPECTATORMODE, UPDATEBOT and KICKFROMBATTLE on their way, with the reason |
| `idle`, `blame` | history, read by no action: how long a guest has really been active and not ready; what the last automatic start went over |

Two code facts that are easy to lose in a model and are kept: the status in CLIENTBATTLESTATUS and
UPDATEBOT never says that it is a bot's, so the rank limit and the ready-up map treat bots as
players; and the sync state is an unsigned number with three values that is tested as a boolean.
Left out: `m_players_ready` and `m_players_sync`, which nothing reads; teams, allies, colours and
options; the spam check that may kick a player who changes its status too often (a kick is
`OnUserRemoved`); the address test of `CheckBan`, which is the set `Banned`; the setting of relay
hosts (`IsProxy` is false).  `Spring::Run` may fail for its own reasons, and refuses while a game
runs, as with the default launch method.

Abstractions of the environment: the server may deliver any message about any player at any time
(it is not trusted to be consistent), except that it does not add a bot twice to the host's own
battle and does not remove the founder without closing the battle; a command in `sent` is obeyed,
and dropped when its object is gone.

### JobPool and WorkQueue

`JobPool` is what a caller of the worker sees: jobs are submitted, run once each in order of
priority, may be cancelled until they begin, and after `Close` at most one more begins and all that
wait are dropped.  `WorkQueue` is the code: the GUI thread pushes an item under the lock (`Push`) and
posts the semaphore in a step of its own (`Post`); `Cancel` reads the item's back pointer without the
lock and takes the lock later (`Remove`); `Wait` sets a plain `bool` (`Wait`), posts (`PostExit`) and
joins (`Join`).  The worker's program counter `pc` follows `WorkerThread::Entry`: `Test` the loop
condition, sleep (`Woken`, `SleepTimeout`), `Check` `TestDestroy`, `PopNext`, `RunItem`, and
`DropLeftover` in the second loop.  The refinement mapping is `Job`: an item's abstract state is read
off the queue, the worker's `item` and the history `fate`; `closing` is `m_must_exit`.

The constructor of `WorkItem` does not set `m_queue`; no code calls `Cancel` on an item that was
never submitted, so the model does not either.

### MapGrid

The state of the control is one record `grid`, since each handler passes it through several of the
control's functions: `Clear`, `AddMaps`, `AddMap`, `Filter`, `UpdateAsyncFetches`, `FetchMapInfo`,
`FetchMinimap`, `SetMinimap` are operators from control to control (or to the set of possible
controls), and the actions compose them as the handlers do.  `OnGetMapExAsyncCompleted` decrements,
adds, fetches more and queues the "completed" event, in that order.  A fetch is one stage from the call
to the handler of its event; `infos` and `images` hold the fetches in flight, and results may come in
any order (the worker takes items by priority).  `visible` is the set of maps on the screen, `refresh` says
that a paint event is due: `Rearrange` stands for what changes the list or its order and refreshes, `Scroll` for
dragging and resizing, `Expose` for the window system.  `OnPaint` draws what is visible and nothing else, and only
when it was asked to; a map beyond the edge may stay without a picture until the user scrolls to it.  Left out: the
order of the maps and the coordinates (where the code takes the first that lacks a picture the model takes any; of
the list any maps may be on the screen, `Tiles` at most, and some if there are any, as `CheckInBounds` has it),
and labels.  A fetch of information fails for `Missing` maps; a picture never fails, since unitsync
makes a 1×1 image (`springunitsync.cpp`).  Choosing all, popular or recent maps does not apply the text
filter, in the code and in the model.

### Session

`todo` is the stack of the GUI thread: the calls that are still to be executed, the next one first.
`Ui::Disconnect`, `TASServer::OnDisconnected`, the dialog of `Ui::ConnectionFailurePrompt`,
`Server::OnDisconnected`, the end of `Socket::Disconnect` and `TASServer::Connect` are its
steps.  The event loop runs when the stack is empty or the dialog is on top (`Listening`); socket
events, the timer and the lines of the server are handled then.  The ping thread acts between any
two steps.  `session` numbers the sockets, so that `pings`, `pinglist` and `users` can
say which connection a thread, an entry or an announced user belongs to.  `retry` is history.

`TASServer::OnDisconnected` empties the list of pings and joins the thread afterwards, so the
thread's last entry may survive (`pinglist' = {pinger}`); `TASServer::Connect` resets the flags but
does not touch the thread.  The password question of `Ui::Reconnect` is left out (a cancelled question
is a command not given), and so are registration and the agreement.  An event of the socket that is
pending is handled before the next line and before the user's next command.  The user may give any
command at any time, also before the login is over.  `nested` is history: it becomes true when a line,
the timer or the answer "Yes" is handled under a dialog that a call of `Socket::Disconnect` had opened.

### Pipe and Outgoing

`Pipe` promises to each connection that the server gets a beginning of what was given, in order.
`Outgoing` is the code.  The GUI thread and the ping thread go through `TASServer::SendCmd` one access
at a time, since `GetLastID` and `GetPingList` return references that outlive their lock: `Test` of
`m_id_transmission`, `Load`, `Store` and `Read` of the last id, `SendStep`, which is `Socket::Send` under
the socket's lock.  `Write` is `Socket::_Send` after the append: some of what the limit allows goes out.
`OnTimer` lets the budget leak and sends the rest.  `Connect` clears the buffer and keeps the budget, as
the code does; `Disconnect` sends EXIT first; `OnLost` goes to `Reset` at once; `Joined` waits for
the ping thread.  A command is `Size` chunks, so a limit can cut it.  `log` and `level` are history:
the commands given, and a bucket that is filled by every write on any connection.

Two commands may get the same id here as in the program; only a PONG is matched by its id, and `Session`
follows the list of pings.

### Joining

`JoinBattle` of a battle behind NAT notes the wish, the time and the id; `UdpSourcePort`, or `Update`
after the time-out, carries it out (`FinalizeJoinBattle`).  `Update` pings again every `m_keepalive`
seconds from the same stamp that the time-out reads.  `HostBattleRelayed`, `ManagerSpawns`,
`ManagerAnswers`, `OnAddUser`, `OnBattleOpened` are the stations of a relayed battle.  On leaving,
disconnecting or logging in again the code forgets neither the wish nor the bot nor the delayed command,
and neither does the model.  `served`, `wishCall` and `waited` are history.  Left out: which manager
is asked, and who else joins.  A bot that logs in before the manager's answer has told its name gets nothing,
until it logs in again: `RelayServed` does not speak of it.

### HostInfo

One battle of this client's own, or one that a relay bot founded for it (`proxy`): in the second the
server tells the client of its own changes to boxes as well.  The actions are the host's edits: lock, map,
profile with its boxes, saving of the map's layout, the mouse (down on a corner, move, up) and
`!addbox`, each with the call of `SendHostInfo` it makes; and the three messages that come back.  `rects`
has for each index a place and the mark that `SendHostInfo` would look at first.  `LookedAt` is the set of
indices its loop comes by: those up to the last that has a box.  What one such loop sends is a `Batch`, a
function from indices to the places a box gets one after the other; the boxes come back one by one, in the order
of their indices (`ReceiveBox`).  `!addbox` with
no box makes the index -1: `running` becomes false, and nothing happens any more (section 5).  Options are left
out; all maps are installed.

### Registry

`reg` is what the client knows: users, battles with founder and members, the pointer of each user to
its battle, the battle of the battle room, one channel.  Each handler is an operator from registry to
registry (`OnNewUser`, `OnUserQuit`, `OnBattleOpened`, ...), each message an action that takes the head of
`in`.  `srv` is the truth: the server acts on commands at once and its news take time.  On a logout it may
send LEFTBATTLE, BATTLECLOSED, LEFT and REMOVEUSER, or REMOVEUSER alone (`Farewells`), because the
client has code for each.  The loop over a quitting founder's users that passes over every other one
is `EverySecond`: the users are listed by name (`Rank`).  The bots that `Battle::Leave` comes across, while
it erases from the list it walks over, are every second of those that follow each other (`Met`).  The initial states are all small worlds in
which nothing is on its way.  Left out: the modal questions on the way into a battle, passwords, further
channels.

### Balance and BattleTeams

`Balance` has the two algorithms as functions from statuses to sets of outcomes, since both shuffle:
`Divide` deals clans and then players to the side with the lowest sum of ranks, `Autobalanced` deals one
player per team and moves the others along, `DistinctIds` and `SharedIds` are the two branches of
`FixTeamIDs`.  The loops over clans, players and users are recursive functions of the number of steps done.
`RankSum` counts ranks in sixtieths: sixty for each player and one for each step of a rank.  `Alliances` goes to the number of boxes, not to the last
of their indices, as the code does.

`BattleTeams` runs them in a battle of one's own.  `local` is what the host has, `server` what the server
has, `news` the statuses that come back.  `ForceNumber` is `TASServer::ForceTeam`/`ForceAlly`: a guest's field is
set at the server, a bot's and the own status is sent whole and through four bits (`Wire`).  `ForceUser`
forces one number or both, `ForceAll` is the loop over the users.
`OnUserBattleStatusUpdated` forces back what differs while the balance is locked.  The start of the game runs
`FixTeamIDs` and then `Autobalance`, in that order.  The room is fixed in a behaviour: joining, with
`GetFreeTeam`, and colours are left out; spectators echoed in UPDATEBATTLEINFO are in `BattleHost`.
Without the lock a late echo followed by another change of one's own sends the older team back, which
`HostDecides` therefore says only of locked battles.  `wanted` and `asked` are history.

## 4. What the runs check

| run | configuration | properties | shows |
| --- | --- | --- | --- |
| `host_start` | `BattleHostStart` | `TypeOK`, `AutoStartReady` | a host with automatic start, a guest, a bot below the rank limit: whatever the order of messages, an automatic start goes over an unready player only while a bot spectates |
| `host_spec` | `BattleHostSpec` | `HostCountsOk`, `GraceTimes`, `AutoSpecAfterGrace`, `AutoSpecWorks` | automatic spectating after two ticks: the count of ready players and the ready-up times follow joins, updates, removals, games and ticks in every order; a guest that does not get ready becomes a spectator, goes, or the game starts |
| `member` | `BattleHostGuest` | `StartsWithBattle` | a member starts the game process only while the battle is in game |
| `work` | `WorkQueue` | `WorkerTypeOK`, `NoLostWakeUp`, `NothingLeft`, `ImplementsPool`, `Served`, `WaitReturns` | the worker implements the pool; no wake-up is lost; what is submitted is served without an hour's time-out ever passing; `Wait` returns |
| `grid` | `MapGrid` | `ControlSound`, `NothingLost`, `MapsSound`, `StaleBounded`, `AllLoaded` | the map grid under changing lists, filters, scrolling and mouse, with results in any order and a map that is not installed: nothing is lost; when the user leaves the dialog alone, all information arrives, and a picture for each map on the screen |
| `session` | `Session` | `PingsArePresent`, `DestroyAlone`, `FreshUsers`, `EndsClean` | over three connections, thread, pings and registry belong to the present one and end with it, unless `nested` |
| `session_retry` | `SessionRetry` | `RetryConnects` | violated: section 5 |
| `outgoing` | `Outgoing` | `StreamSound`, `IdsWhereWanted`, `ImplementsPipe`, `Flushed` | two threads send through the limit over two connections: each is a pipe, the rate is kept over both, LOGIN and JOIN carry no id and the GUI thread's other commands do, the buffer is sent at last |
| `joining` | `Joining` | `CallsSound`, `NoEarlyTimeout`, `JoinGoes`, `RelayServed` | each call to join or host leads to its command once at most, whatever answers come late or in the next connection; the time-out is not early, a join through NAT does not wait for ever, nor does a relayed command if the bot's name is known before it logs in |
| `host_info` | `HostInfo` | `InfoAgrees`, `BoxesAgree`, `MarksSound` | after the echoes host and server agree on map, lock and boxes; nothing but a drag of the mouse leaves a box unsent |
| `registry` | `Registry` | `ObjectsSound`, `KnowsTheWorld`, `RoomIsMine` | no pointer outlives its object; pointers and lists agree; in the end the client knows who is where and shows the battle it is in |
| `teams` | `BattleTeams` | `HostRules`, `StartIsFair`, `Settles`, `BalanceKeepsTogether` | the forcing back ends and leaves what the host chose; a game starts with distinct teams and even alliances; a balance tears neither teams nor strong clans apart |

Some properties are conjunctions of named parts, the type invariant of the module among them, so that a
run asks one question by one name: `ControlSound`, `NothingLost`, `MapsSound`, `PingsArePresent`,
`StreamSound`, `CallsSound`, `MarksSound`, `ObjectsSound`, `KnowsTheWorld`, `HostRules`.

**Bounds.**  *BattleHost*: one or two guests and at most one bot.  The counters are compared with
counts of these sets, so an error by one shows with one player too many or too few; a bot is needed
because it is a user that is not a player.  `Trigger = 2` gives the ages none, 0, 1, 2 and "late", more
than `OnTimer` tells apart.  One guest is enough in `host_spec`: its three safety properties are proved for
all values, and the liveness of one guest does not depend on another.  `UINT = 6` is more than any count of
players, so a wrapped value is never mistaken for a count.  `EchoCounts` lets UPDATEBATTLEINFO carry a
right and a wrong number of spectators.  *WorkQueue*: four items, two of them of the same
priority and two that may be cancelled; the queue never needs to be longer for the worker to be late, early
or in the middle of an item.  *MapGrid*: four maps, one not installed, a list with repeated names (two
battles play the same map), limits of two for information instead of the code's 5 (`MAX_MAPINFO_FETCHES`,
`mapgridctrl.cpp:30`) and of one for pictures instead of 2 (`MAX_MINIMAP_FETCHES`, `:28`): the three
installed maps are more than either limit, so names wait and results overtake each other; two of them fit on the screen (`Tiles`), so one may be beyond
the edge, and one has to wait when they are drawn.  *Session*: three connections: one before, one now,
one made while the end of the one before is still being handled.  *Outgoing*: commands of two chunks, a limit
of three and a refill of one, so the limit cuts a command in every possible place; two commands for each of
two connections, so each thread can send while the other does, and a buffer can be left behind.
*Joining*: a battle behind NAT, an open one, one relay bot, two calls, two connections: a call can overtake
another one or be answered in the next connection; the time-out is 0 and the keep-alive 1, which keeps their
order.  *HostInfo*: two maps, two places, three indices of boxes (a last one, one before it, and one between
that may be missing), four edits.  *Registry*: two other users, two bots, two battles, all worlds in which
nothing is on its way, and three events from there; a quitting founder's battle with two bots and two users has a
loop that skips.  *BattleTeams*: founder, guest and bot, two changes, `Slots = 3`, as many as players: with more
players than slots the forcing does not end (section 5); boxes 1 and 2, so that the loop over the boxes
stops before the last.

**Fairness.**  `BattleHost!FairSpec`: the wx timer fires, time passes, the server obeys
FORCESPECTATORMODE; nothing is assumed of the guests or of the user.  `WorkerFairSpec` of `WorkQueue`: a
thread that can go on does, and a work item's `Run` returns; the sleep of an hour need not end by
itself, nothing has to be submitted, nobody has to call `Wait`.  `MapGrid!FairSpec`: queued events
are handled, unitsync answers, and a paint event that is due is delivered, which wxWidgets does for a window
that is shown (the fairness of `Results` is written out with `ResultsToCome`, which is what enables it); nothing has to be exposed or scrolled to.  The user may do anything, and `AllLoaded` promises
something only once the user stops, and pictures only for the maps that are then on the screen.  `Session!FairSpec`: the GUI
thread goes on and handles the events it has; nobody has to answer the dialog, so `EndsClean` also says
that after the loss of a login nothing waits for an answer.  `Outgoing!FairSpec`: both threads run, and the
timer that writes something does so again and again (strong fairness: the GUI thread may be busy
between, and the system may take nothing at one call); a connection may be lost at any time.
`Joining!FairSpec`: the server update runs, time passes, and a spawned bot logs in; no answer ever has to
come.  `BattleTeams!FairSpec`: the statuses that the server sent are handled.

**Deadlock** is off where the model stops by itself: in `work`, where owner and worker are both finished
after `Join`; in `outgoing`, `host_info`, `registry` and `teams`, where everything begins with something the
user or others do, of which there is a bounded amount (`MaxCmds`, `MaxEdits`, `MaxEvents`, `MaxChanges`), and
where in `host_info` the endless loop stops everything.  It is checked in all others.

## 5. Where code and comments disagree

A run states what a comment says and TLC refutes it with what the code does:

- `session_retry` (`socket.cpp:149`).  When the user disconnects after the connection was made and
  before the login was accepted, `Socket::Disconnect` calls a handler that asks "try again with the same
  server" (`ui.cpp:655`).  "Yes" makes a new socket; when the calls return, line 151 destroys that
  one, and no connection is left.  The same nesting lets a login that arrives under the dialog start
  a ping thread whose socket is then destroyed.  The properties of `session` except exactly these
  histories (`nested`) and hold in all others.

Further disagreements, which the models contain and the properties are worded around:

- `ibattle.cpp:265`.  `GetNumActivePlayers` takes users minus bots minus `m_opts.spectators`, and the last
  counts spectating bots too.  With a spectating bot, `IsEveryoneReady` is true one player early and the battle
  starts by itself over an unready player; `battleroomtab.cpp:202` promises "when all players are ready and
  synced".  `AutoStartReady`, which holds, says that this is the only way.
- `ibattle.cpp:292`.  `SYNC_UNSYNCED` is 2, and `loopstatus.ready && loopstatus.sync` is true for it: the
  automatic start goes over a player with the wrong content.
- `ibattle.cpp:343`.  After this client left a battle (`OnSelfLeftBattle` zeroes the counters) a ready player
  that leaves is still subtracted, and the unsigned `m_players_ok` ("players which are ready and in sync",
  `ibattle.h:422`) becomes 4294967295.  `HostCountsOk` speaks of the host.
- `battle.cpp:690` says that `FixColours` "Never changes color of founder (me)"; when a guest shares the
  founder's team, line 713 gives the founder the guest's colour.
- `battle.cpp:976`.  Teams have four bits in a status (`tasserver.cpp:84`).  With more players than
  teams, a forced team comes back as another one, is forced again, and so on without end; `Settles` holds while
  the numbers fit.
- `battle.cpp:825`.  The loop that counts the alliances of the start boxes goes to the number of boxes: with
  boxes 1 and 2 only, box 2 gets no players and an alliance without a box does.
- `serverevents.cpp:407`.  The echo of an older map replaces a newer choice of the host, and an
  unrelated command, such as the lock, then sends the older one.  Both sides agree in the end, on the older
  map.
- `tasserver.cpp:1587`.  `!addbox` with coordinates and no box in the list asks for index -1, which as an
  unsigned number is the last index of the loop: it does not end.

## 6. What is proved

Checked by TLAPS with Z3, Zenon and LS4, for every value of the constants that satisfies the
assumptions named in the modules.

**`BattleHost_proofs`** assumes `NamesAssumption` (the sets of players are finite and disjoint),
`OptionsAssumption`, `CounterAssumption` (there are fewer players than values of an unsigned int) and
`InputAssumption`.

- `TypeCorrect`: `TypeOK` is inductive by itself.  `NextHandlers` and `StepKinds` sort the actions:
  each step is a handler observed without a tick, or a tick; a handler is a join, a status update, a
  removal, or leaves the guests' statuses alone (`SameGuests`).
- `HostCountsCorrect`: by cases over `StepKinds`; a status update recomputes the count, a removal takes
  one away from a count that includes it (so the subtraction cannot wrap: `MinusExact`), anything
  else touches only the host's own row, which accounts for the "one more" of the property.
- `AutoStartCorrect`: rests on the counting lemma `EveryoneReady`: if no bot spectates, as many
  ready players as active ones means that none is unready, since the ready are a subset of the active
  and both are finite.
- `GraceCorrect` and `AutoSpecCorrect`: `GraceTimes` is not inductive, since a player's stored time is
  met again when the player comes back: the invariant `GraceInv` adds that a guest's history `idle` is
  set exactly while the guest is active and not ready (`IdleMeans`), and that a guest in the room that is
  ready or spectates has no stored time (`ReadyUpInv`), or its next break would inherit an old one.
  `AutoSpecCorrect` is the action property over that invariant.
- `StartsCorrect`: the action property `StartsWithBattle`, by cases over the three ways to start.

**`Outgoing_proofs`** assumes `OutgoingAssumption` (a command has chunks, the limit and the refill are
positive).  The inductive invariant `IInv` has the properties themselves and what they rest on.
`InOrder` and `RateKept` need `BudgetIsLevel`: the budget `m_sent` is exactly the level of the bucket,
because a new connection keeps it.  `IdsWhereWanted` needs `IdsOn` (the ids are off exactly while the GUI
thread is inside a plain command) and `IdsRead` (where the GUI thread is about to read the last id, that is
at least 1, whichever thread wrote it).  The lemmas `CutChunks` and `MoreChunks` say what a write and a
new command do to a sequence of numbered chunks; `WriteResult`, `SendResult` and `TimerResult` say it of
the variables, and each is used twice: for the invariant and for the refinement.  `IInvStep` treats the
stream, the threads and the link apart (`Parts`), since most actions leave two of them alone.
`StreamCorrect` and `IdsCorrect` follow; `PipeCorrect` maps `SendStep` to `GiveAndDeliver`, `OnTimer` to
`Deliver`, `Connect` to `Renew` and everything else to a stutter.

**`Joining_proofs`** assumes `JoiningAssumption` (the time-out is shorter than the keep-alive, as in
`tasserver.cpp`).  The inductive invariant says where a call can be: a wish behind NAT and a delayed
command of a relay bot belong to different calls, each of them made and not yet served, so that
serving one cannot serve the other again (`CallsInv`); the stamp that the time-out reads is not older
than the wish, since the pings that keep the hole open only renew it (`WishInv`); and between two connections
nobody is told anything (`LinkInv`).  `CallsCorrect` and `TimeoutCorrect` follow.

**`Threads_proofs`**, on `WorkQueue`, assumes `WorkQueueAssumption` (finitely many items with integer
priorities). The inductive invariant `WorkerInv` is `WorkerTypeOK` with three parts: `ItemsApart` (an item in the queue or running has
no fate yet, and the running item is not in the queue), `Ending` (`m_must_exit` is set exactly from `Wait`
on, the worker leaves its main loop only then, stops only with an empty queue, and nothing is dropped
before) and `Awake` (wherever the worker may fall asleep, work to do comes with a permit or with an owner
about to post). From it follow `WorkerTypeCorrect`, `WakeUpCorrect` and `NothingLeftCorrect`. `PoolCorrect` is the
refinement: `PoolInit`, then each step is mapped — `Push`, `RunItem`, `Remove` and `Wait` by `OneBecomes` or
directly, `PopNext` by `PopBegins`, `DropLeftover` by `LeftoverDrops`, and every other step by `Stutter`.

**`Threads_proofs`**, on `Session`, assumes `SessionAssumption`. The GUI thread's nested calls are a stack (`todo`), which
can grow without bound once something is handled under a dialog that `Socket::Disconnect` had opened. The
point of the proof is that without that (`~nested`) it cannot: `IInv` is `Always` (the types, and that at
most one "connect" is on the stack, however deep it is) and, unless `nested`, `Orderly`: the stack is one of
the finite set `Stacks`, which are sorted by what the thread is about to do, and for each of these
`ThreadInv`, `UsersInv` and `SocketInv` say what the ping thread, the registry and the socket are.
`PingsCorrect`, `DestroyCorrect` and `UsersCorrect` follow for any number of connections.

**`HostInfo_proofs`** assumes `HostInfoAssumption` (the bounds are numbers, "nowhere" is no place). `IInv`
relates the host, the server and the messages between them: for each box, the last message on its way about
it says what the server has, and if there is none, an unmarked box is the server's already (`BoxLink`); the
same for map and lock (`InfoLink`); and if every map on its way is the one that the host heard of last, the
map that it shows is that one (`MapLink`), which is why an echo of an old map that replaces a newer choice
still ends in agreement. `SendBox` says what `SendHostInfo` makes of one box, `SendLink` of all of them,
`ReplaceLink` of a map's or a profile's; `TakenAgrees` and `TailOther` take a message off. `InfoCorrect`,
`BoxesCorrect` and `MarksCorrect` follow for any numbers of maps, places, boxes and edits.

**`Registry_proofs`** assumes `RegistryAssumption` (the names are finitely many, `None`, `Me` and the bots
are apart, `Rank` orders the names, `MaxEvents` is a number). The client is late, so its registry can be
compared only with a world of the past. `IInv` (theorem `Invariance`) says that there is one: the server's
own world is `Sound`, the registry `Shows` some world w, and the messages under way `Leads` from w, each
`Heard` in the world it finds, to a world that `Agrees` with the server's. A lemma `...Shown` for each
handler says that a shown world becomes the next one; a lemma `...Brings` for each doing of the server says
that its news lead on to its new world (`BringsOn` composes several). When the user leaves the battle room
by a click, the registry changes with messages still under way, and every world on the way must change with
it: `Faded` is that change, and `FadedLeads` and `LeaveShown` say that the messages lead through the faded
worlds too. `ObjectsCorrect`, `WorldCorrect` and `RoomCorrect` follow for any users, bots and battles, and
any number of events.

**`MapGrid_proofs`** assumes `MapGridAssumption` (finitely many maps, lists of their names, limits of at
least one). That only maps are on the screen is an invariant of its own (`DrawnStays`). The properties are said of a control rather than of the variable, because a handler takes the
control through several methods and not all of them hold in between: `Sound` holds after every method,
`Waits` (a name waits only at the limit) is lost when a result is taken off and restored by
`UpdateAsyncFetches`. There is a lemma per method (`Fetched`, `Added`, `Cleared`, `Filtered`, `Pictured`,
`Updated`) and one per arrival (`Arrived`, `PictureArrived`). `StaleBounded` is not inductive. `Few` adds
that only names of the present list wait, since `Clear` empties `m_pending_maps`, and counts with the stale
maps in the grid the fetches that may still bring one: a result makes the first number one more at most, and
then the second one less (`OldLess`). `Those` (the names that `AddMap` has to fetch, in their order) has its
lemma `ThoseElements`: ranking the positions is an injection between sets of equal size, so each rank is
taken, which needs no induction. `ControlCorrect`, `AskedCorrect`, `MapsCorrect` and `StaleCorrect` follow
for any lists, filters and limits.

**`BattleTeams_proofs`** assumes `BalanceAssumption` (a list of users without repetitions, a list of the
clans, ranks from 0 to 6, finitely many boxes) and `TeamsAssumption`.

- *The loops.*  The algorithms go over the list of users, that of the clans, and the players still to be
  dealt.  Induction comes from the well-foundedness of the numbers, used with sets: a set with 0 and, up to
  a bound, with the successor of each of its numbers has all numbers up to the bound (`NumbersUpTo`).  Each loop
  has a lemma that its recursive function exists (`ForceLoop`, `ClanLoop`, `PlayerLoop`, `TakeLoop`) and lemmas
  about the set of the steps after which something holds: `ForceAllKeeps` and `ForceAllLocal` say what
  forcing a number on many users leads to, `DealClansAre`, `DealPlayersAre` and `DivideDeals` that a deal gives each
  player a side and a clan one side, `DistinctIdsAre` that no two players get one team.
- `HostRulesCorrect`: the properties speak of moments when nothing is under way.  The inductive invariant
  `TeamsInv` says of every moment that each user is `Informed`: the last of its statuses under way is what
  the server has, or there is none and the host has that; and that a locked host has what it chose.  Forcing a
  number sends news of that user and leaves the others informed (`CommandTells`, `ForceTells`).  When the first of
  the news is handled, the user has either more news, or what is forced back, or nothing under way and the
  server's status (`OneLess`, `UpdateKeeps`).
- `BalanceKeepsTogetherCorrect`: each team of players has exactly one representative (`OneRepresentative`), so
  the players of a team get what it was dealt (`AutobalancedAre`); strong clans are dealt whole
  (`StrongClansAreDealt`).
- `StartIsFairCorrect`: `StartIsFair` holds of every state with no more than twenty players.  A comment says of
  the ranks "them are quasi equal so we're essentially adding to alliance with smallest number of players"
  (`battle.cpp:938`), and `LowestHasFewest` says how far that goes: the sum of a side is between 60 and
  66 for each player, so while no side is more than one ahead the lowest sum belongs to a side with
  the fewest players, unless eleven players of rank 0 weigh as much as ten of rank 6.  The
  restriction is no loss: a status has four bits for a team, and more than sixteen players cannot
  have distinct ones at the server (section 5).

**Only model-checked.**  The liveness properties (`AutoSpecWorks`, `Served`, `WaitReturns`, `AllLoaded`,
`EndsClean`, `RetryConnects`, `Flushed`, `JoinGoes`, `RelayServed`, `Settles`), which the prover cannot
treat.  Every other property of the passing runs is a theorem.

## 7. Plan

Done, with proofs: **BattleHost**; **JobPool** and **WorkQueue** with the refinement; **MapGrid**; **Session**;
**Pipe** and **Outgoing** with the refinement; **Joining** (the NAT wish and the relay host); **HostInfo** (start
boxes included); **Registry** with the battle room and a channel; **Balance** and **BattleTeams**.

Next, in this order:

1. **HostGame**: the process, its event, both launch methods and the in-game status (`spring.cpp`,
   `springprocess.cpp`, `ui.cpp:1104-1140`).
2. **UnitsyncCache**: caches that the worker and the GUI thread fill, and a reload between
   (`springunitsync.cpp:431`).
3. The table of torrents, user actions, the flood guard of the autohost, the thread that lists replays.

## 8. What is not modelled

- *Conversions*: the text of the protocol (`utils/tasutil.cpp`), scripts (`tdfcontainer.cpp`), settings,
  checksums and encodings.  A message is its values in the models.
- *Presentation*: windows, list controls, chat panels, toasts, sound; they show state kept elsewhere.
- *Foreign code*: unitsync, libtorrent, curl, OpenAL, and what the tree carries of them (most of
  the tree's lines are embedded images, widgets and such libraries).
- *Input and output without a protocol of its own*: HTTP downloads, the updater, logging, crash
  reports, start-up.
- *Undefined behaviour* that no later state depends on or that cannot be given outcomes: the list of pings
  searched by one thread while the other appends (`tasserver.cpp:1186`), a bot's `User` read after it was
  freed (`serverevents.cpp:391`), a map without start positions (`battle.cpp:984`).  They are listed as hazards.
- *Planned and not yet there*: the items of section 7.
