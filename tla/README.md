# PacPlay, a verification project

PacPlay is a LAN game platform in C: a server that holds users, chat rooms,
game rooms and a library of games, and clients that chat, download games and
play them. This directory holds TLA+ models of its concurrent and stateful
parts, the TLC configurations that check them on small instances, and proofs
that TLAPS checks for every size. Paths below are relative to the root of the
repository (`src/server/server.c` and so on).

## 1. Inventory

| Component | State | Operations | Talks to | Modelled in |
|---|---|---|---|---|
| Sessions and dispatch, `src/server/server.c` | `clients` array of `ClientSession` (state, user, the two room ids, AES key), `running`, `gShutdownRequested` | `serverInit`, `serverLaunch`, `serverEventLoop`, `acceptClient`, `processClient`, `clientDisconnect`, `serverShutdown`, `serverCleanup` | every handler below; the game SDKs are polled from the event loop | `SessionServer`, `GameLobby` |
| Login, `src/server/auth.c`, `database/userDb.c` | session state, `currentUser`, the accounts | login, register, TOTP setup and verification, database key | UserDB | `Login`, `SessionServer` |
| Chat rooms, `src/server/room.c` | `activeRooms` (members arrays), rows of RoomDB | list, create, join, quit, removal on disconnect | sessions, RoomDB | `SessionServer` |
| Chat, `src/server/chat.c`, `database/chatDb.c` | tables of lines, the id sequence, the statement cache | number, store and broadcast a line; the queries | active rooms | `ChatHistory` |
| Game rooms, `src/server/gameRoom.c` | `activeGameRooms` (host, members, phase, game thread), rows of GameRoomDB | list, create, join, quit, start, play data, dissolve | sessions, game runner | `SessionServer`, `GameLobby` |
| Game runner, `src/server/gameRunner.c` | thread, library handle and SDK object of each room | start, stop, the thread itself | event loop | `GameLobby` |
| Download pool, `src/server/downloadPool.c` | pending tokens, task queue, accept thread, workers, `shutdown` | init, register, cancel, accept, transfer, destroy | sessions (tokens), client download threads | `DownloadPool`, `GameLibrary` |
| Game distribution, `src/server/gameDistribution.c` | none of its own | list, download, cancel, start | GameDB, download pool | `GameLibrary`, `DownloadPool` |
| Key manager, `src/server/keyManager.c` | six key envelopes in ServerDB, `freshKeysGenerated` | first run, completeness, unlock | serverInit, serverLaunch | `KeyManager` |
| Library control, `src/server/gameControl.c` | GameDB, files of the game library | import, delete, update | GameDB | `GameLibrary` |
| Databases, `src/server/database/` | SQLite files | one function per statement | every handler | with their handlers |
| Client downloads, `src/client/gameDownload.c` | slots, resume files, installed games | start, transfer thread, cancel, progress, destroy | download pool | `GameLibrary` |
| Client connection, `src/client/connection.c`, `communication.c`, `auth.c`, `gameRoom.c` | socket, key, current room ids, member list, local database | one request and one answer each, notifications, the IO thread | server sessions, pages | `Login`, `GameLobby` |
| Client pages, `src/client/tui/` | the page shown, labels, the lobby's `gameRoomJoinedId` | handlers of buttons, updates in each frame | toolkit, client connection | `ClientPages`, `TuiApp`, `Login`, `GameLobby` |
| TUI toolkit, `src/common/tui/` | controls, focus, chain, message queue | the main loop; handlers of each control | pages, connecting threads | `Controls`, `TuiApp` |
| Log engine, `src/common/autoLog.c` | queue of lines, files, archives | callback, log thread, compress thread, fetch, close | every thread | `AutoLog` |
| Game SDK, `sdk/src/` | send and receive queues | send, poll, push, destroy | game runner, client IO thread | no |
| Packets, cryptography, utilities, `src/common/` | none | framing, encryption, archives, paths | everybody | archives in `GameLibrary` |

What is hard in it:

* **Sequences of requests.** A session lives in three places at once: its
  state, its two room ids, and the members arrays of the rooms. Fifteen
  handlers change them, each leaving the old place on the way, and one of them
  moves other clients' sessions too (a host who leaves, a game that starts).
* **One stream for answers and news.** A client that asks takes the next
  packet for the answer, while the server may have sent something else first.
* **Threads.** The event loop, the TUI thread, one thread per game, the accept
  thread and the workers of the download pool; on the client the TUI thread,
  the IO thread, connecting threads and one thread per download; in both the
  two threads of the log.
* **Restarts.** Databases, libraries, resume files and logs survive the
  process; rooms, sessions, tokens and transfers do not. The first run writes
  six keys one by one.
* **Time.** Tokens expire after 30 s, data connections time out after 5 s.
* **Limits.** Ten members per room, 32 tokens, 64 queued tasks, 512 log lines.
* **Arithmetic on views.** Four loops wrap one text, to count, find, draw and
  hit it.

What makes each part correct is listed with its model below, and every hazard
with its line and its properties in `PROJECT.json`.

## 2. The modules

Each component `X` has its model in `X.tla`, its properties in `XProps.tla`,
the instance for TLC in `MCX.tla` with `X.cfg`, and its proofs, if any, in
`X_proofs.tla`.

| Module | What it is |
|---|---|
| `SessionServer` | sessions, login, chat rooms and game rooms of the server |
| `RoomService` | the abstract promise of the rooms |
| `GameLobby` | game rooms end to end: `SessionServer` with the packets, the lobby page, the client's requests and notifications, the IO thread and the game threads |
| `DownloadPool` | the download pool of the server, thread by thread |
| `DownloadService` | the abstract promise of a download token |
| `KeyManager` | the keys and databases of the server across starts and crashes |
| `GameLibrary` | a game on its way from the administrator to a player |
| `ChatHistory` | what is said, numbered, stored, heard and found again |
| `ChatLog` | the abstract promise of the chat history |
| `Login` | from the connect button to the home page, both sides |
| `Controls` | input box, list box and text box |
| `ClientPages` | the pages of the client as data |
| `TuiApp` | the main loop of the toolkit over those pages |
| `AutoLog` | the log engine |

### SessionServer

One thread runs `serverEventLoop`, so a whole handler is one action; what
interleaves is requests of different clients in any order, game threads that
end by themselves, a clean shutdown (which waits for every game, takes one step
per client and then destroys the pool) and a crash at any moment, that of a
process that hangs among them.

| Variable | Code |
|---|---|
| `phase` | `running`; `stopping`: `serverShutdown` and the disconnections of `serverCleanup`; `destroying`: its destruction of the pool; `stopped` |
| `state[c]`, `uid[c]`, `currentRoomId[c]`, `currentGameRoomId[c]` | fields of the `ClientSession` in slot c; `"Closed"` is a slot without a session |
| `activeRooms`, `activeGameRooms` | the arrays of active rooms as functions from id to room; members arrays are sequences, in the order of the array |
| `roomDB`, `gameRoomDB`, `totpDB` | ids with a row in RoomDB and GameRoomDB, users with a stored TOTP secret; these survive `Launch` |

Every action is named after its handler (`serverHandleRoomJoin` is `RoomJoin`).
A request that the state of the session does not accept, or whose handler
returns `SERVER_FAIL`, ends the connection: `DropClient`. A request that is
answered with a failure status and changes nothing is a stuttering step.
`LeaveRoom` and `LeaveGameRoom` are operators that return what the tables
become, because six handlers call these C functions on the way to something
else. Whether a password or a code is right, which ids the random generator
draws, and whether an INSERT fails are choices of the environment.

Not in this model: the payload of messages, allocation failures, the
512-connection limit (the number of slots plays that part), and everything
that only reads.

### RoomService

A client is in at most one place. It moves alone, except that a game room
closes on everybody in it when a client of its host's user leaves; a game room
is entered only before its game starts, and no room is entered above its
capacity. The refinement mapping (`placeBar` in `SessionServerProps`) reads
the place of a client off the *members arrays*; the agreement with the ids in
the sessions is what the invariants say.

### GameLobby

It EXTENDS `SessionServer` and uses its operators for what a handler does to
the rooms; the handlers' answers and notifications, in the order in which they
are sent, are added here, and both ends of each stream.

| Variable | Code |
|---|---|
| `out[c]`, `inbox[c]` | packets between client and server, both ways |
| `ui[c]` | the page, the request that blocks it, `gameRoomJoinedId`, `gameRoomIsHost`, and whether the update of the frame is due |
| `client[c]` | `currentGameRoomId`, `roomMembers`, `gameStarted`, whether the IO thread runs |
| `thread[g]` | `gameRoomThreadFunc` of a room, by what it does next |
| `loop` | whose request the event loop has in hand while it joins a game thread |
| `lost`, `drawn` | history: news a client dropped; ids drawn so far |

`Read` is the next packet taken for an answer (`clientRecvStatusResponse` and
its like: a packet of another type is an error, and gone), `Polled` what
`clientPollNotifications` makes of one, `IoReads` what the IO thread makes of
one. Packets are whole. A dissolution has two steps when the game runs, as in
`serverDissolveGameRoom`: `StopGame` tells the members (line 146), clears
`gameRunning` and waits; the rest of the handler (`MayLeave`) comes once the game
thread is joined, which may be never, and until then no other request and no
disconnection is handled. Without a running game it is one step. Nobody is in a
chat room. No game data flows: the SDK object that a client launches has no
game attached to it.

### DownloadPool

Three kinds of threads share the pool: the event loop (which registers and
cancels tokens and, after it has ended, destroys the pool), the accept thread
and the workers. A critical section of `tokenMutex` or of `queueMutex` is one
step. One is not: a worker that has found the queue empty and `shutdown` unset
holds `queueMutex` until `pthread_cond_wait` gives it up, and
`downloadPoolDestroy` sets `shutdown` and broadcasts without that mutex. So
`FindEmpty` and `Wait` are two steps, and `QueueMutexFree` guards every step
that takes the mutex.

| Variable | Code |
|---|---|
| `issued`, `cancelAsked` | history: the tokens drawn by `serverHandleGameDownload`, those a client cancelled |
| `tokens` | the 32 slots: token, `used`, and whether `expiresAt` has passed |
| `conn` | each data connection: in the backlog, open, closed, or closed after the whole file |
| `redeemed` | history: the token each connection got a task for |
| `acceptPc`, `acceptFd` | where the accept thread is, and its `clientFd` |
| `taskQueue` | the ring buffer of tasks, as the sequence of their `dataFd` |
| `workerPc`, `workerFd` | where each worker is, and its `task.dataFd` |
| `destroyPc` | the progress of `downloadPoolDestroy`; `shutdown` is `destroyPc # "no"` |

`SetShutdown`, `Broadcast`, `CloseListener` and `Joined` are the four parts of
`downloadPoolDestroy` between which other threads run. A transfer is one step,
`Finish`, whole or not; its chunks are in `GameLibrary`. Tokens are 32 random
bytes: that they do not repeat is taken for granted. Spurious wakeups are left
out, as the liveness may not rely on them and what they lead to is also reached
by a signal.

### DownloadService

A token is offered once, or refused for lack of a slot. It then opens one
transfer on one connection, or is withdrawn (cancelled, expired, or used up by
a key derivation that failed), and never comes back. The refinement mapping
takes the tokens of unused, unexpired slots for the valid ones: a registration
that took over such a slot would break it.

### KeyManager

One process at a time, but any number of them after each other. Every write to
the disk is a step of its own: `setServerKey` commits by itself, and so do the
removal of a file and the creation of a database. `Stop` ends the process
between any two steps: a crash, an exit, or an error that ends the program
(`tuiAppStop` and `serverCleanup`).

| Variable | Code |
|---|---|
| `envelopes` | the rows of ServerDB, in the order in which they are stored: the master key that wraps each, or none |
| `dbKey` | the five other databases: the key that each file is encrypted with, named by its master key, or no file |
| `drawn`, `known`, `ran` | history: master keys drawn, those the administrator has saved, the one of the last launch |
| `phase`, `next` | the process on its way from `serverInit` through the pages to `serverLaunch`, and its place in the loop over keys or databases |
| `mk` | `masterKeyDisplay`: the master key, until it is confirmed and wiped; the label that shows it keeps a copy (`control.c:490`), and `tryUnlock` one of what was typed (`serverTUI.c:123`), of which the model knows nothing |
| `freshKeysGenerated`, `loaded` | the fields of `Server`; all keys of one master key are named by it |

The first start finds no ServerDB, and old databases in any combination
(`OldMK`). `LaterRun(FALSE)` is a start at which ServerDB cannot be read. The
removal of an old file is taken to succeed; `serverLaunch` does not look. That
`serverUnlockWithMK` leaves `freshKeysGenerated` alone, although keyManager.h:89
says that it resets it, is right: `serverLaunch` reads it after the unlocking.

### GameLibrary

One game (files and rows of different games have different names), with the
TUI of the server, its event loop, a worker for each transfer, the TUI of the
client and a thread for each slot of its download manager. The content of a
file is the sequence of its chunks, a chunk is known by the build it comes
from, and a hash tells whether a file is the whole archive of a build. Server
and client crash at any step, and any system call may fail.

| Variable | Code |
|---|---|
| `version`, `row`, `archive` | the row of `games`, the client row of `game_platforms`, `download.tar.gz` |
| `tui` | where the server's TUI is in `gameCtlUpdate` or `gameCtlDelete` |
| `ask`, `worker` | where `serverHandleGameDownload` and each worker are |
| `part`, `meta`, `dir`, `json`, `installed` | on the client: `<id>.downloading`, its count of chunks, the directory of the game, `metadata.json` in it, the row of `gameList` |
| `dl` | the slots, with the place of `downloadThread` |
| `calm`, `strikes` | history: undisturbed attempts that failed |

### ChatHistory and ChatLog

`serverHandleChatMessage` step by step: the id from `msg_sequence`, the table,
the statement of the cache, the insertion, the broadcast. Every SQL statement
is a transaction; each may fail, which costs the client its connection, and the
process may end between any two. `table`, `created`, `rows` and `seq` are on
the disk, `cache`, `session`, `room` and `job` in memory, `heard` and
`joinedAt` are history. `ChatLog` is one append-only log: a set of lines, to
which a line is only ever added with a number above all others. The mapping
takes the lines of all tables, each with its room.

### Login

Both sides of the login: the pages, the requests of the client's `auth.c`, the
handlers of the server's, the accounts of `userDb.c`, and the client's local
database. A client has one thread that draws the pages and blocks in a request
until there is an answer, and one detached thread per click on "Connect".
Connections break, client processes end, and any read of the accounts may fail.

| Variable | Code |
|---|---|
| `users` | the table `users`; 0 is no row, and NULL for a secret |
| `session`, `request`, `answer` | the server's sessions; packets on their way |
| `fd`, `aesKey`, `opened`, `runner` | `Client.fd`, `Client.aesKey`, the sockets of the process, the connecting threads |
| `page`, `call`, `label`, `regSuccess` | the page, the request it is blocked in, the names on the home page |
| `db`, `file` | whose key `Client.db` is open with, and `./db/client.db` encrypted with |
| `shown`, `overlap`, `silent` | history: secrets on a screen; two connecting threads at a time; requests without an answer |

### Controls

A control is a record, the C struct, changed by its message handler. The input
box keeps `buf` with what `memmove` left behind, the list box the heights of
its entries, the text box its text and view; what is drawn in a cell is an
operator of the record. `typed` is history: the text with a cursor that a user
has in mind. Widths are at least 4, as the layouts have them.

### ClientPages and TuiApp

`ClientPages` lists the pages, their controls in the order of registration, and
what a click or an update may lead to. `TuiApp` is the main loop over them: one
key or mouse event, the drain of the message queue under its lock, the updates;
and threads that change the page from outside. `app` is the struct `tuiApp` with
the flags of the controls and `gRenderStk`, the stack of every walk; `pc` where
the loop is; `runner` what a thread does next, `holds` the control in the message
it waits to push.

A page change by a handler or an update is one step, `ChangePage`: it runs in the
loop. The same change by a thread (`RunnerRemovesWindows` to `RunnerResizes`) goes
step by step between the steps of the loop, and only its three pushes wait for
the lock: the old windows go, `curRoot` is set, the new windows come, the chain is
emptied and filled control by control from the stack, the focus is taken, the
cursor placed, the focus given. A step of the loop that walks the controls leaves
the stack empty, which ends the thread's walk where it is. `overlapped` is
history: a key was read, a message handled or the controls walked in the middle of
such a change. The properties of focus, clicks and windows claim nothing from
there on (what happens then is listed at the end of 3); a frame without input or
messages, and a thread that is done while the loop sleeps in `tuiAppDelay`, are no
overlap. `FrameEnds` holds with it too. Windows of a page go and come in one step
each, a walk of the loop is one step, and the use of a curses window that the
other thread has just deleted is not followed.

### AutoLog

Every thread of the program is a `Writer`; the log thread and the compress
thread log as well, about themselves. A critical section is a step.

| Variable | Code |
|---|---|
| `saying[t]` | `logCallback` of a thread: the line and the queue it goes into next |
| `queue`, `stop`, `running` | `LogMsgQueue`, and whether the log thread lives |
| `logPc`, `held`, `currentDate`, `fileOpen` | `logThreadFunc` and its file |
| `plain`, `gz` | the files and archives of each day; `Partial` is an archive not written to its end |
| `compressPc`, `scanPending`, `compressStop`, `todo`, `packing`, `scanFailed`, `consecutiveFailures` | `compressThreadFunc` and its scan |
| `tuiCount` | how many lines are in `TuiLogQueue`, of which the files know nothing |
| `accepted`, `failed` | history: lines taken into the queue by this process; whether a file failed |
| `cut` | history: the days whose archive ends where a read error cut the copy |

The clock does not go back and stands still while a line is on its way from the
test of the date to `fputs`: a log thread that slept for the whole retention
time in between would write into a file that is being packed. A line whose
`fflush` fails silently counts as written. `autoLogCheckAndRestart` is left
out: nothing but `autoLogClose` makes `running` false, and by then the event
loop, which is the only caller, has ended; the restart of docs/API.md 2.8.5
never happens. `autoLogClose` runs when no other thread logs any more, which
holds of the server (server.c:433 comes after all joins); in the client a
detached thread of `connectPage.c:153` may still be in `logCallback` when
client/main.c:34 frees the queue.

## 3. The runs

| Run | Question | Instance |
|---|---|---|
| `rooms` | do members arrays, sessions, hosts and rows always agree, and does the server keep the promise of RoomService? | 3 connections, 2 users, 2 chat rooms, 2 game rooms, 2 seats |
| `shutdown` | once the games have returned, does a shutdown reach the destruction of the pool, with no room left? | 2 connections, 1 room of each kind |
| `lobby` | does a page ever wait for an answer that will not come, does a client that lost nothing know its room and the members, does a game thread use a freed room? | 2 connections, 2 users, 3 rooms in all, 2 seats, 1 lost packet, 2 packets in a stream before a user's next click |
| `login` | is the second factor ever bypassed, does the home page show the user of the session, is every request answered? | 1 machine, 2 users of whom one is enrolled, 2 connections, 1 connecting thread, 2 secrets |
| `pool` | is every socket in one hand and every token good for one transfer, under all interleavings and a destruction at any time, and does a token that was offered stay good until it is used, cancelled or expired? | 3 tokens in 2 slots, 3 data connections, 2 workers, a queue of 1 |
| `pool_live` | is every accepted connection closed in the end? | 2 tokens in 1 slot, 2 connections, 2 workers |
| `library` | is what a client registers the whole build the server offered, and does one attempt clear away what a crash left? | 1 slot, two builds of one version, with 2 chunks and with 1 |
| `history` | are the numbers of the lines in order across crashes, does everyone hear what the table says, does a query find it? | 3 sessions, 1 room beside the table of the game rooms, 2 seats, 3 lines, a query limit of 2, 1 bucket |
| `keys` | are the keys of one generation, and does what was launched once stay openable, through any crashes? | 6 keys, 2 master keys |
| `controls` | does an input box hold what its user typed, does the text box lose nothing, does the mouse hit what is drawn? | 3 characters of input, 4 list entries, 7 characters of text, widths 4 and 5, heights 3 and 5 |
| `tui` | does one control of the page shown have the focus, whatever is pressed, as long as no step of the loop falls into a thread's change of the page, and does every frame end, even then? | all pages, 1 connecting thread; frames that overlap its change are followed for 1 more frame |
| `logging` | does the log keep every line, once and in order, through rotation, packing, closing and crashes? | 1 writer beside the two threads of the log, a queue of 2, 2 lines, 3 days, 2 processes |

Why these bounds are enough to be interesting. *Rooms:* three connections of
two users give a host with a second session of the same user (the code
recognises hosts by uid) and a stranger; two seats make a room full while a
third client asks; two rooms of each kind make every change from one room to
another happen, including a join into the room that one's own leaving
dissolves. *Lobby:* two connections are a host and a guest, or one user twice;
two rooms let a client create, leave, join another's and be thrown out, with a
room drawn after its first was dissolved; the stream bound still lets an answer
wait behind two notifications. Three rooms (1.1 million states) and three
connections with one room (2.4 million) were explored by hand and keep the same
invariants; of two lost packets 9 million states were explored without a
violation and without reaching the end.
*Login:* the second user shares the machine, the server and the local database
with the first; two connections let one end and another begin, and let the
server still hold the old session. *Pool:* more tokens than slots make slots
reused while connections that came with older tokens are still served, and fill
them; three connections overflow a queue of one while both workers are busy;
two workers let one take the task that the other was woken for. *Library:* two
builds of one version are the case where a resume file matches the version and
not the content; a build of two chunks can be cut in the middle. *History:*
three lines overflow a query limit of two; two seats and three sessions let one
leave and another come in while a line is on its way. *Keys:* the six keys are
those of the code; the second master key is what a wrong regeneration would
draw. *Controls:* every width is smaller than the text, so that it wraps and
scrolls, and one height shows a single line; the number of list entries exceeds
a page. *Logging:* three days with a retention of one make one day packed while
the next is written; two lines in a queue of two fill it while the log thread
logs about itself.

Clients, users, rooms, tokens, connections and workers are interchangeable in
Init, Next and the properties, so the safety runs use symmetry; the liveness
runs do not. The 32 slots of tokens, which are searched in order, get none,
nor do the six keys.

The deadlock check is off where the system really stops: a process that has
ended, a destroyed pool, tokens or lines that have run out, and in `lobby` and
`login` a client that waits, which is what `NobodyWaitsInVain` and
`OneAnswerEach` are about; in `controls` and `tui` a user who does nothing is a
stutter. It stays on in `rooms` and `keys`.

**Fairness.** `FairSpec` of `SessionServer` asks weak fairness of
`CleanupClient` and `CleanupRooms` only, the loop of `serverCleanup` and what it
does before it destroys the pool. Neither blocks: the sends of a disconnection
end with the timeout of 5 s, and a disconnection joins no game, because
`serverShutdown` has joined them all. That join (`server.c:286`,
`gameRunner.c:243`) and the join of the event loop before it return only if
`pacplayMain` does; the join of the pool (`server.c:412`, `downloadPool.c:475`)
hangs when a worker misses the broadcast. So no fairness is asked of
`Shutdown`, `GameThreadEnds` and `CleanupDone`, and `ShutdownEmptiesRooms` is
about the way from the last game to the pool: a shutdown as a whole need not
end. No client is assumed to do anything.

For the pool, weak fairness holds of the steps of the accept thread, of each
worker and of the destruction once begun: these threads block only in
`accept`, in `pthread_cond_wait` (both disabled steps here) and in socket
calls, which end because `acceptThreadFunc` gives every data connection a
timeout of 5 s in both directions. Nothing is assumed of clients, of the event
loop, or of the beginning of a destruction. That a worker gets `queueMutex` in
the end needs no strong fairness: it can always take the mutex again after a
holder that is between `FindEmpty` and `Wait` goes on, and the instances show
it.

For the log, weak fairness holds of the log thread, of the compress thread and
of `autoLogClose` once it has begun; nothing is assumed of the threads that
log, of the clock, or of crashes. `CloseLosesNothing` says that the close ends,
and it is not obvious that it does: both threads log about their own failures
into the queue that is being drained. A log thread that tried to open its file
again at every line would keep itself busy for ever.

`FrameEnds` needs no fairness: it is an action property, which says that a
measure of what is left of the frame falls with every step of the main loop.

### What was learnt about the code

The models follow the code where it and its documents differ. Where they do,
the properties are stated so that the code keeps them. The differences met:

Sessions and rooms

* docs/API.md:1434 says that leaving SessionChat sets `currentRoomId` to 0. A
  TOTP setup from within a chat room (`auth.c:167`) leads to SessionRoom with
  the room still set and the client still in its members array.
* server.h:145 says that RoomDB manages which rooms exist. The only member who
  joins its own room again (`room.c:149`) sits in a room without a row.
* docs/API.md:2373 says that the end of the game dissolves the room. The thread
  only clears `gameRunning` (`gameRunner.c:181`): nobody can join or start until
  somebody quits.
* docs/API.md:1430 and 1519 say that a wrong code closes the connection;
  `auth.c:194` goes back to the login prompt.
* A line is stored before it is broadcast, and `chat.c:71` to 88 ignores what
  becomes of the broadcast: the allocation may fail, a send may time out, and a
  text so long that the 12 bytes more of its broadcast exceed the packet
  (`protocol.c:252`) is stored and sent to nobody.
* docs/API.md:1891 says that rows make game rooms persist across a restart;
  nothing reads them back, nor removes them.

Login

* docs/API.md:1520: when the database key cannot be read, `getCDBKey` sends no
  answer, and the client, which has no timeout, blocks.
* A setup request of a user who is enrolled already is answered with one byte,
  which the client reports as an invalid response.
* auth.h:63: a stored secret that cannot be decrypted is overwritten by the next
  setup. The secret is stored before it is shown.
* docs/API.md:2669 says that users who share a working directory are isolated by
  their keys. The second user of a machine cannot open `./db/client.db`; and
  `clientTOTPVerify` opens a database only if none is open, so that after a
  failed code the next user works on that of the one before.
* `client->uid` is not set on the path through the second factor, and
  `homePageInitUpdate` lists the games twice when it runs twice.
* `checkInput` of the connection page takes an empty address, a prefix of
  `localhost` and an empty port for valid.
* Each press of the connect button starts a thread (`connectPage.c:153`). Two at
  a time share `fd` and `aesKey`, and one socket is lost. This was explored by
  hand with two threads; the invariants of the run `login` still hold.

Lobby and games

* A request takes the first packet that arrives for its answer. What was news is
  dropped, and the answer of `MsgGameRoomQuitReq`, which its sender never reads,
  shifts the answers until the lobby page polls strays away. A join may be
  refused in the client and done in the server.
* A creator gets no member list; `(*)` marks the first who joins. The list is not
  redrawn when its length stays the same.
* A notification of a quit names the user, not the session
  (`client/gameRoom.c:243`). When a user sits in a room of four or more with two
  sessions and the second leaves, the server takes the second seat away and the
  clients the first: they show the same users in another order.
  `ClientKnowsItsRoom` asks for the order in rooms of three seats only.
* A creation that fails has already left the old room, which the client keeps.
  A dissolution does not name its room, and does not reset `gameRoomJoinedId`.
* A dissolution is announced (`server/gameRoom.c:146`) before the game thread is
  joined (line 150). While the game does not return, the members show no room and
  their sessions are in it; whatever they ask for waits as well.
* "Back" on the game page neither leaves the room nor stops the IO thread, which
  from then on eats answers: the UI may block in a request for ever.
* Creating, joining or listing in SessionGameRoomPlay ends the connection.
* A guest who is left without a host can launch a second IO thread.
* A library that cannot be loaded leaves the room in GameRoomPlaying.
* docs/sdk.md:286, 328 and 643 describe the SDK objects of server and client;
  none has a game attached to it. The event loop polls the server's
  (`server.c:303`) while the game thread may destroy it.
* Room ids are drawn once each in the model. Had one user two clients, in two
  rooms with one id after the other, one could take the other's answer.

Downloads

* docs/API.md:4165 says that a cancellation ends a running transfer.
  `downloadPool.c:447` looks at unused tokens; that of a running transfer is used.
* docs/API.md:4166 says that the destruction stops all threads.
  `downloadPool.c:465` broadcasts without `queueMutex`: a worker between its test
  and its wait misses the broadcast, and the join does not return.
* docs/API.md:4232 says that a download ends with the registration. `addGame` is
  an INSERT whose result is ignored: an update leaves the old row.

Keys

* keyManager.h:48 says that the server refuses to start with incomplete keys.
  `server.c:155` logs it and shows the start page, where no master key is right.
* docs/API.md:2247 says that the right master key leads to the main page. After a
  crash between the first run and its launch (`server.c:169`) the databases of an
  older installation stay, and no later process removes or opens them.

Terminal

* A list box whose selection is one past its first page does not show it
  (docs/API.md:992 says that the selected line is highlighted), and one that was
  cleared keeps its selection and view. A text box that is resized, or appended
  to while hidden, shows an old place.
* A full command line of the server's console writes its terminator behind the
  buffer (`serverTUI.c:231`).
* docs/API.md:1106 describes the chain of focusable controls; the start button of
  the lobby is made visible by assignment (`mainPage.c:541`, 552, 569, 671) and
  never enters it, or is hidden with the focus. The scroll box of the server's
  console never gets the focus (`serverTUI.c:174`, 380).
* A selection with the mouse survives a change of the page. A thread that connects
  after "Exit" touches an application that is gone.
* The thread of the connect button changes the page without the lock
  (`tuiapp.c:657` to 781), so that a step of the loop in the middle finds it half
  done. Tab on the emptied chain (`tuiapp.c:712`) ends the client with "BUG: array
  index out of bounds" (810, 52). A walk of the loop empties the stack `gRenderStk`
  under the walk of the thread: the chain stays empty or short, the cursor stays on
  the connect button of the page before, and Enter presses it again. A layout
  message between the removal of the windows and `curRoot` makes the windows of the
  old page again, which stay until that page or one registered before it is left.
  One connecting thread is enough, and TLC finds each of these once `overlapped` is
  taken out of the property.

Log

* The restart of docs/API.md 2.8.5 never happens (see AutoLog above).
* `compressOneFile` does not ask `ferror` (`autoLog.c:198`): a read error in the
  middle of a file passes for its end, the archive is closed well, and the rest of
  the day goes with the plain file at line 213. `CopyFile` copies any beginning of
  the file; `WrittenStays` names that loss as its one exception, and
  `CloseLosesNothing` leaves such runs out.
* An archive that was cut by a crash blocks the packing of its day for good: every
  scan counts it as a failure, and the file stays unpacked.

## 4. What is proved

`SessionServer_proofs` proves, for any sets of connections, users and ids and
any capacity above zero (`SessionServerAssumption`, plus that 0 is not an id
and "no user" is not a user):

* `StepKeepsIInv`, `InvariantIInv`: `IInv == TypeOK /\ LoggedIn /\ RoomInv` is
  inductive. `RoomInv` is the conjunction of the room invariants of the run
  `rooms`; `LoggedIn` says that a session past the login has a user.
* from it `TypeCorrect`, `ChatRoomsCorrect`, `GameRoomsCorrect`,
  `PlaceCorrect`, `HostCorrect`, `RowsCorrect` and `LoginCorrect`, one per
  conjunct.
* `ServerRefinesRoomService`: the server implements `RoomService`.

Few of the conjuncts are inductive alone. That the host's room is never
emptied by `LeaveAsMember` needs `HostSeated`; that a session is put back into
the right state needs the agreement of states and arrays; that `OpenGame`
makes a well-typed room needs `LoggedIn`. The argument goes by state that a
step touches: `Parts` regroups the invariant into the part on chat rooms
(`ChatOK`), the part on game rooms (`GameOK`) and the part on sessions
(`PlaceOK`), each an operator of the values it speaks about. The lemmas
`LeaveRoomOK`, `LeaveGameRoomOK` (with `DissolveOK` and `LeaveAsMemberOK`),
`EnterChatOK`, `EnterGameOK` and `OpenGameOK` are then about values, not about
actions, and an action that leaves two rooms and enters a third is a chain of
them. `RemoveFirstMember` and `AppendMember` say what the memmove loop and the
append do to a members array without repetitions.

For the refinement, the invariant turns the places that `placeBar` reads off
the members arrays into the room ids of the sessions (`PlacesAreIds`), so that
a step is told by the ids it changes. `LeavingShape` and `LeavingMoves` say
which ids a leaving touches: that of one client, or those of everybody in the
room of a host; `LeavingServes` makes a step of the service of it. That a room
is entered below its capacity is a matter of counting: `MembersFit` bounds the
clients in a room by the length of its members array.

`GameLobby_proofs` carries this over to the lobby, under the same assumptions
(`GameLobbyAssumption` adds that the markers for "no client" and "no request" are
not a client and not a request):

* `LobbyStepIsServerStep`: a step of the lobby, on any of its streams, clients
  and threads, is a step of `SessionServer` or a stutter of it.
* `LobbyInvariant`: so `IInv` holds in the lobby, and with it `ThreadInv`.
* `FreedRoomsAreUnused`: from it, `NoUseOfFreedRoom`.
* `LobbyStreams`: `LobbyInv == LobbyTypes /\ WaitInv /\ HostInv` holds too.
* `NobodyWaitsCorrect`: from it, `NobodyWaitsInVain`, for streams of any length.
* `ClientsKnow`: `KnowInv`, the conjunction of `FirstIsHost`, `TheHostDissolves`
  and `Knows(c)` for every client `c`, holds.
* `ClientKnowsItsRoomCorrect`: from it, `ClientKnowsItsRoom`, for any number of
  clients, rooms and seats.

`ThreadInv` is what separates the event loop from the game threads, which share
a room without a lock: as long as a thread may use its room, the flag
`gameRunning` is set, or the event loop has cleared it itself and waits for
that thread. A handler that frees a room runs only when its thread is joined
(`MayLeave`); `LeavingStopsNoOther` says that a leaving frees no other room.

`NobodyWaitsInVain` is not inductive: a quit is taken and, in `SessionRoom`, not
answered, so that a request before the server is evidence of an answer only if
it is none (`WaitInv`). And a start is answered with a broadcast to the members
of the room it names, which need not be the one its sender sits in. That the
sender is among those who hear of it rests on the client, which starts no game
but in a room that it made: `HostInv` follows a creation from its answer, in the
stream or read, to the page and the request to start, and says at each place
that as long as that room is there its maker is in it (`OwnRoom`), whatever
dissolutions, quits and lost answers come between. Ids that were drawn once
(`drawn`) never name another room. `LeavingKeepsOwn` is what the handlers need:
a room that survives somebody's leaving was not made by that session.
`ServedOK` says it once for all handlers, `ClientAsks` and `ClientRests` for the
steps of the client.

`ClientKnowsItsRoom` speaks of the moment when nothing is under way, and nothing
about that moment is kept by a step: the invariant has to say what a client will
make of everything that is under way. `View` is what a client shows and the
request whose answer it reads next; `Reads(v, p, w)` gives the ways to read the
packet `p` in the view `v` without losing news (it is skipped, the update of the
lobby page shows it, or it is the answer that was asked for); `Reaches` runs this
over a whole stream. `Knows(c)` says of a client that has lost no news:

* however its stream is read, without loss, it ends with what the server has
  (`EndOK`): the room it was told of (`RoomOf`) and the users in it, or no room if
  a quit is still before the server; a request to join never names the room it is
  in;
* `Shape`: besides the request that is waited for, at most one is before the
  server or has its answer in the stream (`Owes`), and none on a lobby page that
  has joined a room. Without it an answer could be taken for another one's: a
  late answer to a quit for a join, say.

That every lossless reading is meant, and not the one that happens, is what makes
it inductive: whether the page, its update or the IO thread reads a packet is
open until it is read. `FirstIsHost` ties the host of a room, whose leaving
dissolves it, to its first seat: a member who goes and leaves the room behind is
never of the user in that seat, so that of two seats of a user the clients take
away none but one of the others.

`RoomOf` and `StateOf` are what the server has told a client of its session. They
differ from `currentGameRoomId` and `state` while another member's dissolution of
the room waits for the game thread (`BeingDissolved`): the client was told at
`StopGame`, its session moves when the handler goes on. `TheHostDissolves` says
that who holds up the event loop is of the host's user, so that the rest of the
handler does dissolve the room for everybody that was told.

The proof goes by who acts. When the server acts, packets are added at the end of
the streams (`ToldKnows`): what was reached before is read on through them.
`DissolvedRead`, `QuittedRead`, `JoinedRead` and the others say what each packet
makes of a view, `LeavingIs` which of them the handlers send to whom, and
`LeavingHeard` that the two agree, with `SeesJoin` and `SeesQuit` about the lists
of users: they count the seats of each user, as two sessions of one user cannot
be told apart, and compare the order where a room has three seats at most. When
the client reads, the reading is one of those that were meant (`ReaderKnows`).
When its user presses a button, what can be read with the new request could be
read without it, or nothing is read at all (`PressedRuns`, `JoinPressedRuns`).

`DownloadPool_proofs` proves, for any sets of tokens, connections and workers
and any number of slots and queue places above zero
(`DownloadPoolAssumption`):

* `PoolInvariant`: `IInv == TypeOK /\ SocketInv /\ TokenInv` is inductive.
* from it `PoolTypeCorrect`, `SocketsCorrect`, `TokenCorrect` and
  `DestroyedCorrect`: its types and the invariants of the run `pool`.
* `PoolRefinesService`: the pool implements `DownloadService`.

`TokenOpensOneTransfer` is not inductive: a token must also be unable to come
back. That needs that a token sits in one slot at most and was drawn before
(`SlotsWellFormed`), that the slot of a redeemed token is marked as used for as
long as it holds it (`RedeemedIsUsed`), and that the connection about to redeem
has not done so yet (`FreshHasNoToken`). `DestroyedIsClosed` follows from
`SocketsInOneHand` when no thread and no queue place is left to hold a socket,
which is what `DestroyOrder` says. `AppendTask` and `TakeTask` say what the two
ends of the ring buffer do to the set of queued connections; `OneSlotChanges`
and `SlotSpent` what a change of one slot does to the valid tokens, from which
the refinement follows action by action.

`KeyManager_proofs` proves, for two keys or more, any set of master keys and
any number of starts (`KeyManagerAssumption`):

* `KeysInvariant`: `IInv`, the four invariants of the run `keys` with
  `StoredInOrder`, `OpenedInOrder` and `FreshBeforeLaunch`, is inductive.
* from it `KeysTypeCorrect`, `OneGenerationCorrect`, `LaunchedCorrect` and
  `UnlockedCorrect`.

`OneGeneration` needs that a first run starts from no envelope at all, which
follows from the order in which they are stored: whoever finds no DEK finds
nothing. `LaunchedStaysOpenable` needs that a process with fresh keys has not
launched before (`FreshBeforeLaunch`), so that its removals hit old files only,
and that the databases before `next` are those already opened with the loaded
keys (`OpenedInOrder`).

`AutoLog_proofs` proves, for any set of writers and any number of lines, days
and processes (`AutoLogAssumption`, which also says that "no file" and "an
archive cut short" are not texts):

* `LogInvariant`: `IInv == TypeOK /\ LogThreadInv /\ PackInv` with `DaysInv` is
  inductive.
* `WrittenLinesStay`: from it, the action property `WrittenStays`.
* `OrderInvariant`: `OrderInv == DaysInv /\ PipeInv /\ TextInv /\ LinesInOrder`
  is inductive beside it.
* `LinesInOrderCorrect`: from it, `LinesInOrder`.

What can be read of a day survives a step only because the two threads never
work on one file. The log thread writes to the file of today alone: between its
test of the date and `fputs` the date is that of its file (`LogThreadInv`; here
the clock is taken to stand still). The compress thread packs days whose
retention is over, chosen once per scan and never young again (`PackInv`), and
removes a file only when the archive is a copy of it, or of its beginning if the
day is in `cut`. `PrefixOfAppend` is the step of `fputs`; every other step leaves
what can be read as it was, although `RemovePlain` changes where it is read from
and shortens it on a day in `cut`. Order survives that too (`TrimmedLines`).

A line passes a pipe: its thread is about to push it, it is in the queue, the
log thread holds it, it is in a file. `InFront` and `Ahead` compare a line with
all that is further back in the pipe, and the invariant says that every line of
a text is ahead of the pipe (`TextInv`) and that the pipe itself is in order
(`PipeInv`). A step moves a line by one place (`SayPipe`, `PushPipe`, `PopPipe`,
`StepKeepsAhead`) or puts nothing new into the pipe but a report of the log's
own threads (`QuietPipe`). A line that goes to the end of the text of today is
the last of all days because no file is of a later day (`DaysInv`). That a crash
empties the pipe and keeps the count of what was said does no harm: the lines
that are lost leave a gap.

`ChatHistory_proofs` proves, for any sets of sessions, users and rooms, any
number of lines, buckets and seats (`ChatHistoryAssumption`, and that "no
table" is not a list of lines):

* `HistoryInvariant`: `IInv == TypeOK /\ OrderInv /\ JobInv` is inductive.
* `IdsAreInOrder`: from it, `IdsInOrder`.
* `HeardInvariant`: `HeardInv` is inductive beside it, and
  `WhatIsHeardIsHistory` takes `HeardIsHistory` from it.
* `HistoryImplementsChatLog`: the module implements `ChatLog`.

That a line may go behind the others of its room needs that its number is above
those of *all* rooms from the moment it is drawn until it is stored, over the
creation of a table in between (`JobInv`), and that no failure gives a number
back. `InsertLineOK` is the heart of it; `SameLines` covers every other step,
the creation of a table among them, which adds no line.

`HeardIsHistory` compares what a session was sent with the lines of a table that
stand behind the place where it joined. The server does not look at the results
of the broadcast (`chat.c:88`), so a send may fail and the line be lost to one
member or to all: the history variable `missed` keeps these lines, and heard and
missed lines together are what the table says. The property is inductive together
with two facts (`HeardInv`): nobody has joined ahead of the table, and the line that is being
broadcast is the last of its table and behind the place where anybody in the
room joined. The refinement of `ChatLog` is the step of `InsertLine`, whose
number is above those of all rooms; every other step is a stutter.

`Login_proofs` proves, for any sets of machines, users and secrets and any
number of connections and connecting threads (no assumption is needed):

* `LoginInvariant` and from it `SecondFactorCorrect`, which is
  `SecondFactorHolds`. The invariant adds that a session at the challenge holds
  the secret that it asked for: it is what the code is compared with, and it is
  wiped only when the challenge is over.
* `ConnInvariant`: `ConnInv` is inductive beside it.
* from it `OneConnectionCorrect`, `OneAnswerEachCorrect` and
  `HomeIsServedCorrect`, the other three invariants of the run `login`.

None of these three is inductive, and none can be strengthened alone. That the
home page shows the name of the session needs that the answer on its way says
what the session is, and that nothing else is on its way; that needs that a page
waits with at most one request, over the socket it is on; and that needs that
sockets are not shared, between clients or between connecting threads.
`ConnInv` says it in that order: `SocketsOwned`, `OneAtATime` (how far the one
connecting thread is), `PageAgrees`, `WaitAgrees` and `AnswerAgrees`. All of it
is about clients whose connects did not overlap; for the others it fails, see
"What was learnt about the code".

`GameLibrary_proofs` proves, for any number of slots, builds and versions, with
archives of any number of chunks (`GameLibraryAssumption`, which also says that
the markers for "none" are not values of what they stand in for):

* `LibraryInvariant`: `IInv == TypeOK /\ RequestInv /\ LinkInv /\ AloneInv /\
  UnpackedIsOffered` is inductive.
* `UnpackedCorrect`: from it, `UnpackedIsOffered`.
* `HealInvariant`: `HealInv` is an invariant, by induction over the steps that
  keep the types and `LinkInv`; `HealsCorrect` takes `HealsAfterOneFailure`
  from it.

A transfer that is alone owns the partial file, whatever it was resumed on:
from the test of its hash until the file is unpacked, it is the archive of the
build that the server named (`AloneInv`), because only another active slot
could write to it and the start of one takes the mark away. Nothing is needed of
the server, whose administrator may replace or remove the archive at any time.
`ThreadStep` says what a step of a download thread does to the slots, once for
all of its actions; `AloneStays` covers the steps of everybody else.

`HealInv` follows an undisturbed attempt through server, worker and slot
(`CalmAttempt`): what was asked for is what the library offers, the worker has
the archive of it, and the file is that archive when it is unpacked. A first
attempt may fail, on chunks of an older build in the partial file; the failure
removes the file, so that the next attempt is `FromScratch`: what is in the file
are the chunks of the build it downloads, as many as it has counted, and its
hash is right at the end.

Only model-checked:

* the properties of `controls` and `tui`: recursive functions on texts, and a
  tree of controls given in full, with selections from it (`SelectSeq`) whose
  recursive definition the provers cannot unfold;
* `UserHistoryComplete` in `history`: the result of a query is put together by
  a selection and a sort, again of recursive definition;
* the liveness of the shutdown, the pool, the log and the frame, which is out
  of the prover's reach.

## 5. Not modelled

* The game SDK (`sdk/`) and play data: two queues of messages for a game.
  Neither the server nor the client hands its object to a game: the server queues
  what players send (`gameRoom.c:436`, `server.c:639`) and nobody reads it, so no
  state of the system depends on what is in it. That the polls of the event loop meet an
  object that is being destroyed is said above.
* Framing, sequence numbers and encryption of packets, the messages of the key
  exchange, cryptography: functions of bytes. A packet arrives whole or the
  connection ends. In `Login` that covers the answers whose sending has a result
  that nobody looks at (`server/auth.c:44`, 88, 98, 134, 208 and 218): one that is
  not sent, for lack of memory or after 5 s of a full socket, would leave a client
  waiting on a connection that is up. `OneAnswerEach` does not speak of that.
* The chat page of the client with `client/room.c` and `client/chat.c`: another
  pair of streams of the kind of `GameLobby`, with the same `Read`.
* Layout, colours and wording of the pages and of the server's screens, the QR
  code, clipboard, paths and times.
* Lists and queries that only read, apart from that of `UserHistoryComplete`.
* Vendored code (cJSON, qrcodegen, microtar, rxi log).

`PROJECT.json` says for each component what is in and what is not.

## 6. Plan

Done: sessions and rooms, download pool and key manager with their proofs; the
game library from import to installation; chat history; login; controls and
pages; the lobby with both ends of the streams and the game threads; the log;
proofs of the refinements of RoomService, DownloadService and ChatLog, of all
invariants of the runs `rooms`, `pool`, `keys`, `login`, `library` and
`logging`, of the invariants `NoUseOfFreedRoom`, `NobodyWaitsInVain` and
`ClientKnowsItsRoom` of `lobby`, and of `IdsInOrder` and `HeardIsHistory`.

Left, in this order:

1. The chat page of the client, composed with `ChatHistory`.
2. The queues of the SDK, once a game is attached to them.
