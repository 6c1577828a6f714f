# TLA+ models of myProjectShare

The repository holds two families of C++ network programs: a select-based TCP server library
with its test client and a pooled allocator (`src/TcpProject`), and servers and clients on
Boost.Asio (`src/BoostProject`). This directory models the library thread by thread, its earlier
version, the allocators, and the chat and ping programs of the second family handler by handler:
TLA+ modules, the TLC configurations that check them on small instances, and theorems that the
TLA+ proof system proves for every instance.

Check a model with `tlc -config tasks.cfg MCTaskServer.tla`, a proof with
`tlapm CELLThreadProofs.tla`. PROJECT.json says which lines of the source each definition stands
for, and lists the hazards of the code with the properties that are about them.

Below, the library is `src/TcpProject/HelloSocket-前后端共享代码库-客户端升级为异步收发-01/`; its
headers are in `depends/include/`.

## 1. Inventory

### The select-based library

| Part | State | Operations | Used by |
|---|---|---|---|
| CELLSemaphore | `_wait`, `_wakeup`, mutex, condition variable | `wait`, `wakeup` | CELLThread |
| CELLThread | `_isRun`, `_mutex`, `_sem`, three callbacks | `Start`, `Close`, `Exit`, `isRun`, `OnWork` | everything below |
| CELLTaskServer | `_tasks`, `_tasksBuf`, mutex, a CELLThread | `addTask`, `Start`, `Close`, `OnRun` | CELLLog, CELLServer |
| CELLLog | `_logFile`, a CELLTaskServer | `Echo`, `Info`, `setLogPath`, the destructor | everything |
| CELLBuffer | `_pBuff`, `_nLast`, `_nSize` | `push`, `pop`, `write2socket`, `read4socket`, `hasMsg` | CELLClient |
| CELLClient | socket, receive and send buffer, `_dtHeart` | `RecvData`, `SendData`, `SendDataReal`, `checkHeart` | CELLServer, EasyTcpClient |
| CELLServer | `_clients`, `_clientsBuff`, `_fdRead_bak`, `_clients_change`, `_oldTime` | `OnRun`, `ReadData`, `WriteData`, `CheckTime`, `addClient`, `ClearClients` | EasyTcpServer |
| EasyTcpServer | list of CELLServers, `_sock`, three atomic counters | `Start`, `OnRun`, `Accept`, `addClientToCELLServer`, `OnNetJoin/Leave/Msg`, `Close` | server.cpp |
| EasyTcpClient | one CELLClient, `_isConnect` | `InitSocket`, `Connect`, `OnRun`, `SendData`, `Close` | client.cpp |

*Threads.* A server process has the main thread (reads commands, calls `Close`), the accept
thread (`EasyTcpServer::OnRun`), a worker per CELLServer, a worker per CELLTaskServer and the
log's worker. Each worker is a CELLThread. A client process has sendThreads and recvThreads that
share the clients.

*Shared state.* The accept thread appends to `_clientsBuff` under the server's mutex; the worker
tests it without the mutex and moves it under the mutex. Every thread appends to `_tasksBuf`. All
workers change the counters through the virtual callbacks of INetEvent. `setLogPath` sets
`_logFile` in the main thread while the log's worker tests and uses it.

*Shutdown.* `Close` of EasyTcpServer joins the accept thread and then deletes each CELLServer,
which joins its workers. A worker whose select fails stops itself with `Exit`. The log closes its
task server, and then the file, when the process ends.

What is hard here: the unlocked tests beside locked transfers, the hand-made semaphore, a Close
that waits with the mutex held, descriptors that the system gives out again at once, a stream
that arrives in pieces, a heartbeat that is charged once a round, and two threads on one send
buffer.

What makes each part correct:

- CELLSemaphore: it is a counting semaphore; no wakeup is lost or used twice.
- CELLThread: Close returns only after the worker's last callback; one worker at a time.
- CELLTaskServer: every task runs once, in order; Close returns after the tasks added before it.
- CELLLog: the file has what was logged before the end, and is open whenever it is written to.
- CELLServer and EasyTcpServer: every accepted client is on its way to a server, in its buffer
  or in its map; entries are live; the counter counts them; Close releases everything.
- CELLBuffer and CELLClient: messages are handled whole, once, in order; replies are whole.
- Heartbeat: silent clients go in time, others stay.

### The allocators (`HelloMemory`)

`MemoryMgr` sends a request to one of five pools by its size, or to malloc; a pool
(`MemoryAlloc`) keeps its free blocks in a list linked through the blocks, under a mutex.
`Alloctor.cpp` makes this the program's `new` and `delete`. `CELLObjectPool` keeps a second list,
of objects of one class, in a buffer it gets from the first. Hard: two lists and two locks, one
above the other; pools made by the first thread that needs them; a used-up pool. Right when no
block is handed out twice, every block comes back to where it came from, and nothing leaks from
one allocator into the other.

### The earlier server and client (`我面试看的版本-其实就在项目里面/tcp`)

The ancestor of the library: main accepts, workers wait in select without a limit, and there is
no send buffer, heartbeat or join. Hard: a client joins and is counted in two threads, in either
order; the set of descriptors is kept from round to round and a leaving client does not mark it;
descriptors of deleted clients stay in it. Right when no client is in two servers, a waiting
worker watches every client it has, and one that hangs up is deleted.

### The chat programs (`BoostProject/MyBoost`, new_server.cpp and new_client.cpp)

| Part | State | Operations |
|---|---|---|
| chat_room | `m_participants`, `m_recent_msgs` (the last 100) | `join`, `leave`, `deliver` |
| chat_session | socket, `m_read_msg`, `m_write_msgs` | `deliver`, `do_read_header`, `do_read_body`, `do_write`, `newDate` |
| chat_server | acceptor, room | `do_accept`, `handle_command` |
| MongoDB collection | a document per message | `insert_one`, `delete_many`, `update_many` |
| chat_client | socket, `m_write_msgs`, the typing thread | `write`, `close`, connect, read, write |

One thread runs the completion handlers of the server's io_service; a second reads commands for
the database. The client types in one thread and posts to another. Hard: a queue that is handed
over between `deliver` (or `write`) and the handler of the write; a session that leaves through
its read or its write while the other is under way; a store that may throw between delivering a
message and reading on, which ends the program; a close posted behind lines that are still being
written. Right when every member is sent the room's messages once, in one order, from the recent
ones at its joining on; when the database has what the room was told; and when a line typed comes
back.

### The ping programs (TcpServer.cpp, TcpClient.cpp)

Login, ping and client list; a timer in each session stops silent clients. Hard: setting the
timer cancels the wait under way, whose handler runs all the same; `on_write` begins another read
after `stop`; `clients_changed_` is cleared while others come and go. Right when no client keeps
an old list without being told, clients that answer in time stay, and stopped sessions end.

### Not modelled

The relay (BoostServer.cpp, boost_client.cpp), `MyBoost-source`, the Qt windows `CUI` and `SUI`,
`Mongo.hpp`, the small demonstrations, `HelloThread`, `HelloCpp`, `HelloSocket`: section 6.

## 2. Plan

Done, in this order: semaphore, thread, task server, server with accept thread, connection,
heartbeat, client race, chat room; then the log, the client of a connection, the commands and the
client of the chat, the ping programs, the allocators, the earlier version; and the proofs of
section 5.

Left, in the order of their worth:

1. Several clients in one thread of client.cpp, and a restart of a task server, if the programs
   come to use it.
2. The refinement of the worker's semaphore inside the task server as a theorem of `LogSpec` (it is
   one of `CELLThread`, whose steps the task server takes).

## 3. Modules

| Module | Models | Depends on |
|---|---|---|
| `Semaphore` | abstract: permits and waiting threads | |
| `CELLSemaphore` | CELLSemaphore.hpp | refines `Semaphore` |
| `CELLThread` | CELLThread.hpp | extends `CELLSemaphore` |
| `TaskExecutor` | abstract: a queue, what has run, a phase | |
| `CELLTaskServer` | CELLTask.hpp | `INSTANCE CELLThread`, refines `TaskExecutor` |
| `CELLLog` | CELLLog.hpp and the main threads that make and destroy it | extends `CELLTaskServer` |
| `CELLServer` | the workers of CELLServer.hpp | |
| `EasyTcpServer` | the accept thread and Close | extends `CELLServer` |
| `CELLBuffer` | CELLBuffer.hpp, as operators on sequences of bytes | |
| `Connection` | one client of a CELLServer with server.cpp's OnNetMsg, and the EasyTcpClient at its other end | extends `CELLBuffer` |
| `Heartbeat` | CheckTime, checkHeart, resetDTHeart | |
| `EasyTcpClient` | sendThread and recvThread of client.cpp on one client | |
| `MemoryMgr` | MemoryMgr.hpp, Alloctor.cpp | |
| `CELLObjectPool` | CELLObjectPool.hpp | extends `MemoryMgr` |
| `EarlierServer` | the earlier EasyTcpServer.hpp and server.cpp | |
| `EarlierClient` | the earlier EasyTcpClient.hpp and client.cpp | extends `EarlierServer` |
| `ChatLog` | abstract: a log, and readers that see a stretch of it | |
| `ChatRoom` | new_server.cpp: one room, its sessions, the stored messages | refines `ChatLog` |
| `ChatCommands` | handle_command of new_server.cpp | extends `ChatRoom` |
| `ChatClient` | new_client.cpp | extends `ChatCommands` |
| `PingServer` | TcpServer.cpp | |
| `PingClient` | TcpClient.cpp | extends `PingServer` |

The `MC` modules give the constants their values. The theorems are in `CELLThreadProofs` (with those
of the semaphore), `CELLLogProofs`, `EasyTcpServerProofs`, `CELLClientProofs` (connection and
heartbeat), `HelloMemoryProofs` (both allocators), `ChatRoomProofs` (with the commands and the chat
client), `EarlierProofs` and `PingProofs`.

Variables have the names of the fields without the underscore. `place`, `worker`, `caller`, `main`,
`at`, `pc`, `accepting` and `closing` are program counters; variables marked "history" in their
declaration exist only for the properties.

*Atomicity.* A critical section that never blocks is one step (in the allocators two, what it
reads and what it writes, with the mutex between them). What a thread does without a lock is cut
wherever another thread can tell: the test of `_clientsBuff` and the lock, each client of the
transfer, the delete of a client and its erase, the three loops of ClearClients, `send` and
`_nLast = 0`. `CELLThread::Close` is three steps, because it keeps its mutex from the test of the
flag to the return of `_sem.wait()`. The flag `_isRun`, `_logFile` and the lists tested without a
lock are data races in C++; every read in the models returns a value the variable has at some
moment of the step, old or new, which is what the builds produce. In `EasyTcpClient`, where two
threads write `_nLast`, the addition may use the value tested or the present one.

*CELLThread.* `Start` that finds the flag up changes nothing and is not an action. Workers are
model values, one per incarnation: a Start after the end of a worker takes the next one.

*CELLTaskServer* uses CELLThread's actions themselves: `Loop` at the end of the run is the
thread's `SeeStop`, the end of `Drain` its `ReturnRun`. Its work function never calls Exit,
therefore `CanExit <- FALSE`. A task server is never restarted by the programs.

*CELLLog.* The tasks are lines. The main thread makes the log with `setLogPath`, its first
statement, and destroys it at the end; the two lines these log themselves are `SetLine` and
`ByeLine`. `setLogPath` is called once, as in both programs. Other threads log at any moment; those
of the client are detached and do so until the object is gone. A line may be written partly to
`_logFile` as it was tested: the worker's test and its writes are separate steps.

*CELLServer.* Each thread is reduced to what module CELLThread establishes of it: a Close that
found the flag up holds the mutex (`joining`) and returns when the thread is done; an Exit waits
while `joining`. One difference between the two drop paths is kept: ReadData and WriteData drop
only clients in the descriptor set select was called with, CheckTime drops any. A socket may fail
at any moment, the heartbeat may be overdue at any moment (`Heartbeat` says when it really is).
The search of addClientToCELLServer reads the two counts of a comparison in one step. main goes on
when InitSocket, Bind or Listen has failed: `sock` tells the three starts apart.

*Connection.* Bytes carry the message they belong to, so that a message cut at the wrong place is
seen. A `recv` returns any number of the bytes there are. The sockets block: `send` passes its
bytes on in pieces, as the peer makes room, and returns after the last one or with an error. The
client's OnRun reads with a buffer of its own. Sizes are scaled down but keep their order: a header
is the shortest message, a login and its reply are longer, the send buffer is larger than the
receive buffer.

*Heartbeat.* The clock ticks at any point of a round; MaxRound bounds the time between two
updates of `_oldTime`. Everything that lengthens a round, a blocking send included, is in MaxRound.

*EasyTcpClient.* The send buffer is shared memory, written slot by slot. A call through a
`_pClient` that is null or deleted ends the program (`Crash`): `Connect` after a failed InitSocket,
and either thread after the other has closed the client.

*MemoryMgr and CELLObjectPool.* A block is known by its pool and its number, a block from malloc is
a member of `Heap`. `malloc` is taken to succeed: `new` is called only while it can. Nothing calls
`addRef`, and the program deletes a block once, possibly in another thread than it was made in.
The object pool takes and returns memory through MemoryMgr's own actions, with its mutex held.

*EarlierServer and EarlierClient.* The branches of the systems other than Windows. Descriptors are
closed only when a CellServer ends, so a client stands for its descriptor too, also after its
object has been deleted. The replies are commented out in the code, so nothing comes back. The
test program makes thousands of clients per thread; here a thread has two.

*ChatRoom.* A completion handler is a step, because one thread runs them all. `reading` and
`writing` say which asynchronous operation of a session is under way. An operation may succeed
even after the connection has failed (the system had completed it), or end with an error. A
message is a pair of its sender and a number; `Garbage` stands for one whose header
`decoder_header` refuses. `Store` either appends a document or throws, and then `running` ends: no
handler catches the exception, and main leaves with it. The mapping to `ChatLog` takes a reader's
stretch of the log to end after what it was sent and what is in its queue.

*ChatCommands.* A document has the session (for its ip) and the number (for its content) of a
message. `stored` keeps the order of insertion: a deleted document leaves `Gone` in its place.
`delete_many` and `update_many` are one step each: both threads use one database client, which the
driver does not allow, and the model takes each call whole.

*ChatClient.* A session of the room has this program at its other end if it is in `typists`. The
connect, the read, the write and each posted task are handlers of the client's thread; `close`
closes the socket whatever is still queued, and a write that fails closes it too. `run` returns
when nothing is left to wait for and is not called again. A line leaves the client only while the
room has been sent fewer than MaxMessages: the bound of `ChatRoom` holds for chat clients too.

*PingServer.* Setting a `deadline_timer` cancels the wait under way, and its handler then runs all
the same: `checks` counts the handlers that are ready. The clock is kept for the sessions in
`timed`; a wait of the others ends at any moment. At exactly 5000 ms the comparison may come out
either way. A wait that ends then without a stop is not begun again before the next read: in the
model, as in the code, a silent client may stay for good in that case, though TcpServer.cpp:29 says
that clients silent for 5 seconds are disconnected. `NoEarlyDrop` and `StoppedEnds` are about
the other side of it.

## 4. Runs

| Run | Instance | What it shows |
|---|---|---|
| `semaphore` | 4 threads, at most 3 unused wakeups | no wakeup is lost, the refinement holds with its fairness |
| `thread` | 2 controllers, 3 workers, Exit allowed | one worker, joins, Close returns |
| `thread_exit` | 1 controller, 1 worker | **violated**: a worker comes out of its Exit |
| `tasks` | the main thread, 1 worker, 5 lines | lines are written once, in order, to an open file that is complete when it is closed; the task server is an executor |
| `server` | 2 servers, 2 clients, 2 descriptors, selects may fail | tables, descriptor sets, counter, Close |
| `connection` | receive buffer 4, send buffer 5, 2 bytes on the way, 4 messages | streams both ways, full buffers, every message handled |
| `heartbeat` | 2 clients, DeadTime 4, rounds up to 2, 9 units of time | both bounds |
| `chat` | 2 sessions and 3 messages, of which 2 are remembered; or 2 messages and a command; or a chat client that types 2 lines | each member is sent its stretch of the log, queues do not stall, the database is complete, lines come back, Close returns |
| `memory` | 2 threads, 2 blocks a pool, requests of 64 and 1025 bytes, 2 blocks from malloc, 2 object nodes | both lists, the assertions, no leak between the allocators |
| `earlier` | 2 servers, 2 clients of a thread and a silent one, logins of 2 bytes, 3 bytes a recv | counter, watched descriptors, streams, hang-ups |
| `ping` | 2 clients, a limit of 2 ticks | lists, early drops, stopped sessions |
| `client_race` | 2 messages, 2 slots | **violated**: what SendData accepts is sent |

Why the bounds are enough.

- *semaphore*: a wakeup meant for one thread, a barging thread, a second sleeper and a spurious
  one need four.
- *thread*: two controllers race for Start and Close; three workers give two restarts, so that a
  stale wakeup would be used by a later Close.
- *tasks*: three lines beside the two of the log itself fill the transfer, the list being run and
  the last loop at the same time. The log has one worker and one controller in the programs.
- *server*: two servers for the choice and for a client in the wrong one; the second client gets
  the descriptor of the first between its delete and its erase.
- *connection*: a full receive buffer holds one message and the beginning of the next; the send
  buffer is full after two replies.
- *heartbeat*: long enough to drop a client and to keep one past that by its messages.
- *chat*: the room forgets a message before the second session joins; two messages wait behind a
  write; a session speaks between its failed write and its failed read; a second line is typed
  while the first is written. Sessions act on each other through the room only, so a third one
  adds no new case.
- *memory*: a pool of two blocks, and an object pool of two nodes, are full, half full and used
  up: the links of the first list are followed, and nodes come back to a list that is not empty, in
  either order. 64 is the upper end of a size class and 1025 beyond the last. A node has 40 bytes:
  the buffer of the object pool is a block of the class of 128, and a node made when the object pool
  is used up is one of the class of 64, which the other memory comes from too, or from malloc when
  that is used up. Threads and blocks of `Heap` are symmetric.
- *earlier*: begins when the silent client has joined a server (a prefix without choices), or
  when nothing listens. A recv returns a login and half of the next; the message buffer holds two.
- *ping*: one client sees the other come, log in and go; or one with a clock is early, at the
  limit, or late.

Where deadlock is not checked (`thread`, `tasks`, `server`, `connection`, `chat`, `earlier`, `ping`
and the violation runs) the system really stops: a Close waits behind a stuck one, the process has
ended, the server is closed, the connection is over, main has returned, all clients have come to
their end. In `semaphore`, `heartbeat` and `memory` it is checked.

*Fairness.* Weak fairness for each thread and each handler that is ready: the operating system
runs threads, `io_service.run` handlers. None for what nobody has to do: Start, CallClose, logging, a
connection, an error, a message of the peer, typing. `Connection` adds strong fairness of Read,
because `ReadData` asks each round and select reports a socket that stays readable, and weak
fairness of the peer's reading. The liveness of `server` assumes that sends return. `ChatRoom`
assumes that a write ends: a peer reads, or its connection fails. `PingClient` assumes that time
goes on.

*What is conditional.*

- `OneWorker` and `CloseJoins` are claimed until a worker has stopped itself with Exit: afterwards
  OnWork's wakeup belongs to no Close, and a later Close may return too early.
- `NoneForgotten`, `NoUseAfterDelete` and `CloseReleases` are claimed as long as no select has
  failed: a server after a failed select has no clients, is therefore given each new one, and
  nobody serves or deletes those. `CountJoined` is claimed until a worker clears its map, which it
  does without OnNetLeave.
- `CountHeld` claims the counter as long as no worker's select has failed, for the same reason;
  that no client is in two servers it claims always.
- `CloseReturns` of the server excepts a thread stuck in Exit. `LineShown` excepts connections that
  have ended: a close, too, drops what is queued.
- `StoredUnlessNamed` excepts the documents a command has named, and the last message when the
  program has ended in its store.
- `FileComplete` is about the lines logged before `~CELLLog` closes its task server; those added
  after that, its own line excepted, are lost.

### Findings

1. *Close and Exit block each other* (`thread_exit`). CELLThread.hpp:38 takes `_mutex`, :42 waits
   with it; Exit at :50 needs it. The comment at :45-47 promises that Exit does not block. A
   failed select just after Close has begun is enough (CELLServer.hpp:110, EasyTcpServer.hpp:241).
2. *An accepted message is not sent* (`client_race`). push in sendThread between `send` and
   `_nLast = 0` in recvThread (CELLBuffer.hpp:86-88, client.cpp:86,138); CELLClient.hpp:78 says
   that SendDataReal sends the buffer's data.

## 5. Proofs

All theorems hold for every value of the constants under the assumptions the modules name:
any number of threads, workers, servers, clients, descriptors, sessions, messages and blocks.

- *CELLThreadProofs.* Of the semaphore, `SemaphoreInvariant`: type, exact counts and NoLostWakeup
  are together inductive; neither of the last two is alone, because a returning thread lowers
  `_wakeup` and one cardinality at a time. The lemmas AddOne and RemoveOne carry the arithmetic of
  cardinalities. `SemaphoreRefines`: every step is a step of `Semaphore` or a stutter. The mapping
  takes the permits to be the wakeups minus the waits that have returned, `wait` plus the number of
  waiters; PermitsCounted derives from the invariant that this is what the two counters hold.
  Of the thread, the inductive invariant `ThreadInv` says how flag, live workers and
  semaphore counters fit together in three cases: nobody holds the mutex, a Close is before its
  wait, a Close is asleep in it. The properties follow from it: `ThreadType`, `ThreadOneWorker`,
  `ThreadNoStaleWakeup`, `ThreadCloseJoins`. `ThreadSemaphore` composes the two: every step of a
  thread is a step of its semaphore or none (ThreadTakesSem), so that what is proved of the
  semaphore alone holds inside the thread, after an Exit too.
- *CELLLogProofs.* `LogInv` has three parts. `TaskInv` says that the lists are a prefix and the rest
  of what was added, at every place of the worker, and with `Unmade` (no thread before main has
  started one, and no second one) gives `LogTasksConserved` and `LogRefinesExecutor`, the safety
  part of `IsExecutor`. `JoinInv` follows Close through the semaphore: main gets past it only when
  the worker has run everything added before. `Written` relates the file to the lines that have
  run. From these follow `LogWritesOpenFile` and `LogFileComplete`; the first needs JoinInv too,
  because the file is closed after the join.
- *EasyTcpServerProofs.* `Tables` is inductive: `World` (open clients have different descriptors,
  no client is in two servers, no client that is being placed is in one) and, for each server,
  `ServerTable`, which TablesLive lacks: the buffer has no client twice and shares with the map
  exactly what a transfer has moved, and a dropped client is still in the map until it is erased.
  Two lemmas carry each step over to the rest of the system: WorldKept, and OthersKept for the
  other servers. Upon it rest `Copy` (why the copied descriptor set is current), `Counted` (the
  counter and the cardinality change together) and `Shutdown`: threads before Close's target have
  ended, threads behind it are told to run. Shutdown gives `ServerNoUseAfterDelete` and, with `Kept`
  (no client is placed in a buffer whose clients have been deleted), `ServerNoneForgotten` and
  `ServerCloseReleases`.
- *CELLClientProofs.* Of a connection, the invariant `ConnInv` compares streams of bytes with messages. `IsStream`
  says it without recursion: a stream is made of these messages if it has bytes of nothing else,
  has each message whole in one piece, and all in their order (`Before`). Four
  facts about it carry all steps: a message is put behind the stream, the first one is taken off,
  bytes move from one buffer to the next (a concatenation regrouped), or the stream ends with its
  connection. `ConnStreamConserved` and `ConnRepliesWhole` follow for messages of any kinds and
  lengths and any sizes of the buffers. `ConnRefusedOnlyBlocked` rests on `RoundFits`: with the
  replies of a round and what is left to handle together no longer than `_recvBuff`, every reply has
  room. It needs what the constants promise: the send buffer is no smaller than the receive buffer
  (CELL.hpp), no message is longer than the receive buffer, and no reply is longer than its request
  (netmsg_LoginR and netmsg_Login, and their sizes, in MessageHeader.hpp).
  Of the heartbeat, the invariant bounds each counter by the silence it stands for: at least the
  time from the last sign of life to the last CheckTime, at most that and one round. Both bounds,
  `HeartDroppedInTime` and `HeartNoEarlyDrop`, follow for all DeadTime and MaxRound; with the
  code's 60000 ms a client is safe that sends a heartbeat every 60000 ms less one round.
- *ChatRoomProofs.* The inductive invariant `RoomInv`: `Stretch` says that the queue of every
  session is the log from where the session has got to, up to its end for a member; `RecentInv`
  that the remembered messages are the end of the log; `Members`, `BodyThere` and `WriteUnderWay`
  what each handler finds. Stretch needs RecentInv when a session joins, and
  WriteUnderWay when a write is done (the queue has a first message). From it follow `RoomType`,
  `RoomWriteUnderWay`, `RoomStoredAll` and `RoomRefines`, the safety part of `IsChatLog`, of the
  room by itself. With the command thread and chat clients beside it (`SpecChat`), a step either is a
  step of the room, or leaves its variables alone, or is one in which a client takes the place of
  the peer; so `ChatWriteUnderWay` and `ChatRefines` hold of the whole. (`StoredAll` does not: a
  command may delete. What remains true is `ChatStoredUnlessNamed`: `DocumentsInv` says that each
  document is the message of its place in the log, or that command after command has named the
  message and what has come into its place.) `LinesInv` is about each client: the lines written,
  queued and posted are together the lines typed, in their order, and the close comes last; a write
  is under way for the first line of the queue and no other. `ChatOneWrite` follows.
- *HelloMemoryProofs.* Of MemoryMgr, `MemInv`: FreeListSound describes a list by a set of blocks and
  the links in it (a recursive walk is out of reach), and holds together with where each thread is
  in its critical section. `ListsSound`, `HandedOut`, `Assertions` and `Fits` follow: the last says
  that the block at the head of a list has room for what was asked for, because the size chooses the
  pool and no block comes into the list of another one. The object pool takes MemoryMgr's steps or
  leaves its variables alone, so the invariant carries over: `PoolListsSound`, `PoolAssertions`,
  `PoolFits`. `PoolInv` adds what the holder of the pool's own mutex knows and where each node is:
  `PoolListSound` of its list, and `PoolMemoryAccounted` of what both lists have together. They take
  the nodes to be outside of what malloc gives, as `initPool` lays them out in one buffer.
- *EarlierProofs.* `EarlierInv` has the types and four parts. `Apart`: a client is in one place,
  from the thread that is to connect it over the backlog and main to the buffer and the map of one
  server; it rests on NoneTwice (the backlog has nobody twice). `Watching` and `Reading`: what a
  worker knows of its clients at each place of its loop, from which `EarlierWatchesAll` follows,
  although a client that leaves does not mark the set of descriptors as changed. `Counted`: the
  counter and the number of clients held change together, but for the moment in which main has
  handed a client on and not yet counted it; this is `EarlierCountHeld`. `Streams`: bytes not yet
  handled, on the way and still to be sent add up to whole logins (`Whole`), and a socket that
  select has returned still has bytes when it is read (`Returned`, needed because recv would
  block); this is `EarlierStreamWhole`. The arithmetic of remainders is in the lemmas RestOf and
  Multiple. Two assumptions come from the code: the message buffer has room for one recv beyond an
  unfinished login (it is five times as long as the receive buffer), and no client belongs to two
  threads (each has a range of the array of its own).
- *PingProofs.* Two inductive invariants that need nothing of each other. `ListInv`: `InTurn` says
  that a client and its session speak in turn, and that nothing but a first request is on its way
  before the connection is accepted; `Told` that a list which is held, or an "ok" or a list on its
  way, is either the present one or the flag of the session is up. `PingListFresh` is the part of
  Told about a client that pauses; it is not inductive without the parts about what is on its way.
  `ClockInv`: `InTime` says of a client without a slow turn that its wait has not ended, and
  relates the time since its last check to the time its wait has lasted, or, when a check is ready,
  to the wait before (on_write sets the timer without setting the time). From it NotOverdue and
  `PingNoEarlyDrop`. The limit is at least two ticks (it is 5000 ms; one
  tick cannot tell a quick turn from a late one), and no request and no reply is the absence of one.

Only model-checked: all liveness properties, the fairness parts of the refinements included, which
are out of the prover's reach. Every invariant and every action property of a run is proved as well.

## 6. Not modelled, and why

- *Relay* (BoostServer.cpp, boost_client.cpp). A second thread goes over a list of sessions while the
  first adds to it and erases from it, and `async_send` is given the buffer of a local string: from
  the first message on its behaviour is undefined, and no doc or test says what it should be.
- *MyBoost-source*: an earlier copy of MyBoost; duoserver.cpp is the chat server without database.
- *CUI, SUI*: Qt windows that run the chat programs as child processes and pass their text on.
- *Mongo.hpp, server1.cpp, client1.cpp, myserver.cpp and the like, HelloThread, HelloCpp,
  HelloSocket*: programs of a few lines that try out an API; no state of their own.
- *MessageHeader, CELLTimestamp, CELLNetWork, CELL*: message layouts, the clock, the start-up of the
  socket library, buffer sizes. They are constants of the modules.
- `checkSend`, `_fullCount`, `addRef`, `addSendTask`: called or read nowhere. The counters of
  `time4msg`, the wording of log lines and the query command are only printed.
- FD_SETSIZE (256 descriptors on Windows): the descriptor set has no size here.
- The thousands of clients of client.cpp beyond one; they share nothing but their thread.
- The clock is taken not to go back.
- The Windows branch of the earlier version.
- `send_time` of a chat message, which is set when the session is made and stored with each of its
  messages; no comment says what it should be. Several rooms (ports) share only the database and the
  thread.
