# GxNetBase: a TLA+ model

GxNetBase is a C++ network library on top of libevent: event loops and their
threads, timers, reconnecting TCP clients, TCP servers, a thread pool, an
asynchronous logger (`base/`), and blocking proxies for Redis and MySQL
(`dbproxy/`). The repository holds about 5000 lines of its own; the rest
(`third_party/`) is headers and binaries of libevent 2.0.21, hiredis-vip and the
MySQL client. It has no documentation and no tests: the code, with its comments
and assertions, is the only reference. It is built without `NDEBUG`, so a failed
`assert` aborts the process.

This directory specifies what the library does where threads meet: the queues
between threads, the life of connections and timers, and the log, and the
sequential components whose environment is hard: files that change, databases
that go away, processes that die. The modules are checked with TLC on small
instances, and the ones everything else rests on are proved with TLAPS for
instances of any size.

Contents

1. [The system](#1-the-system)
2. [The modules](#2-the-modules)
3. [What the runs show](#3-what-the-runs-show)
4. [Bounds](#4-bounds)
5. [Fairness](#5-fairness)
6. [What is proved](#6-what-is-proved)
7. [What the code does against its own comments](#7-what-the-code-does-against-its-own-comments)
8. [What is only model-checked, and what is not modelled](#8-what-is-only-model-checked-and-what-is-not-modelled)
9. [Plan](#9-plan)

## 1. The system

| Component | State | Operations | Talks to |
| --- | --- | --- | --- |
| `EventLoop` | `quit_`, `pendingFunctors_` and its size under `mutex_`, the wakeup eventfd, the libevent base, `timerMap_` | `loop`, `quit`, `runInLoop`, `queueInLoop`, `runAfter`, `runEvery`, `cancel` | called by everybody, from any thread |
| `EventLoopThread` | `loop_`, `thread_`, `mutex_`, `cond_` | `startLoop`, `stopLoop`, `getLoop`, destructor | owns an `EventLoop` |
| `EventLoopThreadPool` | `threads_`, `next_` | `start`, `quit`, `getNextLoop`, `getModLoop` | owns `EventLoopThread`s |
| `TimerId`, `TimerObj` | the event in libevent, type, callback | start and stop, as functors of the loop; `onTimer` | owned by the loop's `timerMap_` |
| `BaseConn` | `bufev_`, `tie_`, `bConnected_`, `bClosed_`, `bShutdownd_`, callbacks | `sendPdu`, `read`, `write`, `close`, `shutdown`, `doAccept`, `doConnect` | its loop; called back by libevent |
| `TcpClient` | `connMap_` (one connection per `ConnInfo`), `connList_` | `addClient`, `delClient`, `getNextConn`, handlers | its own loop and the loops of its connections |
| `TcpServer` | `connList_`, `listeners_` | `addServer`, `delServer`, `onAccept` | its own loop and the loops of its connections |
| `ConnMap`, `ConnList`, `ConnsMap` | connections, under a mutex each | add, delete, look up, send to all, stop all | used by clients, servers and applications |
| `ThreadPool` | `_tasks`, `_stop`, workers, `_mutex`, `_condition` | `schedule`, destructor | tasks call back |
| `AsyncLogging` | `loggers_` under `mutex_`, `running_`, the log thread's buffers | `append`, log thread, destructor | writes to `LogFile` |
| `LogFile` | the open file, `writtenBytes_`, `fileDay_`, `lastFlush_` | `append`, `rollFile`, `flush`, removal of old days | called by the log thread only |
| `FileNotify` | `fileMap_`, `notifyMap_`, inotify | `addWatch`, `rmWatch`, `onRead` | one loop |
| `MysqlProxyConn`, `RedisProxyConn` | one connection to a database, connected or not | commands, with reconnection | one thread each |
| `ConnInfo`, `ConfigReader`, `StringOps`, `FileOps`, `SocketOps`, `Logger`, `Buffer`, ... | values, parsing, wrappers of system calls | | |

How they interact. A loop is run by one thread, which owns everything that hangs
on it; every other thread hands it a functor (`queueInLoop`) or asks it to quit,
and wakes it through an eventfd. A call made on the loop's own thread is executed
at once (`runInLoop`), past what other threads have queued. libevent holds raw
pointers to timers and connections, so objects must keep themselves alive
(`tie_`, callbacks bound to a `shared_ptr` of the object itself) exactly as long
as libevent may call them, and must then let go. Clients and servers live on one
loop and may put their connections on others. Maps of connections are shared
under short critical sections, so what one section has seen may be stale in the
next. The logger has a thread of its own that must drain what was logged before
it stops.

What is hard, then, is ordering. The properties that make each component
correct:

* *EventLoop*: the loop does not block with work queued; functors queued by a
  thread are executed in order, once; `quit()` from anywhere ends the loop.
* *EventLoopThread*: start, stop and destruction return in every order, whatever the
  loop is doing.
* *Timers*: libevent's pointers are valid; a cancelled timer stays cancelled; a
  one-shot timer fires and goes.
* *Connections*: an object that libevent can call is alive; an object that it
  cannot call any more is released.
* *TcpClient*: a client that was added keeps connecting until it is deleted, and
  a deleted client closes its connection; the list that serves callers names
  the connection that is up.
* *TcpServer, ConnMap*: a connection is served or gone; its data is written in
  order; nobody waits for a mutex it holds.
* *ThreadPool*: tasks are started in order, once; no worker sleeps on work; the
  destructor drains the queue.
* *AsyncLogging, LogFile*: records reach the files in order, once, in the file of
  their day; what a crash can lose is recent.
* *EventLoopThreadPool, ConnList*: every index is in range, and everybody is
  served in turn.
* *FileNotify*: the maps agree with what the kernel watches, no change is
  overlooked, and nobody is called who does not want to be.
* *RedisProxyConn, MysqlProxyConn*: an answer belongs to the call that returns it;
  a statement takes effect as often as its caller may think; what was committed
  is what was executed.
* *ConfigReader, StringOps, ConnInfo*: what was written is what is read; parts and
  substrings are whole; every address gets its turn.

`PROJECT.json` lists the places in the code where each of these could go wrong
("hazards"), with the properties that watch over them.

## 2. The modules

```
                     FunctorQueue                      promise of a queue to its users
        implemented by |      | assumed by
   .-------------------+--.   +------------+-------------.
   EventLoop   ThreadPool AsyncLogging   Timer   TcpClient, TcpServer (in Tcp)
      |                        |
   EventLoopThread          LogFile

   by themselves:  EventLoopThreadPool  ConnList  FileNotify  ConfigReader
                   StringOps  MysqlProxyConn  RedisProxyConn
```

**FunctorQueue** is the abstract specification: functors are submitted, wait in
one inbox and are executed in that order; the loop's own thread may execute one
past the inbox; only a queue that was asked to stop drops what waits. `EventLoop`,
`ThreadPool` and `AsyncLogging` each implement it under a refinement mapping.
`Timer` uses an instance of it as its loop; `TcpClient` and `TcpServer` have
several loops and keep one FIFO per loop, which is what the promise allows.

**EventLoop** (`EventLoop.cpp`). `pc` is the place of the loop's thread:
the test of `quit_`, the poll, the dispatch of active events (`handleWakeup`, or
`io` for any other callback), the drain of `pendingFunctors_`, the exit. A call
from another thread is two steps, because `queueInLoop()` and `quit()` release
the lock, or set the flag, before they write the eventfd. The eventfd is a
counter that saturates; a write to a full one fails and is only logged. User
code is a window (`pc` in `io`, `functor`, `idle`) in which the loop's thread may
make any call of the interface.

**EventLoopThread** (`EventLoopThread.cpp`) composes an `EventLoop` with the
object that starts and joins its thread. Its owner is in one member function at
a time (`owner`); waiting for `cond_` is a state of its own, so that a
notification before the wait is lost, as it is in the code. The destructor can
also run inside the loop, where it detaches the thread instead of joining it.
`EventLoops` puts the two side by side: one set of variables, the specification of
the loop alone and that of the loop with its thread.

**Timer** (`TimerId.cpp` and the timer half of `EventLoop.cpp`). A timer is
started and stopped by two functors of its loop, queued from any thread, or run
at once on the loop's. Creating the `TimerObj` arms it, erasing it from the map
destroys it. `callback` is the timer whose `onTimer()` the loop is inside of;
the callback may cancel timers and start new ones. One that cancels its own timer
destroys the object `onTimer()` goes on to use (`UseAfterFree`): the process dies,
nothing happens, or another timer that got the same memory is stopped (`damaged`).
The loop may end, and
be deleted by its own thread or by another. Time itself is left out: an armed
timer may fire whenever the loop dispatches.

**TcpClient** (`TcpClient.cpp` with the connecting half of `BaseConn.cpp`, and
`ConnMap`, `ConnList`, `ConnInfo` as it uses them) follows one `ConnInfo`. Each
handler is split at its critical sections; `frame[l]` is the handler that loop `l`
is in, and nobody else gets in between on the same loop. `connLoop`, the loop of
the connections, is `ClientLoop` or another one (`Apart`), as `getNextLoop()`
would have it; a behaviour keeps it. Each connection has its own position in the
list of addresses (`next_`). The network connects, refuses or drops a connection;
the application adds and deletes the client from any thread and closes or shuts
down a connection it was handed.

**Tcp** puts `TcpServer` and an instance of `TcpClient` (`Client!`) beside each other.
They share the code of `BaseConn` and no state, so `ClientSpec` lets the client run
while the server rests, and `Spec` is that of the server alone. The properties of the
client are named here, and `TcpProofs` has the theorems about both.

**TcpServer** (`TcpServer.cpp`, `ConnMap.h` and the accepting half of
`BaseConn.cpp`) has a listener on one loop and connections on others. Threads
have stacks of calls, because callbacks nest: a walk through the map
(`sendPdu()`, `stopConn()`) calls connections, which may run at once on their own
loop and call the application back. The application keeps its connections in a
`ConnMap`, adds them in `onConnect()` and takes them out in `onClose()`.
`delServerInLoop()` passes a null pointer to libevent when the server listens;
the model ends the process there (`crashed`).

**ThreadPool** (`ThreadPool.h`). A worker is about to take the mutex (`test`), in
`wait()`, running a task, or over. Tasks may schedule tasks, also while the
destructor waits for them. Waits may end spuriously.

**AsyncLogging** (`AsyncLogging.cpp`). Threads append to a list under the mutex and
notify afterwards; the log thread takes the whole list, formats it record by
record into the buffers for the file and for the screen, and writes each buffer
out at its own level. `running_` is reset, and the last notification sent,
without the lock.

**LogFile** (`LogFile.cpp`, run as a part of `MCSequential`). Files are named by the second in which they were
begun and rolled by day and by size; the directory of the day `autoRm_` days ago
is removed. Between a record and the disk is the buffer of a `FILE`, which the C
library may write out in part at any time and a crash loses. Somebody may delete
files, opening may fail, the file system may fill up (`Fill`), so that any write may
fail and take the buffer with it, the process may crash or be restarted. It is not
composed with `AsyncLogging` in one module: what one passes (`written`) is what
the other is given, one `append()` at a time, at least every flush interval.

**RedisProxyConn** (`RedisProxyConn.cpp`). Several proxies, each used by one
thread, share a counter and a hash on servers that are external. A call is
written to the connection; a server executes or refuses it; the wrapper makes
its result of the reply (`Result`), or the library gives up and the wrapper
releases the connection, leaving behind a request that may still be executed.
A call in progress keeps the set of answers (`right`) that the data would have
given at some time since it began; `returned` is the call that returned in the
step just made. The numbers of `incrby()` are passed for `%lu`: a negative one
is a large one, which the server refuses.

**MysqlProxyConn** (`MysqlProxyConn.cpp`). The client library and the server are
external and make up a third of the module: the library reopens a session by
itself when it finds the connection broken (`MYSQL_OPT_RECONNECT`), but not in
the middle of a transaction; a session may end at any time and rolls back; a
statement whose answer is lost may have been executed, or be executed later
(`pending`). `command()` is three steps, because sessions may end between its
first attempt, `MysqlInit()` and its second. `effects` counts how often the
statement of each call took effect, `txn` is what the application takes for its
transaction, `closed` the one that the last call was told to be committed.
`AutoMysqlRes` holds one result, with the rest of them unread on the connection.

**FileNotify** (`FileNotify.cpp`). inotify is external: it watches inodes, numbers
its watches and queues events. Other programs write, replace and remove files
between any two steps; `onRead()` is two steps for each event, before and after
the callback's return, and in between the callback may watch files and remove
watches. `seen` is what the application read when it was called
last; `missed` and `gone` name the files for which the code cannot do better.

**EventLoopThreadPool** (`EventLoopThreadPool.cpp`) has a step for each access that
`getNextLoop()` makes to `next_`, for several callers. **ConnList** (`ConnList.cpp`)
is the same idea under a lock, with connections that come and go.

**ConfigReader** (`ConfigReader.cpp`) writes the whole map for every value set, after
emptying the file; the file may not open, a write may fail half-way, the process
may die in between and start again. A text is
a sequence of words, with one word (`long`) for what does not fit in the line.
A file is read by positions: where its lines start (`Starts`), what stands there
(`Line`), what a line says of which key (`_ParseLine`), and for each key the first line
that says something of it, since `insert()` keeps what is there. `durable` names the keys
whose pairs have a line of their own (`OwnLine`) and read as they are written
(`Faithful`): `_WriteFIle()` makes no attempt to quote anything.

**StringOps** (`StringOps.cpp`) has no state: `splitex()`, `utf8_substr()` and
`sprintfex()` are functions with the positions of the code, `npos` and what
becomes of it included, and beside them stand the definitions they are to
agree with.

`MCSequential` puts these six and `LogFile` together for TLC: the initial state
chooses the one that runs (of `Components`), the others stay as they are. The assumptions on the
constants of these modules are stated there.

Names follow the source (members keep their underscore); the `map` of
`PROJECT.json` gives the lines each definition stands for. Definitions marked
`\* fault:` are wrong variants of the definition that follows them, each a
mistake one could make in that code; a property is listed with a fault that
violates it (`mutants`), which shows that it depends on the code.

## 3. What the runs show

Each run is a `.cfg`; unless noted it passes. State counts are those of TLC's
distinct states.

| Run | States | What it shows |
| --- | --- | --- |
| `EventLoop` | 30,428 | Two foreign threads and the loop's own thread queue three functors, quit and wake the loop in every order: no wakeup is lost while the loop can block, the loop implements the FIFO promise of FunctorQueue, and, fairly scheduled and with functors that return, serves every functor queued while it runs and returns when asked to quit. |
| `EventLoopThread` | 8,109 | Start, use, stop and destruction of a loop thread, by its owner or by user code on the loop itself, composed with the whole EventLoop: nobody waits for a notification that has been given or for a thread that will not see the quit, and, with both threads scheduled and user code that returns, every call of the owner returns, whatever the loop's thread was doing when it was made and although notifications and wakeups may be spurious. |
| `Timer` | 25,136 | A one-shot and a persistent timer are created, cancelled and fired from the loop's thread and from another one in every order: a timer is destroyed under its own callback by the cancel that this callback makes, with what the memory then does, and by nobody else; a cancelled timer stays gone, and on a fairly scheduled loop a one-shot timer fires. |
| `Timer_destroy` | violation | An EventLoopThread's owner deletes the loop while it still has timers, whose destructor asserts that it runs in the loop's thread. |
| `TcpClient` | 134,264 | With the connections on the client's loop or on another one, over every order of connects, failures, retries and four calls of the application: a connection that libevent refers to stays alive and no undeleted client is lost (on two loops as long as the application does not close connections itself and the retry delay outlasts a close), a client that is not deleted keeps connecting to each of its addresses unless a failure that is told from inside the call ends the process, and on one loop the list served to callers holds just the open connection and every connection of a deleted client gets closed. |
| `TcpClient_tie` | violation | With the connection on a loop of its own, a stale closeInLoop() that runs between doConnect() and BuildConnect() leaves an open connection without its tie. |
| `TcpServer` | 843,986 | Two accepted connections, one on the server's loop and one on another, while the application sends to, closes and stops all connections of its map from a thread of its own and from the server's loop, and peers hang up: a sender's data is written in order without holes, the walk through the map cannot lock itself out, and at rest every connection is served or gone. |
| `ThreadPool` | 20,841 | Three workers and four tasks, scheduled from outside and by running tasks, with spurious wakeups: tasks start in order, each once, no worker sleeps while more tasks wait than workers are coming, and the destructor returns and leaves no scheduled task unrun. |
| `AsyncLogging` | 50,080 | Two threads log four records while the logger is being destroyed: batches and buffers keep records in order, each once, what reaches the screen is in the order of the file, every record logged in time is written, and the destructor returns although its notification may be lost. |
| `LogFile` | 245,212 | Three records over three short days, rolling by day and by size, with removed directories, partial flushes, files that cannot be created or are deleted, a file system that fills up and takes what it is given again, crashes and restarts. |
| `RedisProxyConn` | 2,574,925 | Two proxies, three calls of any kind, with requests that are refused, answers that come too late, requests that are executed after their caller has given up, and hashes that expire: no call takes another call's reply for its own, and no counting call counts twice. |
| `Sequential` | 1,013,611 | The components that no thread shares with others, one per behaviour, and the round robins: FileNotify against files that change at any moment, MysqlProxyConn against connections that are lost at any moment, ConfigReader across crashes and failing files, ConnList while connections come and go, getNextLoop() with three callers at once, and splitex(), utf8_substr() and sprintfex() for every short input. |

The properties, each stated next to its definition, are the following.

* `EventLoop`: `NoLostWakeup` (the eventfd is readable, or about to be, whenever
  the loop can block with functors queued), `ImplementsFunctorQueue`,
  `RequestsServed` (`FunctorServed` and `QuitHonoured`). The first is the property of the one line that
  wakes the loop only when the queue was empty.
* `EventLoopThread`: `NobodyWaitsInVain` and `CallsReturn`, for every call of the owner
  against everything the loop's thread and its user code may do meanwhile. The first
  is what the second rests on: a quit that was given before the new thread entered
  `loop()` is not forgotten (the fault resets `quit_` there, as loops of this kind
  often do), and a notification is never waited for after it was given.
* `Timer`: `FiringAlive`, `CancelSticks`, `OnceFires`. `CancelSticks` excepts a timer
  that is created by another thread and cancelled on the loop's: the cancel
  overtakes the start and has no effect at all. A callback that cancels its own
  timer destroys the `std::function` that is running (`TimerId.cpp:64`); `FiringAlive`
  says that this is the one way to lose a firing timer: a cancel by another thread or
  from the queue cannot come in between. `OnceFires` excepts what the freed memory
  may have done (`damaged`).
* `TcpClient`: `TiedWhileOpen`, `ClientKept`, `TriesEveryAddress` with the
  connections on either loop, `ListMatchesMap` and `DeletedGoes` on the client's.
  Each but the first excepts (`overlapped`) a client that is added while an
  earlier one for the same `ConnInfo` is still closing: the close of the earlier
  one erases the key of the new one. `TriesEveryAddress` also excepts the end of the
  process (`Running`): when libevent reports a failure by `event_cb()` from inside
  `bufferevent_socket_connect_hostname()`, as for an unreachable network, the
  bufferevent is freed and `BaseConn.cpp:300` asks a null pointer for its socket. On two loops, behaviours are those in which
  the application does not close connections itself and the retry delay
  outlasts a close (`AppCloses`, `PatientRetry`); the two properties that are left
  to one loop do not hold there, because `delClient()` can come between the
  critical sections of `onConnect()`, which then registers the connection of a
  deleted client. `TriesEveryAddress` rests on the detail that `onRetry()` passes
  the connection its own `ConnInfo`, so that the assignment keeps `next_`.
* `TcpServer`: `StreamHasNoHoles`, `NoSelfLock`, `ServedOrGone`. `NoSelfLock` is why
  `close()` queues even on its own loop ("queue in loop is right",
  `BaseConn.cpp:147`).
* `ThreadPool`: `NoWorkerSleepsOnWork` (one `notify_one()` per task is enough),
  `DrainedOnReturn`, `ImplementsFunctorQueue`, `DestructorReturns`.
* `AsyncLogging`: `ScreenAgrees`, `ImplementsFunctorQueue`, `RecordWritten`,
  `DestructorReturns`. Of the two liveness properties only the last needs the
  timeout of the log thread's wait, because the destructor's notification can
  be lost.
* `LogFile`: `FilesInOrder`, `RightDay`, `BufferIsYoung`, `LossHasCause`. `RightDay` and
  `BufferIsYoung` rest on `MaxGap`, the longest time between two calls of
  `append()`; the log thread calls it, with nothing, at every flush interval.
  `BufferIsYoung` is about what is in the buffer, where a crash would lose it; what a
  flush that fails has dropped from it is not. `LossHasCause` lists what `append()` can
  lose, the writes included whose failure `LogFile.h:63`, `68` and `73` ignore.
* `RedisProxyConn`: `AnswersAreCurrent`, `CountedAtMostOnce`. Both are about the null
  pointer the library returns when it gives up: the connection has to go with
  it, and the call must not be repeated. Failing values are excepted, because
  the wrappers use them for several things: a call that is refused by the
  server returns what an empty hash would give, `incr()` returns 0 when it is
  refused and -1 when nobody knows, `command()` returns true even when the server
  refuses, and `hmset()` returns false always (it looks at the integer of a
  status reply).
* `FileNotify`: `EntriesMatchWatches`, `NothingUnseen`, `CalledIfWanted`. A file that
  changes between the callback for its old inode and the watch of the new one
  is not reported (`missed`); a file that is replaced leaves its old descriptor
  in `fileMap_`, so that a later `rmWatch()` does not stop its callbacks (`gone`).
* `MysqlProxyConn`: `EffectsBounded` (a statement given to `command()` may take effect
  twice, one given to `query()` once), `CommitKeepsTheEnd`, `ResultsAreRead`. What a
  commit reported as successful is certain to have kept is the end of the
  transaction: the calls before a lost connection are gone although each of
  them reported success. (`commit()` returns what `mysql_commit()` does, which is
  0 for success: as a `bool` it is true when it failed. The property goes by the
  library's answer.)
* `ConfigReader`: `ValuesKept`. What is excepted is what the file format cannot hold
  and what failures destroy: everything, when the process dies while the file is
  being written or after a write that failed, or when a value is set although the
  file could not be read (`ConfigReader.cpp:84` leaves the map empty, and the next
  write puts that into the file); and the value that is set while the file cannot be
  opened.
* `ConnList`: `ServedInTurn`. Each deletion may make the round robin pass a
  connection by, so the bound grows with them.
* `EventLoopThreadPool`: `IndexInRange`, for a caller that is alone in the function.
  Two callers at once can push each other past the end, without limit: the
  second of two that passed the test increments beyond it, and a third that
  read before writes the larger value back.
* `StringOps`: `StringsAgree`, over all strings of up to five characters, or three
  multi-byte ones. `splitex()` with a negative `n` is excepted where it is wrong:
  asked for the first part, counted from the end, it loses characters, and
  asked for more parts than there are, in a string that begins with a
  delimiter, it searches from the end again.

## 4. Bounds

| Constant | Value | Why it is enough |
| --- | --- | --- |
| `EventLoop`: `Callers`, `Functors`, `EfdMax` | 2, 3, 2 | The caller that finds the queue empty and one that does not, against a quit by a third thread; one functor in the batch, one in the queue and one to come; the eventfd saturates with two writers. |
| `EventLoopThread`: `Clients`, `Functors` | 1, 2 | The owner and one user of the loop, besides its own thread. |
| `Timer`: `Timers` | a one-shot and a persistent one | Timers only meet in the map, in a callback that cancels one, and in memory that is used again. |
| `TcpClient`: `Conns`, `ConnLoops`, `Addrs`, `MaxCalls` | 2, 2, 2, 4 (2, 1, 1, 3 in `_tie`) | Delete and add again needs two connection objects; the connections share the client's loop or have another; two addresses make a rotation; four calls of the application allow add, delete, add, delete or a close in between. Retries and reconnects are not bounded. |
| `TcpServer`: `Conns`, `Loops`, `Pdus`, `MaxCalls` | 2, 2, 2, 2 | One connection on the server's loop, where calls run at once, and one on another; two data units for an order; two closes or stops that race. Callers are a thread without a loop and the server's loop. |
| `ThreadPool`: `Workers`, `Tasks` | 3, 4 | More tasks than workers, and a worker that comes back while another one is woken. |
| `AsyncLogging`: `Threads`, `Records`, `MaxBuf` | 2, 4, 1 | Two batches of two; a buffer that is full after two records, printed records in only one of them. |
| `LogFile`: `Records`, `RollSize`, `MaxTime`, ... | 3 (one of size 2), 2, 7, days of 3 seconds, months of 2 days | Records in the buffer and in files when writes begin to fail, and one after. Rolling by size within a second, by day, in a month that comes again; two days' directories and their removal. One call's data fits in a file, as it does with the default `rollSize_` of 1 GiB against buffers of 1 MB; a smaller `RollSize` in the configuration is not refused by the code. |
| `RedisProxyConn`: `Proxies`, `Items`, `Values`, `Width`, `MaxCalls` | 2, 2, 1, 8, 3 | One call that is given up, one that follows it on the same proxy and one of another proxy; the largest number is 3, so that counting can overflow. |
| `FileNotify`: `Names`, `MaxChanges`, `MaxWd` | 2, 5, 3 | A file is made, watched, replaced and changed again while its old watch ends, with a second file's events in between; a descriptor, its successor and the other file's. |
| `MysqlProxyConn`: `MaxCalls`, `MaxResults`, `Calling` | 3, 2, call 2 | One statement before the lost connection, the one that is repeated and one after it, in one transaction or across its end; results read, left and lost. |
| `ConfigReader`: keys, values, first files | 2, 7, 2 | Values with a blank, comment, newline or too much in them, and none, before and after the other key. |
| `ConnList`: `Conns`, `MaxDeleted` | 3, 2 | A deletion before, at and behind the position, and a second one. |
| `EventLoopThreadPool`: `Callers`, `Threads`, `MaxIndex` | 3, 2, 4 | Two callers push each other past the end while a third comes later; past `MaxIndex` nobody reads. |
| `StringOps`: lengths, `n`, `Buffer` | 5 (3 multi-byte), -7..7, 4 | Every arrangement of delimiters around two parts; more parts asked for than there can be; texts from empty to twice the buffer. |

Counters are unbounded where they cannot grow by themselves. Allocation failures
are left out everywhere. Symmetry is used only in a run without liveness, over data units in `TcpServer`.

## 5. Fairness

Liveness is checked under `FairSpec`; everything else under `Spec` or a
specification that implies it. The assumptions are

* threads are scheduled: every step of a thread that can go on is weakly fair,
  including the second half of a call it has begun;
* a poll returns when the eventfd is readable. It need not return for any other
  descriptor;
* user code returns. Strongly fair in `EventLoop`, because code that keeps
  calling `quit()` enables and disables its own end; what user code calls is up
  to it;
* timers that stay armed fire, and a socket that is connecting is answered,
  strongly fair because the loop may be busy with others in between. libevent
  fires all timers that are due in one pass, and a connect times out;
* the system does not refuse sockets and memory for ever (`Dial` in `TcpClient`);
* a timed wait ends (`AsyncLogging`).

Nothing is assumed of the application: nobody has to call `loop()`, to queue, to
quit, to destroy, to log or to reconnect by hand, and no peer has to answer
well.

## 6. What is proved

Theorems hold for any set of threads, functors, workers, tasks, files, loops,
connections, log records, keys and values. The assumptions are the named `ASSUME`s of the modules: the loop's
thread is not one of its callers, the owner of an `EventLoopThread` is not one of its
other users, the eventfd can hold at least 1, the sets of
workers and of the connections of a list are finite, a task is neither one of
the places of a worker nor `none`, no file is called `none`, the calls of
`MysqlProxyConn` that leave results are among those that are made, the
loops of a server's connections are loops and the application's thread is not, a
`ConnInfo` lists an address, no connection is called `none`, `"absent"` or `"null"`. Of
`ConfigReader` it is assumed that no two keys are equal and that the keys the application
uses contain no `=`, `#` or newline, have no blanks at their ends and fit in a pair
(`KeysAssumption`); nothing is assumed of the values it sets and of the files it finds. Of
`LogFile` it is assumed that days, months and intervals are natural numbers, those
of days and months not 0 (`ClockAssumption`), that no time and no record is `none`, and
that `append()` is called before a month is over (`GapAssumption`). The log thread
calls it at least every `flushInterval_` seconds, which is 1 unless the configuration
has another number; it could have one that is longer than a month, and then `RightDay`
would not hold: a record would go on in the file of last month. Some theorems have an
assumption of their own: `LoneCallerGetsLoop` that the pool has a loop, `ClientTiedWhileOpen` and
`ClientStaysRegistered` the `CarefulUse` of connections on another loop (the retry delay
outlasts a close, the application does not close connections itself). The last two are
where the code does not keep what it promises; `TcpClient_tie` shows what happens
without `CarefulUse`. With one loop nothing is assumed of the application.

| Module | Theorem | Statement |
| --- | --- | --- |
| `EventLoopProofs` | `QueueExactlyOnce` | In the abstract queue, as the loop implements it, every functor is in exactly one place: not submitted, waiting or executed once, or dropped. |
| `EventLoopProofs` | `Typing` | The loop's variables keep their types; the eventfd counter never exceeds its capacity however many threads write it. |
| `EventLoopProofs` | `SizeIsLength` | The counter that decides whether a caller wakes the loop is the queue's length whenever mutex_ is free. |
| `EventLoopProofs` | `WakeupIsNotLost` | The loop never blocks with functors queued unless a wakeup is pending or about to be written. |
| `EventLoopProofs` | `QuitIsNotLost` | The loop never blocks on a quit() it has not seen. |
| `EventLoopProofs` | `Refinement` | The loop with its lock, batch, eventfd and multi-step calls implements FunctorQueue, for any number of threads and functors. |
| `EventLoopProofs` | `LoopExactlyOnce` | No functor given to the loop is executed twice, executed after it was dropped, or lost. |
| `EventLoopProofs` | `WaitsEnd` | Who waits for the loop's thread waits for something it has yet to do: startLoop() for a notification that is to come, stopLoop() and the destructor for a loop that is on its way out or will see the quit, for any number of users and functors and whenever quit() was called, also before the loop was entered. |
| `TimerProofs` | `NoneDiesFiring` | A timer is destroyed while its own callback runs only by a cancel that was executed at once on the loop's thread, which is that of the callback: never by the cancel of another thread nor by one that was queued, for any timers and threads, and also after memory was used that such a cancel had freed. |
| `TimerProofs` | `CancelledIsGone` | A timer that was started and cancelled is out of the map for good, whichever threads asked for it, unless the loop's own thread cancelled it past a start that another thread had queued. |
| `TcpProofs` | `NobodyLocksTwice` | A thread that walks through the map of connections with its mutex held never gets into onConnect() or onClose(), which lock it, for any connections, loops and callers. |
| `TcpProofs` | `NoneIsForgotten` | However accepting, closing, hanging up and stopConn() overlap, at rest every connection is served or gone, its socket closed and nothing left that keeps it. |
| `TcpProofs` | `StreamsAreWhole` | What one thread sends on a connection with sendPdu(), from its own loop or another, is written in its order, once and without a hole, unless the bufferevent refuses a write, however closes and hang-ups overlap. |
| `TcpProofs` | `ClientTiedWhileOpen` | However connects, failures, closes, retries and calls of the application overlap, for any connections and addresses, a connection that libevent refers to holds on to itself; with the connections on a loop of their own, as long as a retry waits longer than a close takes and the application leaves closing to the client. |
| `TcpProofs` | `ClientStaysRegistered` | Under the same conditions a client that was added, and neither deleted nor shut down, has its key in the map whenever no handler runs, unless it was added while an earlier client still lingered. |
| `TcpProofs` | `ListIsRegistered` | With one loop the list that getNextConn() serves holds, between handlers, exactly the registered connection while it is up, once, whatever the application calls. |
| `ThreadPoolProofs` | `Typing` | The variables of the pool keep their types, for any finite set of workers. |
| `ThreadPoolProofs` | `WorkIsNotSleptOn` | While a worker waits there are at least as many workers on their way to the queue as tasks in it: one notify_one() per task is enough. |
| `ThreadPoolProofs` | `Refinement` | The pool implements FunctorQueue: tasks start in the order in which they were scheduled, each once. |
| `ThreadPoolProofs` | `NothingIsLeft` | When the destructor has returned the queue is empty, no task runs and every scheduled task has been started, also those scheduled by other tasks meanwhile. |
| `AsyncLoggingProofs` | `LogKeepsOrder` | The logger implements FunctorQueue: records are formatted in the order in which they were appended, none dropped or formatted twice, across batches, buffers and timeouts. |
| `AsyncLoggingProofs` | `ScreenFollowsFile` | The screen shows exactly the records that are to be printed, in the order of the file, however the two buffers fill up. |
| `SequentialProofs` | `FilesKeepTheOrder` | The files in the order of their names, with the buffer behind them, hold the records in the order in which they were logged, each once and all but those known to be lost, through rolling, partial writes, deleted files, files that cannot be opened, writes that fail, crashes and restarts. |
| `SequentialProofs` | `FilesOfTheirDay` | Every record is in the file of its day, although append() compares the day of the month only, as long as it is called before the month is over. |
| `SequentialProofs` | `RecentLoss` | What is still in the buffer, where a crash would lose it, is no older than the flush interval and the time between two calls of append(). |
| `SequentialProofs` | `LossExplained` | A call of append() loses a record only with the directory of the day that has expired, because its file was deleted or could not be created, or while the file system refuses writes, whichever of ::fwrite(), ::fflush() and ::fclose() fails then. |
| `RedisProxyConnProofs` | `EveryAnswerIsCurrent` | Whatever a call returns, unless it is also what the call returns when it fails or is refused, is the answer to this very call: a connection never holds more than the request or the reply of the call that is made on it. |
| `RedisProxyConnProofs` | `NoneCountsTwice` | What counting calls were told to have counted is never more than the counter, and the counter never more than what was tried, for any number of proxies, calls and requests left behind. |
| `SequentialProofs` | `LoneCallerGetsLoop` | A caller that has getNextLoop() for itself gets a loop of the pool, for any number of threads and callers and whatever overlapping callers left in next_ before. |
| `SequentialProofs` | `MapsAgreeWithInotify` | Every watch of inotify has an entry, and an entry without a watch is about to be removed, for any files and any number of changes. |
| `SequentialProofs` | `DescriptorsEnd` | A descriptor whose IN_IGNORED is queued or being handled watches nothing any more: entries are never removed under a live watch. |
| `SequentialProofs` | `NoStrayCallbacks` | Callbacks are for names that are watched, or whose file went while it was. |
| `SequentialProofs` | `NoChangeIsOverlooked` | When the events are read, the application has seen the present contents of every watched file that did not change between two watches. |
| `SequentialProofs` | `RepeatedAtMostOnce` | However many connections are lost and whatever sessions given up still execute, the statement of a query() takes effect at most once and that of a command() at most twice. |
| `SequentialProofs` | `NoRowIsDead` | After the AutoMysqlRes of a call is destroyed the connection has no result left to read, however many there were, were read by the application, or were lost with a connection. |
| `SequentialProofs` | `CommittedEndIsKept` | A commit that the library reports as successful has kept the end of the transaction: once the effect of a call in it counts, those of the calls after it do, whatever connections were lost in between. |
| `SequentialProofs` | `NoneIsLeftOut` | getNextConn() passes a connection by for at most one round and one more call per deletion, for any number of connections. |
| `ConfigReaderProofs` | `ValuesSurvive` | A value that was set and written is the value found after any number of later writes, crashes and restarts that can read the file, for any keys, values and files, but for a crash in a write or after one that failed, and for a value set when the file could not be read: the file that _WriteFIle() makes is read by _LoadFile() as the map it was made from, wherever a pair has a line of its own and reads as it is written. |

*EventLoop.* `NoLostWakeup` is not inductive: that a caller need not wake the loop
when the queue is not empty is only right because the counter it looks at is the
queue's length. The inductive invariant `IInv` adds to the types `SizeAgrees`
(counter and length agree whenever the mutex is free), `NoLostQuit` (the loop
does not block on a quit it has not seen: the flag is set before the eventfd is
written) and `BatchIsLocal` (the batch is empty outside of `doPendingFunctors()`).
Every action is then a case: those that queue or set the flag make the wakeup
they owe true, `handleWakeup` consumes it only where the queue is looked at
again before the next poll. The refinement maps the batch followed by the queue
to the inbox; the step that swaps them is a stutter, `BeginFunctor` is `Execute`,
`ClearPending` is `Stop`. `LoopExactlyOnce` follows from the refinement and the
theorem of the abstract queue.

*EventLoopThread.* `NobodyWaitsInVain` becomes inductive (`ThreadIInv`) with `NoLostQuit`
and with what the two threads know of each other: there is no loop exactly until the
thread has built it, and whoever is in `startLoop()` has created the thread. Calls of
any thread and the loop's own steps leave a quit that was given (`QuitStays`): only
`ResetQuit` takes it back, behind the last test of the flag.

*ThreadPool.* For `NoWorkerSleepsOnWork` the count of workers on their way to the
queue has to be followed through each action: `schedule` adds one task and moves
one waiting worker, if there is one; a worker that finishes adds one; a worker
that goes to sleep has seen an empty queue. `NothingIsLeft` needs that every task
scheduled is waiting or was started (`Kept`), and two more conjuncts: once `_stop` is set nobody waits (`StopWakesAll`), and a worker leaves
only an empty queue, which stays empty unless a task still runs whose worker
will come back (`LastLeavesNothing`).

*FunctorQueue.* `ExactlyOnce` is inductive (`QueueExactlyOnce`, in `EventLoopProofs`);
what it needs are facts about sequences without repetitions (inserting a new
element, splitting at the head), which are stated as lemmas.

*FileNotify.* Each of the three properties needs an invariant of its own, on top of
one that all share. `EntriesMatchWatches` is not inductive, because `onRead()` looks
an entry up twice, before and after the callback, and erases it by number: the
entry must not have come to belong to a new watch. `IInv` says why it has not.
No two names share an inode and new inodes are new (`InodesDiffer`), a watch is
on the present file of its entry and on no other's (`WatchesAreCurrent`), a
descriptor whose last event is queued or at hand watches nothing (`EntriesEnd`,
which is `DescriptorsEnd`), descriptors above the last are unused
(`LaterIsUnused`), and the two maps do not contradict each other
(`EntriesFound`). For `CalledIfWanted`, `CInv` adds that the maps, the watch and the
wishes of the application say the same of every file that has not gone
(`Faithful`): it is exactly the replacement of a watched file that breaks this.
For `NothingUnseen`, `UInv` adds that a file in use has been read in its present
contents, or an event is queued whose descriptor still leads to its callback
(`Told`), and that between the two halves of an `IN_IGNORED` it has been read unless
it changed just then. A change of one file leaves the events of the others queued
and their entries in place, which are the lemmas on `Change` and `Notify`.

*Timer.* `FiringAlive` becomes inductive with the fact that only timers in the map
are armed (`FInv`): a timer that fires is in the map then, while its callback
runs the loop does nothing but what the callback asks for, and a cancel that was
executed stays executed (`NextCancelledHere`), so that what it explains stays
explained. `CancelSticks` is about the order in which the queue holds what
threads gave it: `CInv` says that where both functors of a timer wait its start
is before its stop (`GivenInOrder`), that functors of the loop's own thread never
wait (`CallersKnown`), and that a timer whose stop was executed has no start left
in the queue, unless the loop's thread overtook it (`CancelledStay`).

*AsyncLogging.* The batch in hand followed by the list is the inbox, what was
written followed by the file's buffer is what was executed. Taking the list is
then a stutter, because the log thread takes it only when nothing is left of the
last one (`BatchInHand`); formatting a record is `Execute`, whether or not the
buffer is written in the same step. `ScreenAgrees` says where each record of the screen
stands among those of the file: the positions increase, and are those of all records
that are to be printed. Formatting a record adds the last position or none.

*RedisProxyConn.* `AnswersAreCurrent` follows from `OneAtATime`: outside of a call a
connection is empty, and in a call it holds its request, or its reply, and nothing
else. This is what `release()` is for: without it the reply to a call that was given up
would stay. `CountedAtMostOnce` needs sums over requests of any number of proxies, on
their connections or left behind. `Counted` says that there are two books with an entry
for each call made so far, one that leads from the counter to what was tried and one
that leads from what was acknowledged to the counter; every request that may still be
executed, and every reply that may still be read, owns an entry that is large enough. A
new call adds an entry to each (`NewEntry`), a request that is executed spends its entry
of the first (`Spend`) and fills its entry of the second (`Fill`), a reply that is read
spends that one, and a call that is given up leaves its entry to its request. So no step
has to add anything up. What the servers do to the rest of the data does not matter
(`WhatIsCounted`).

*MysqlProxyConn.* Where a statement can take effect is spread over three places: it
has (`effects`), a session that was given up may still do it (`pending`), or it
waits for the commit of the session that is open (`session.tx`). `Count` adds them
up, with a `Cardinality` for the middle one. A commit moves statements from the
third place to one of the others and losing a session only removes some; so one
attempt adds at most 1 to its own call (`SentOnce`), and `Allowed` follows the
attempts that `command()` makes.

`CommitKeepsTheEnd` says what a caller is told of a transaction whose connection
was lost: only its end is certain. It is a statement about `closed`, which nothing
but a commit fills in, so the invariant `TxnInv` must say of the open transaction
what the commit will find. `InOrder` is the property itself, for both
transactions and for the effects that sessions given up may still have.
`SessionHolds`: what the server holds of the transaction are its last calls, and
none of the calls has had an effect while the session does not commit by
itself; `EndIsHeld`: unless a call failed, the last call has had its effect, or
the session holds it, or the connection is broken in a transaction, so that the
commit fails; `LastRepeats`: a call that is repeated comes after all others. A
session that is lost takes a beginning of the transaction along, a new one
begins behind it, and this is why order survives. `ResultsAreRead` needs to know
when results can be there at all (`ResultsInv`): only while an `AutoMysqlRes` of the
last call is there, which is released first.

*ConnList.* `waited[c]` is bounded by a product, and a deletion adds one factor to
every connection that stays: what is inductive is that the calls waited so far
and those still to come before `c` (`Before`) stay below the bound together
(`TurnComes`). A call takes one from the second and adds one to the first; a
deletion adds at most as many as there can be connections, because `next_` is
within the list whenever a connection is returned and no connection is listed
twice.

*TcpServer.* `NoSelfLock` and `ServedOrGone` rest on `IInv`. `Stacks` lists the shapes a
stack of calls can have: nothing, one call of a connection of that loop, a walk
with the mutex held, or `onWrite()` on top of a walk that sends. The life of a
connection (`Life`) relates four pieces of state: its fields, its place in the
map, the stack and the queue of its loop. A connection that was accepted has
exactly one `BuildAccept()` ahead of it; one that is half up is being closed; one
that is up and not in the map will be registered or is on its way to its end;
one that is in the map is up. `Stopping` is about `stopConn()`, which takes all
connections out of the map at once at its end: those it has come to have a
`closeInLoop()` ahead of them, and no connection is registered while it walks.
Every step then changes the life of one connection, or moves one call.
`StreamHasNoHoles` needs a second invariant, `LInv`. What is sent on a connection is in
a line: first what is written, then the `onWrite()` its loop is in, then those queued on
the loop (`Line`). While the connection is up and no write failed, everything sent is in
that line, each thing once, and what one thread sends is in it in its order (`InLine`).
What the connection's own loop sends goes past the queue, so it must be that nothing it
sent before is still queued (`Sound`). Once the connection is down nothing is written any
more and only what was written matters (`Ordered`). That nothing is sent twice is about
the walks: a thread has not come to the connections left in its walk (`Senders`), and
what it sends was taken from what nobody has sent (`Unsent`).

*TcpClient.* None of the three properties is inductive, and `ClientIInv` is one invariant
for all. Its types (`ClientTypes`) say which handlers each loop can be in and which
functors wait on it, with one loop or two. `Parts`, which needs `Careful`, says for each
connection: an object that was not created is not referred to (`Fresh`); tie and
callbacks come and go together, and stay while there is a buffer (`Tied`); where a
`BuildConnect()` waits, nothing that was queued before it can cut the tie that
`doConnect()` has set (`Built`), which is what a stale `closeInLoop()` breaks in
`TcpClient_tie`; a timer, a timer that is about to be armed and a retry that is going on
exclude each other, and none is there while the connection has its tie (`Retried`); the
connection that the map names has arrived or is closed (`Mapped`). Three more parts are
about all connections, as long as no client was added while an earlier one lingered:
there is one at most that anything refers to (`Single`); a client that is wanted has its
key or is about to get it, and its connection was not shut down (`Kept`); and what
`connList_` holds between two handlers, and inside of those that change it (`Listed`).
That a reference may be anywhere, a flag, the map, the list, a queue, a timer or a running
handler, is `Held`, which is shown to be the `Alive` of the model. Each step has a lemma that
goes through the parts. `ListIsRegistered` is about one loop, where `Careful` holds.

*LogFile.* `append()` is a composition of functions: remove, roll, write, flush. So the
invariant is one of values. `Good` relates the name of the current file, the buffer of
its `FILE`, the files, the lost records and what was logged until now: the current
file is the last (`Shaped`), the files and the buffer behind them keep the order of
`appended` (`Ordered`), every record is in a file of its day (`Dated`), and each is in one
place or lost (`Accounted`). That each stage keeps it is a lemma about values
(`FlushStage`, `RemoveStage`, `RollStage`, `WriteStage`), and a step of the specification puts
some of them together. None needs the contents of a sequence: what matters of one is
the set of its elements (`ToSet`) and which comes before which (`Pairs`), and a
concatenation adds up both. In `rollFile()` the new file is opened before the old one
is closed; `RollIs` shows that the other order comes to the same, also when both are the
same file. `LossExplained` follows from the same stages. `RightDay` needs that the file is
one of the day of the last call (`LogToday`) and that a day of the month which is the same
after less than a month is the same day (`SameMonthDay`). For `BufferIsYoung`, `LogYoung` says
that what is buffered was logged since `lastFlush_`, which is at most a flush interval
before the last call.

*ConfigReader.* `ValuesKept` is about a running process, so the invariant (`ConfigIInv`)
has to say what a restart will find: while the process runs, what was given is in the
map; while it is down, in what its file reads as; and while nothing is being written,
what was given of the `durable` keys is what the file says, since a crash leaves just
these: none after a write that failed. The
step that needs work is the end of a write: that `_LoadFile()` of what `_WriteFIle()`
wrote has the value of every durable key (`WrittenIsRead`). The written file is a
concatenation, so it is described by the texts that are its first pairs (`Sums`). The
pair of a durable key begins where a line does, since the last pair before it ends in its
newline (`LastPair`); it is one whole line, which says the value of its key
(`SaidOfPair`). No line before it says anything of that key: where no value has a
newline, lines begin only where pairs do, at the least pair for which this would fail
(`StartsOfPairs`), and a line that begins with a key and a `=` is silent about other keys
(`SaidOfKey`), also when the rest of it has run together with the next pair. What lines
behind it say does not matter. Of the words, only `=`, `#`, the blank, the newline and
`long` mean anything.

*EventLoopThreadPool.* A caller that nobody met is the only one inside (`Lone`), so
what it read of `next_` is still there: below the number of threads when it comes
to read, whatever number it found when it tested.

Liveness is not proved. All three refinements that are checked are also proved.

## 7. What the code does against its own comments

Two runs check what a comment or an assertion says and find it violated.

* `Timer_destroy`. `~TimerObj()` asserts that it runs in the loop's thread
  (`TimerId.cpp:33`). An `EventLoopThread` with a timer left in its loop is usually
  destroyed by its owner, after the join: the assertion aborts the process.
* `TcpClient_tie`. "tie 'this', so can't free object manual" (`BaseConn.h:76`). With
  a connection on another loop than its client, a `close()` that is still queued
  when `onRetry()` begins to connect again takes away the tie of the new
  attempt; `BuildConnect()` then gives libevent a pointer to an object that
  no longer keeps itself alive: only the map does, or the retry timer that closing
  has armed, as long as they last. For the same reason a second `BuildConnect()` can meet the
  bufferevent of the first and abort on its assertion (`bufev_ == nullptr`,
  `BaseConn.cpp:271`).

The comment on `EventLoop::quit()` (`EventLoop.cpp:65`) asks that the loop be
closed in its own thread, while `stopLoop()` asserts that it is *not* in that
thread (`EventLoopThread.cpp:55`) and calls `quit()`. There the code is right and
the comment is not: `QuitHonoured` and `CallsReturn` hold for quits from any
thread.

## 8. What is only model-checked, and what is not modelled

Only model-checked, with the bounds above: liveness; and `StringsAgree`. What `StringOps` computes is defined by recursion
over its input, so that a proof would have to be one by induction over data, which
the provers at hand cannot instantiate; it is checked over all short inputs.

Left out of the modelled components: `addSignal()` (it registers a callback), the
global list of `EventLoopThread`s, the getters, `start()` and `quit()` of
`EventLoopThreadPool` (they call each thread's, which `EventLoopThread` has), the
destructor of `FileNotify`, callbacks that remove their own watch, and an overflow of
the queue of inotify (`IN_Q_OVERFLOW` drops events, so that changes would stay unseen
in spite of `NothingUnseen`),
`BaseConn::read()` (it copies bytes out of libevent's buffer), lines of a
configuration longer than 255 bytes or with a carriage return, files cut short within
a word, `utf8_substr()` of text that begins characters with invalid bytes, a `vsnprintf()`
that fails, wording and layout of log records.
Data races on memory that the code leaves unprotected are modelled where an
outcome can be named (`running_`, `quit_`, `EventLoopThreadPool::next_`); a race
inside a standard container (`TcpClient::connList_`) is not. The end of the process is a state after which
nothing happens: an aborted assertion, `delServer()` of a server that listens
(`crashed`), `bufferevent_getfd()` of a null pointer after a failure told from inside
the connect (`Running`), memory of a timer used after it was freed (`phase` is `"died"`).

Assumed of the outside: the wall clock, by which `LogFile` names and orders its files,
does not step back, and a log file that exists can be opened (a new one may not be).

Cases a property exempts, because the code does not handle them, so that the property
would not notice them getting worse; each is noted at its hazard in `PROJECT.json`:
the cancel that overtakes a start (`CancelSticks`), functors and timers of a loop
that stops (`OnceFires`), a client added while an earlier one lingers (`ClientKept`,
`ListMatchesMap`, `TriesEveryAddress`), two loops (`ListMatchesMap`, `DeletedGoes`), a
connection on which a write failed (`StreamHasNoHoles`), a month without a call of
`append()` (`RightDay`), overlapping callers (`IndexInRange`), replaced files
(`CalledIfWanted`), a change between two watches (`NothingUnseen`), negative `n`
(`StringsAgree`), and the failures named with `ValuesKept` and `LossHasCause`.

Not modelled, and why: `ConnsMap` has the critical sections of `ConnMap` and is not
called by any handler of the library; `Logger`, `SocketOps`, `TimeStamp`, `Buffer` and
the macros keep no state that is shared; `third_party` is external.

## 9. Plan

Done, in this order: `FunctorQueue`, `EventLoop` and its proofs, `EventLoopThread`,
`Timer` and its proofs, `TcpClient`, `ThreadPool` and its proofs, `AsyncLogging` and
its proofs, `LogFile` and its proofs (in `SequentialProofs`), `TcpServer` and its proofs, `RedisProxyConn` and its proofs, the addresses and the two loops of `TcpClient`, `MysqlProxyConn`,
`FileNotify`, `EventLoopThreadPool` and `ConnList` with their proofs
(`SequentialProofs`), `ConfigReader`, `StringOps`, the proofs about `TcpClient` (in
`TcpProofs`) and about `ConfigReader` (`ConfigReaderProofs`).

What is left: the code under *not modelled* in section 8.
