# A TLA+ model of netbuf

netbuf is a small C++ library that sends buffers to a peer over TCP, TLS or a
local socket, spills them to a directory when they cannot be sent, and sends
them from there later. This directory holds TLA+ modules for its concurrent
core, TLC configurations that check them, and TLAPS proofs about them.

All line numbers refer to the sources under `src/`.

## 1. The system

| Part | State | Operations | Interacts with |
|---|---|---|---|
| `net::buffer` (buffer.h, buffer.cpp) | data, length, two link pointers | `init`, `clear`, `save` | the links are used by the queue, the free list and the callers' chains |
| `net::buffer::allocator` (buffer.h, buffer.cpp) | `_M_first` (free list), a mutex | `get` (with `allocate`), `put` | any thread |
| `net::buffers` (buffers.h, buffers.cpp) | ring through `_M_header`, `_M_count`, a mutex, a condition variable | `push_front`, `push_back` (one, or a chain), `pop_front`, `pop`, both also with a timeout | producers push, `run()` pops and pushes back |
| `net::sender` (sender.h, sender.cpp) | `_M_buffers`, `_M_state`, `_M_running`, two times, a socket, a directory | `start`, `stop`, `send`; the thread `run` with `send_files`, `send_file`, `save_buffers`, `save_buffer` | allocator, queue, file system, socket |
| `net::socket` (socket.h, socket.cpp) | a descriptor | `connect`, `listen`, `accept`, `send`, `recv`, waits with `poll`, options | kernel |
| `net::socket::address` with `ipv4`, `ipv6`, `local` | a `sockaddr_storage` and a length | `build`, `to_string`, comparison, assignment | `connect`, `listen`; filled by `accept` |
| `net::ssl::socket` (ssl/socket.*) | a `net::socket`, an `SSL*` | the same, plus handshake and a draining `shutdown` | OpenSSL |
| `net::ssl::library` | an `SSL_CTX*` | `init`, load certificate and key | OpenSSL |

**How they interact.** Any number of threads take buffers from the allocator
and give them to `sender::send`. `send` appends to the queue; when the count it
gets back exceeds `max_queued_buffers`, the *calling* thread pops the whole
queue and writes it to files (`save_buffers`), then sets `_M_state` to
`sending_files`. The thread `run()` looks at `_M_state`: either it scans the
directory and sends and unlinks every file, or it waits for the queue (250 ms),
pops all of it and sends buffer after buffer. A failure closes the connection,
pushes the unsent rest of the batch back in front of the queue, and delays the
next attempt. `stop()` clears `_M_running` and joins the thread, which saves
the queue before it ends. There is no lock other than those of the queue and of
the allocator: `_M_state`, `_M_running`, `_M_current_time` and the directory
are shared without one.

**What is hard.** Producers and `run()` interleave on the queue, on the free
list, on `_M_state` and in the directory. Steps fail half-way: a batch, a
buffer, a file, a save. The process may die between any two system calls and
the directory survives. Buffers are moved between three kinds of lists through
one pointer, partly outside of any mutex. Waits time out while buffers arrive.

**What makes each part correct.**

- *allocator and queue*: a buffer is linked at one place of one list; the ring
  is closed and counted; the queue is a queue; a waiting thread is woken.
- *sender*: an accepted buffer is in memory, intact on disk or handed over; it
  has one owner; the order of acceptance survives failures; nothing is handed
  over twice; what is on disk stays there until it is handed over; after a
  failure the stream is abandoned, so that the peer sees no fragment followed
  by other content; queued buffers and files are sent in the end; `stop()`
  returns; nothing is left in memory after it.
- *times of the sender*: attempts after a failure are `reconnection_time` apart,
  idle connections are closed and others are not, an error is retried, the loop
  never spins.
- *sockets*: descriptor and `SSL*` are in step, a failed connect leaves
  neither, nothing leaks; waits respect their timeouts.
- *TLS sockets*: an operation finds the `SSL*` of its own open descriptor, no
  message follows the fragment of another, `shutdown` is true only when
  notifications were exchanged, every operation returns.
- *addresses*: `build` stores what a text says whatever the object held before,
  parsing what was formatted gives the address back, nothing is written beyond
  a buffer, comparisons agree.

`PROJECT.json` lists the hazards one by one, at their lines.

## 2. Modules

| Module | Models | Kind |
|---|---|---|
| `Outbox` | what `net::sender` promises: accept, hand over once, optionally in order | abstract |
| `Sender` | `net::sender`, its directory and connection | detailed; implements `Outbox` |
| `BufferQueue` | what `net::buffers` promises | abstract |
| `Buffers` | `net::buffers` and the allocator, with pointers, called as by `net::sender` | detailed; implements `BufferQueue` |
| `Socket` | `net::socket` on the kernel's table of descriptors | detailed |
| `SenderTiming` | the clock and the timeouts of `net::sender` | detailed |
| `SslSocket` | `net::ssl::socket`, used by `net::sender` and others | detailed; composed with `Socket`, its instance |
| `Address`, `MCAddress` | `net::socket::address`, `ipv4`, `ipv6`, `local`; texts for TLC | algorithms on the memory of objects |
| `SenderOrderProofs` | types, order and ownership in `Sender` | proofs |
| `SenderDurabilityProofs` | what is not lost in `Sender` | proofs |
| `SenderDeliveryProofs` | what the peer of `Sender` receives; refinement of `Outbox` | proofs |
| `SenderTimingProofs` | times and timeouts in `SenderTiming` | proofs |
| `BuffersProofs` | the lists of `Buffers`; refinement of `BufferQueue` | proofs |
| `SocketProofs` | types, descriptors, connections and sent data in `Socket` | proofs |
| `SslSocketProofs` | SSL structures, records and shutdown in `SslSocket` | proofs |
| `AddressProofs` | parsing, formatting, comparison and memory in `Address` | proofs |

### Sender

A buffer is a number, its position in the order of acceptance. Its content is
`Chunks` units, so that a write, a transmission or a crash can stop between two
of them. `queue` is the sequence that `Buffers` shows the linked ring to be;
`batch[t]` is the chain from `first` to `last` that thread `t` has popped.
`files` maps names to contents; `fd`, `cnt` and `off` are the locals of the
thread that saves (its open file, `count`, bytes done). `file`, `fsize` and
`pending` are the locals of the scan: the current entry, the size that `stat()`
gave, and the entries that were there at `opendir()` and must still be
returned (entries created later may be returned or not). `SpecSaveFails` adds
`SaveFails`: the save at the end of `run()` fails, and keeps failing, so that
`save_buffers()` never gets past that buffer (label `failing`). `connected`,
`partial` and `delivered` are the connection: has it a descriptor, what
incomplete buffer is at the end of its stream, what was handed over whole.

| Actions | Code |
|---|---|
| `Start`, `Stop`, `Join` | `start`, `stop` (sender.cpp 8-61) |
| `Send`, `RequestFiles` | `send` (63-81) |
| `SavePop`, `SaveStat`, `SaveOpen`, `SaveWrite`, `SavePut` | `save_buffers`, `save_buffer` (318-389), `buffer::save` (buffer.cpp 90-122) |
| `SaveFails` | the failure of `buffer::save` (buffer.cpp 93, 106-112, 121) in the loop of `save_buffers` (328-353), from `run` |
| `TooSoon`, `Reconnect`, `ReconnectFails`, `Dispatch`, `Check` | the loop of `run` (91-127, 218) |
| `PopAll`, `PopWait`, `PopTimeout`, `Batch...`, `PushFront` | the queued buffers in `run` (128-200) |
| `FilesConnect`, `NextFile`, `MapFile`, `File...`, `UnlinkFile`, `ScanEnd` | `send_files`, `send_file` (240-316) |
| `Crash` | the process dies; a new one creates the sender anew |

A step between a lock and its unlock is one action; so is every system call on
the directory and the connection.

Not in `Sender`: the clock (a comparison with `reconnection_time` or
`idle_timeout` may come out either way; see `SenderTiming`), the time in the names of files (all
saves happen in the same second, the case in which names collide), a save that
fails for a time, and one of a producer that fails (see `Buffers`), the
difference between TLS and plain connections (see `SslSocket`),
`connection_closed_by_peer`, which is one of the reasons for a failing send, and
what `run()` sends of a mapped file that another saver truncates meanwhile
(zeros to the end of the page, `SIGBUS` beyond it; 297-303): the model sends what
the file has, and no property that holds depends on it, since only saves that
share a name do this.
Callers do not start a running sender. Reads of the unlocked flags see the last
write.

### Buffers

`next` is `_M_next` of every object including the header; of the previous
pointers only the header's is ever read, and modelled (`back`). `first[t]` and
`last[t]` are the ends of the chain that a thread holds and walks outside of any
mutex. Each operation of the queue and of the allocator is one action, except
that a range push is `Measure` (`distance()`, before the lock) and then the
push, and that a timed pop sleeps, is woken (by a signal or not), takes or
sleeps again, or times out without another look. Producers and the runner do
what `net::sender` does; consumers use `pop_front` and the `push_front` of one
buffer, which `net::sender` does not use. `allocate()` may allocate fewer
objects than asked for.

`SpecSaveFails` adds the failure path of `save_buffers` (sender.cpp 348-353).
Once a chain is damaged, `Chain` stops after as many objects as exist.

### Socket

Objects of `net::socket`, each used by one thread, share the table of
descriptors, from which the kernel always takes the lowest free number, so that
a number that was closed is soon another object's, or a file's (`Files`).
`fd[s]` is `_M_fd`; `kernel[d]` is what the kernel keeps of descriptor `d`: its state, the room in
its send buffer, what waits to be received (or, of a listening one, accepted),
whether the peer has ended the stream, and the units taken since the last
`send()` began. `pos[s]` and `len[s]` are the locals of `send()`; `target[s]` is
the object that `accept()` of `s` fills. Every system call is one action.

| Actions | Code |
|---|---|
| `Create`, `CreateFails`, `ConnectStarts`, `WaitConnect`, `CheckError` | `connect` with a timeout (socket.cpp 450-516) |
| `Create`, `CreateFails`, `Listen` | `listen` (518-548) |
| `StartAccept`, `Accept`, `AcceptFails`, `WaitAccept` | `accept`, with a timeout and without (550-588) |
| `StartSend`, `SendSome`, `SendNothing`, `WaitSend` | `send` with a timeout (368-412) |
| `StartReceive`, `Receive`, `WaitReceive` | `recv`, with a timeout and without (327-366) |
| `Close`, `Move` | destructor, `close`, the constructor that takes over (socket.h 704-721) |
| `Network`, `Files` | peers and network, files of the process: external |

A call that is interrupted and repeated at once is one action; `poll()` is not
repeated by the code, so that a signal ends the operation like a timeout.
Callers connect, listen and accept with objects that hold no descriptor.

### SslSocket

A `net::ssl::socket` is an object of module `Socket`, whose `connect` runs as a
part of its own, and an `SSL` structure. `ssl[s]` is what `_M_ssl` points to:
how far the handshake is, the number it was given (`bio`), the units it has
still to write, and which `close_notify` it has sent and counts as received.
`heap` counts the structures that exist. `at[s]` is the operation, `want[s]` the
direction it waits for. What OpenSSL does inside of a call is external and
modelled by what the code can see of it: units are written and read one by one,
a call may want the other direction, a unit that is read may be data, a
`close_notify`, a part of a record or garbage. A handshake ends with a unit that
is read, or with the answer to it (state `finishing`).

| Actions | Code |
|---|---|
| `StartConnect`, `TcpConnects`, `TcpReturns` | `connect` (ssl/socket.h 101-122), `sender::connect_secure` |
| `StartHandshake`, `Prepare`, `HandshakeReads`, `HandshakeWrites`, `HandshakeBreaks`, `HandshakeFails` | both `handshake` and the private `connect` (ssl/socket.cpp 76-98, 268-328) |
| `StartSend`, `SendReturns`, `SendFails` | `send`, with a timeout and without (184-266) |
| `StartSenderSend`, `SenderSends` | `sender::send` with the secure callbacks (sender.cpp 224-238, sender.h 226-250) |
| `StartReceive`, `ReadsUnit`, `ReadsEnd` | `recv`, with a timeout and without (100-182) |
| `StartShutdown`, `Notify`, `Notified`, `ShutdownReads` | `shutdown` (7-74) |
| `Blocks`, `Wait`, `Breaks` | the cases of `SSL_get_error` that all the loops share |
| `Close`, `Construct` | `close`, destructor, the constructor from a `net::socket` |

### SenderTiming

`run()` reads the clock once per iteration; `connect()` and `send()` store that
reading, not the time at which they happen. Only differences matter, so the
module has `lag` (real time since the reading, in ticks), `phase` (the fraction
of a second that `time()` cuts off) and `gap` (the difference of the two
members, in seconds). Operations on the socket take any time up to a bound;
waits and sleeps take one tick; the wall clock may be set, back and forward,
which shows when it is read. `left` is what remains of a batch or of a scan;
buffers and files are otherwise only there or not. The histories `sinceTry`,
`sinceUse`, `useLag` and `refused` measure real time for the properties,
`tryAhead` and `useAhead` what the clock was set forward since. `gap` is cut
off at the longest timeout; a clock that is set back after that makes it smaller
than the code's difference, as setting it back by more would.

| Actions | Code |
|---|---|
| `ReadClock`, `Sleep`, `Reconnect`, `Dispatch` | the loop of `run` (sender.cpp 88-127) |
| `PopSome`, `PopNone`, `BatchConnect`, `BatchSend` | the queued buffers in `run` (128-200) |
| `FilesConnect`, `FileSend`, `ScanEnd` | `send_files`, `send_file` (240-316) |
| `Attempt`, `Send`, `SaveTime` | `connect` (sender.h 252-264), `send` (sender.cpp 224-238) |
| `Produce` | the producers: `send`, also when it spills |

### Address

The memory of an object is eight cells, cut where members of the three kinds of
addresses begin, so that the tail of one kind lies under a member of another;
`len` is `_M_addrlen`. A text is a sequence of tokens, which keeps colons,
brackets and digits apart and gives everything else a length. `build`, both
`operator==` and `to_string` are operators on cells (`BuildGiven`, `Same`,
`Equal`, `ToText`), assignment, `accept()` into an address and the classes
`ipv4`, `ipv6` and `local` are actions. Callers build of a text (`BuildText`,
`BuildTypedText`) or of a host and a port (`BuildHostPort`,
`BuildTypedHostPort`), which `start()` of the sender uses and which takes any
port. `texts` is what they have in a behaviour: several texts, so that objects
built of different ones are compared. The properties compare `build` with a reference
(`Denoted`, `Expected`): the texts of an IP address and a port, written down
without looking for the last colon or stopping at a digit. `inet_pton`,
`inet_ntop`, `snprintf` and what the kernel gives for a peer are external.
An object that `accept()` has cut (see the hazards) is not formatted or
compared further: what it holds is a mixture of two addresses.

| Actions | Code |
|---|---|
| `BuildText`, `BuildHostPort` | `address::build` (socket.cpp 163-185, 129-161) |
| `Assign`, `AssignSockaddr` | `address::operator=` (socket.h 662-668, socket.cpp 206-228) |
| `Accept` | `socket::accept` with an address (socket.h 890-917) |
| `BuildTypedText`, `BuildTypedHostPort`, `BuildTypedBytes` | `build` of the classes (socket.cpp 70-127) |
| `SetPort`, `AssignTyped` | `port`, the constructor for and `operator=` of a `sockaddr_...` of the classes (socket.h 338-580) |

`RoundTrip` has one exception, which it states: `build("127.0.0.1", 0)` is
accepted, `to_string()` writes `127.0.0.1:0`, and `build()` takes that text for a
path. `EqualityAgrees` asks of addresses with the same bytes that their members
are equal where `_M_addrlen` covers these (`Covered`): `equal()` of two local
addresses whose path begins with a zero byte looks at all 108 bytes of it
(socket.h 652-660), `memcmp()` at `_M_addrlen` bytes, so that two unnamed local
sockets, or two short abstract names, may be the same by the one comparison and
differ by the other, over bytes of earlier content. Both exceptions are needed:
without either, TLC finds the counterexample.

Not in `Address`: the text of an abstract name is the name alone, where
`to_string()` copies all of `sun_path`, with whatever is behind the name
(socket.cpp 314-318; only the place it needs is that of the copy); a path of 108
bytes without a terminator, which the kernel and `local::build` of bytes can
give and of which `strlen()` (304) has no bound; assignment from one object of a
class to another, which copies the members that `AssignTyped` copies.

## 3. Runs

Passing runs:

| Run | Question | Instance | Distinct states |
|---|---|---|---|
| `SenderInOrder` | Is every buffer handed over once, in order, whole, in the end, if nothing spills? | 2 producers, chains up to 3, 4 buffers of 2 units, limit 4, 3 failures, no stop | 1 275 |
| `SenderLifecycle` | Does what is saved at a stop survive, and are the files that a start finds sent? | 1 producer and owner, 3 buffers of 2 units, limit 3, 1 failure, 3 starts, 2 stops, 1 crash | 67 086 |
| `SenderOverflow` | Do ownership, order and at most one hand-over hold under spills, and does `stop()` return? | 2 producers, 3 buffers, limit 1, any failures, also of open and mmap and of the last save, 1 start, 1 stop | 126 362 |
| `BuffersSender` | Is every buffer linked at one place, and is no wake-up lost? | 2 producers, the runner, 4 objects, limit 1, allocations of up to 2, chains up to 2 | 167 411 |
| `BuffersConsumers` | Is the ring intact and does it behave as the abstract queue? | 1 producer, the runner, 1 consumer, 3 objects | 10 005 |
| `Socket` | Has every open socket one owner, is a connected object connected, does `send()` hand over each unit once, does every operation return? | 2 objects, 2 descriptors, 2 units, room for 1 | 348 746 |
| `SenderTiming` | Are attempts apart, idle connections closed and no others, errors retried, and does the loop never spin? | `idle_timeout` 3 s, `reconnection_time` 2 s, 2 ticks a second, operations of up to 3 ticks, batches and scans of up to 2, the clock set once, by up to 1 s back or forward, 1 failing `opendir()` | 624 604 |
| `SslSocket` | Do `SSL*` and descriptor stay in step, are records whole, is `shutdown()` true, does every operation return? | a sender and an accepted socket on 1 descriptor, records of 2 units, room for 1, 3 units from peers | 46 778 |
| `Address` | Is what `build()` stores what the text says, and do formatting, comparison, assignment and `accept()` agree with it? | 2 objects and one of each class, 115 texts alone and 28 pairs, ports 0 and 7, 12 buffer sizes, 3 operations | 332 988 |

Runs that end in a counterexample, each a disagreement between the code and
something the repository says of it:

| Run | Property | What happens |
|---|---|---|
| `SenderLostWhileScanning` | `NoMessageLost` | `run()` finds a file that a producer has created but not yet written; mmap of 0 bytes fails, the file counts as sent and is removed (sender.h 49-50: reached the limit, buffers "are written to disk") |
| `SenderSharedName` | `DistinctNames` | two producers find the same name unused (371: "Search a filename which is not in use.") |
| `BuffersSaveFails` | `EveryBufferOnce` | a buffer that cannot be saved is put back and then saved and put back again (328, 349) |

Three more instances fail and are not kept as runs; each is `SenderOverflow.cfg`
with one property and the change that is named:

- `DurableUntilDelivered`, one producer, `MaxStarts = 2` (it has `MapMayFail =
  TRUE`): a complete file whose open or mmap fails counts as sent and is removed
  (sender.cpp 314: "Ignore file."), the cause of `SenderLostWhileScanning` too.
- `ScanLeavesNoFile`, one producer, `MapMayFail = FALSE`: a file saved during the
  scan is missed, and the scan's end overwrites the request to send files
  (213-215: "Possible buffers on disk have been successfully sent").
- `QueueSavedAtExit`: a buffer that another thread sends while the queue is
  saved at the end of `run()` stays in memory (220: "Save buffers to disk (if
  any).").

**Why the bounds are enough.** The hazards need two producers (names), a chain
of two and one later push (order of push-back), a spill during a scan and one
file before it, two units per buffer (fragments), one crash and two starts
after it (files of an earlier process), and a limit that a single call exceeds.
Every one of these happens in a run; TLC's coverage shows that every action
fires in a passing run. The limits 10000 of the queue and of the allocation are
constants of the models. `MaxFaults` is `Unlimited` (-1) where no liveness of
hand-over is claimed. Wherever a run allows no spill (`SenderInOrder`,
`SenderLifecycle`) that is because the spill breaks the property, as the
counterexamples show: `NoMessageLost` and `FramingIntact` do *not* hold of the
code when a spill races with a scan, and `DurableUntilDelivered` not when an
intact file cannot be opened. `DeliversAtMostOnce` is not claimed across a
crash: one between the hand-over and the removal of a file repeats it.
`FilesEventuallySent` is about the files that a start in the state
`sending_files` finds; what a stop saves while the state is
`sending_queued_buffers` stays on disk after a restart of the same object (see
the hazards).

`StopReturns` depends on saves. `stop()` joins a thread that ends by saving the
queue, and `save_buffers()` repeats a save that fails without advancing (348-353):
when `open()` or `write()` goes on failing, on a full disk for instance, `run()`
does not end and `pthread_join()` waits for ever. The property names this state
(`failing`) and claims the return in every other one. `BufferOwnedOnce` does not
speak of it either, because there a buffer is put back and still used. A
producer whose spill keeps failing hangs in `send()` alike; `Sender` has no such
step, and no property claims that `send()` returns.

For `Socket`, two objects and the files of the process on two descriptors are
enough for the table to run out and for a closed number to be given to another
object or to a file; two units on room for one need a wait in the middle of a
`send()`. `MaxWaiting` is 1: the code sees only whether something waits. Two
threads that accept at once need three objects; the proofs cover them.

For `SslSocket`, one descriptor for two objects makes every number that is
given up the other object's next; records of two units with room for one stop
in the middle; three units from peers are enough for an answer, data and a
`close_notify`. For `SenderTiming`, `reconnection_time` and `idle_timeout`
differ and exceed the resolution of the clock and the duration of an operation,
in either order of the sums; the bound in `AttemptsApart` is tight: it fails
with one tick more. The clock is set once, by up to a second in either
direction: forward, it makes the next attempt follow a failed one at once, and
closes a connection that has just been used, which `tryAhead` and `useAhead`
allow for, exactly; back, it extends both timeouts. One failing `opendir()` is enough to reach the error with an
open connection; if it failed for ever, `NoSpin` would not hold: `connect()`
returns true without saving a time, so that the loop of `run()` sleeps no more
(see the hazards). For `Address`, texts have ports of 0, 65535, 65536 and one
that wraps around to 7, hosts of 45 and 46 characters, paths of 107 and 108;
two operations make an object hold the tail of another address, the third
copies it or builds over it. A behaviour has one of the 115 texts, or two of
eight, among them two texts of one address, two hosts that are the same address
and a path; with a host, the port is 0 or 7.

`CHECK_DEADLOCK FALSE` is set where the sender may be stopped for good or all
bounds may be used up (also `MaxOps` of `Address`), and in `BuffersSaveFails`;
the other runs check it.

**Fairness.** `Sender!FairSpec` gives weak fairness to `run()`, to a producer
inside of `send()` and to the join: each system call there is bounded by a
timeout, each lock is released. It gives nothing to callers: nobody must call
`send`, `start` or `stop`. Strong fairness of `Reconnect`: every iteration
after an error sleeps 250 ms and reads the clock, so an attempt is made once
`reconnection_time` is over, and with finitely many failures one succeeds.
`Buffers!FairSpec` gives weak fairness to the runner's own steps only. Timeouts
and spurious wake-ups have none, so `QueueIsTaken` says that signals alone are
enough: the queue's progress does not lean on the 250 ms. `Socket!FairSpec`
gives weak fairness to a thread inside of an operation: every system call on a
non-blocking descriptor returns, and every `poll()` is called with a timeout.
Callers, peers and the network get none. `OperationsReturn` holds because no
loop of the code repeats a wait that has timed out. `SslSocket!FairSpec` is the
same for TLS; peers send finitely many units (`MaxUnits`), without which
`shutdown()` could discard data for ever. `SenderTiming!FairSpec` gives weak
fairness to `run()`, whose waits and calls all end; that the clock is set
finitely often (`MaxSettings`) is a bound, and `ErrorIsRetried` and
`IdleIsClosed` need it, since a clock set back again and again delays both for
ever. `SaveFails` has no fairness: a save need not fail.

## 4. Proofs

For every value of the constants (producers, limits, messages, failures,
restarts; buffers, consumers, sizes of allocations; objects, descriptors, sizes;
timeouts and durations; texts, ports and sizes of buffers), from the named assumptions of the modules
(`SenderAssumption`, `BuffersAssumption`, `SocketAssumption`,
`SslSocketAssumption`, `SenderTimingAssumption`, `AddressAssumption`) and from the hypotheses in the
last column:

| Theorem | States | Hypotheses |
|---|---|---|
| `SenderOrderProofs!TypeCorrect` | `[]TypeOK` | |
| `SenderOrderProofs!InOrder` | `[]QueueInOrder` | |
| `SenderOrderProofs!OwnedOnce` | `[]BufferOwnedOnce` | |
| `SenderDurabilityProofs!LosesNothing` | `[]NoMessageLost` | no spill, files can be mapped |
| `SenderDurabilityProofs!KeepsFiles` | `DurableUntilDelivered` | no spill, files can be mapped |
| `SenderDurabilityProofs!SavesQueueAtExit` | `[]QueueSavedAtExit` | the owner is the only producer |
| `SenderDeliveryProofs!KeepsFraming` | `[]FramingIntact` | no crash, no spill |
| `SenderDeliveryProofs!InOrderOutbox` | `DeliversInOrder` | no crash, nothing is saved |
| `SenderDeliveryProofs!AtMostOnceOutbox` | `DeliversAtMostOnce` | no crash |
| `SenderTimingProofs!TimesTyped` | `[]TypeOK` | |
| `SenderTimingProofs!AttemptsSpaced` | `[]AttemptsApart` | |
| `SenderTimingProofs!IdleClosesJustified` | `IdleCloseJustified` | |
| `BuffersProofs!TypeCorrect` | `[]TypeOK` | |
| `BuffersProofs!RingStaysIntact` | `[]RingIntact` | |
| `BuffersProofs!NoBufferTwice` | `[]EveryBufferOnce` | |
| `BuffersProofs!Implements` | `ImplementsQueue` | |
| `SocketProofs!SocketTypes` | `[]TypeOK` | |
| `SocketProofs!Owned` | `[]DescriptorsOwned` | |
| `SocketProofs!Connected` | `[]ConnectIsTrue` | |
| `SocketProofs!SentInOrder` | `[]SendsPrefix` | |
| `SslSocketProofs!TypeCorrect` | `[]TypeOK` | |
| `SslSocketProofs!UsesSecured` | `[]SecureWhenUsed` | |
| `SslSocketProofs!OwnsResources` | `[]ResourcesOwned` | |
| `SslSocketProofs!WritesWholeRecords` | `[]RecordsWhole` | |
| `SslSocketProofs!ShutsDownTruly` | `[]ShutdownIsTrue` | |
| `AddressProofs!BuildStores` | `[]BuildsDenoted` | |
| `AddressProofs!ReadsBack` | `[]RoundTrip` | |
| `AddressProofs!FormatStaysInside` | `[]FormatFits` | |
| `AddressProofs!ComparisonsAgree` | `[]EqualityAgrees` | |
| `AddressProofs!AcceptReturnsPeer` | `[]AcceptedIsPeer` | |
| `AddressProofs!ClassesAgree` | `[]TypedAgrees` | |

The theorems about `Sender` are about `Spec`, in which saves succeed; the run
`SenderOverflow` checks its safety properties with the last save failing too.
The hypotheses are the circumstances in which the code keeps its promise, and
none is there for the prover's sake. *No spill* (`[]NoSpill`): no producer finds
the queue too long; a producer that saves while `send_files()` scans can lose
buffers, and two savers can share a file (the runs `SenderLostWhileScanning`
and `SenderSharedName`). *Files can be mapped* (`~MapMayFail`): a file that
cannot is removed. *No crash* (`MaxCrashes = 0`): after a death in the middle of
a write the rest of the file is sent as if it were a buffer, and a file that was
sent but not removed is sent again. *Nothing is saved* (`[]NobodySaves`): the
order of `readdir()` is not that of acceptance. *The owner is the only producer*:
a producer other than the thread that calls `stop()` may push after the last
look at the queue. The hypotheses leave failing connections, push-backs, stops
and restarts, and, for `AtMostOnceOutbox`, every spill.

*Types.* `TypeOK` is not inductive: `SavePut` takes the head of a batch,
`SaveOpen` uses a name, `FileTransmit` reads a file, and these exist only at the
labels where the code uses them. `ControlOK` says so: a batch is non-empty
exactly at the labels in `Holding`; `fd` is a name at `open`; the file that
`run()` handles exists from `map` to `unlink` (only `run()` unlinks).
`TypeInv == TypeOK /\ ControlOK` is inductive.

*Order and ownership.* Of every step only what it does to queue, batches and
allocator matters. `StepsOfBuffers` shows that there are five ways: new buffers
are appended, a thread takes the whole queue, it puts its first buffer back,
`run()` restores its batch in front of the queue, the process dies.
`QueueInOrder` is inductive together with `TypeInv`, because new buffers have
greater numbers and because `run()` pops only with an empty batch.
`BufferOwnedOnce` needs `QueueInOrder`: when a thread puts the head of its batch
back, it holds that buffer no more only because an increasing batch does not
contain it twice.

*Durability.* A buffer leaves memory when `SavePut` or `BatchPut` returns it, so
`SafeInv` must know at that moment that it is whole on disk, or handed over:
that `run()` writes a new file, which holds the units written so far
(`WritesNew`), and that the stream ends with the units sent so far, so that the
buffer, or the file about to be unlinked, is handed over when the last one is
sent (`SendsAll`). `ReturnedSafe` is then the invariant itself, for what the
allocator has back.

*Framing.* That `partial` has the length `off[Runner]` is not inductive: when the
last unit is sent, the model removes as many units as a whole buffer has, so the
stream must consist of units of this buffer alone (`Framed`), and a file that is
sent must hold one whole buffer (`Written`); nothing of a file is touched from
outside while it is sent (`Outside`).

*In order.* The refinement of the ordered `Outbox` needs that what was handed
over, what `run()` holds and what is queued are, in this row, all accepted
buffers (`Sequential`), and that files stay out of it (`QueueOnly`).

*At most once.* With spills, buffers are overwritten in and lost from files, and
files can hold units of several buffers. What survives is weaker than framing:
`Placed` (a buffer of which a file has a unit is nowhere else, but in the hands
of the thread that writes this file or has just written it), `Spent` (a buffer
of which units have entered the stream is nowhere any more, or is what `run()`
is finishing with), `Fresh` (while `run()` is within the first units of a buffer
or file, these units are all it can have contributed to the stream) and `Sizes`
(no file is longer than a buffer). Then the unit that completes a buffer
completes one that was not handed over before.

*Lists.* The properties of `Buffers` speak of the sequences that one finds by
following the pointers (`Walk`), and a walk from a wrong pointer may find
anything, so they are not inductive. The invariant goes the other way round:
there are sequences `q`, `fl` and `h[t]` for each thread, which the pointers link
(`Ring`, `Stack`, `Segment`); they have no buffer in common and, with the memory
not allocated yet, hold all buffers (`Apart`); at each label a thread's chain is
empty or not, as the code relies on, and at `push` it has as many buffers as
`added` says (`Control`). One lemma per operation (`DoesPushBack`, `DoesPushFront`,
`DoesPopAll`, `DoesPopFirst`, `DoesGet`, `DoesPut`) says which sequences the
pointers link afterwards: appended, put in front, taken whole, without the first.
Each changes `next` at buffers of the queue, of the free list or of its own
thread only, which is why the other threads' chains stay linked (`Moved`).
`Shown` leads back: following the pointers finds exactly these sequences, by an
induction over a set of numbers (`SetInduction`: the least number outside of it
would have a predecessor). The refinement of `BufferQueue` then reads off the
lemmas what each operation does to `q`. These theorems are about `Spec`, in which
saves succeed; with the failing save of `SpecSaveFails` `EveryBufferOnce` does
not hold, as the run `BuffersSaveFails` shows.

*Times.* The code compares `gap`, a difference of two stored times in seconds;
the properties speak of real time. `TryElapsed` and `UseElapsed` say that the
seconds the code sees, and the ticks since it read the clock, have really passed
since the attempt began, and since the connection was used, but for less than a
second and for what the clock was set forward in between (`tryAhead`,
`useAhead`); setting the clock back only makes `gap` smaller. For the attempt one must
know in addition that the clock was read at most one wait before it (`Prompt`),
and that a refused attempt leaves an error, so that nothing but `reconnect`
follows it (`Refusal`).

*Descriptors.* `DescriptorsOwned` is not inductive: a thread inside of an
operation closes the number it holds, so it must hold one, and `accept()` stores
a new number over that of its target, so the target must hold none and have one
filler only (`Reliance`). `Reliance` in turn needs `DescriptorsOwned`: that the
descriptor of a sending thread stays a connection holds only because no other
object can close it. `SocketInv` joins them with `TypeOK`, `ConnectIsTrue` and
`SendOK` (position and length fit, so that neither leaves its range). Four
lemmas show what opening, closing, moving and keeping a descriptor do to
ownership; `EntryPreserves` covers all steps that change a thread's own
descriptor only. `SendsPrefix` needs `SocketInv`, because no other object may
write to the descriptor of a sending thread, and `SentOK`: the answer of
`send()` speaks of a stream only while its object holds the descriptor.

*TLS.* `SslInv` joins the descriptor invariants of `Socket`, instantiated, with
`Fine(s)`, which relates label, structure and descriptor of one object. Every
step of an object does one of four things to descriptors and one of three to
structures, and `Frame` shows that none disturbs another object.

*Addresses.* `parse_port`, `strlen` and `snprintf` are folds and a recursive
function over texts of any length. A fold is the value, at the whole set, of a
function on sets of positions; that such a function exists is shown once, for
any step (`FoldExists`), by the same induction over a set of numbers, and gives
the values of a fold at the prefixes of a text (`LengthOf`, `ParseOf`,
`NumberOf`). From these follow what the proofs use: `Length` adds up over `\o`;
`ParsePort` is `Number` where that is in 1..65535 and refuses everything else,
leading zeros and numbers of any length included (`PortIsNumber`: once a prefix
is too large, no digit makes it smaller); `Decimal[n]` are at most five digits
whose `Number` is `n` (`DecimalWrites`, `DecimalLength`).

`Denoted` writes down the texts of a host with a port without looking for a
colon, and `ParsesDenoted` and `ParsesOnlyDenoted` show that looking for the last
colon recognizes exactly these, with and without brackets. A `::` whose second
half is the separator, and a host that is in brackets on one side only, are the
cases that need care; here `HostText` matters: no host ends in a single colon.

An object holds what its history says (`Contents`): one that `build()` filled
starts with the cells of some text (`Bytes`), in their full length, one that
`accept()` or a `sockaddr` filled with those of a peer. `BuildIs` shows that
`build()` writes every cell of `Bytes` whatever was there, `AcceptKeeps` that a
peer is cut only where the history becomes `"reused"`; a copy keeps both
(`CopyContent`). For the classes one must know in addition that the constructor's
zeros survive until `build()`, which writes neither `sin_zero` nor flow
information nor scope (`Constructed`). `RoundTrip`, `FormatFits` and
`EqualityAgrees` are then statements about cells: `Text4`, `Text6` and `TextPath`
give the text of each kind and the room it needs, `Members` its members. The
proofs are for all texts over any tokens, all sizes, objects and operations; the
IP addresses in the texts are those of `Ipv4` and `Ipv6`, since what
`inet_pton` takes is external.

Each of these inductive invariants was checked by TLC on a small instance before
it was proved.

Checked by TLC only: liveness and whatever needs `ENABLED`, which are out of the
proof system's reach. Every invariant and every other action property that a
passing run checks is proved, some of them under the hypotheses above; their
violation by the code without these is what the instances of the runs avoid, or
what the runs that expect a violation show.

## 5. Plan

Done: all modules of section 2; the safety properties of `Sender`, `Buffers`,
`SenderTiming`, `Socket`, `SslSocket` and `Address` and the refinements of `Outbox` and
`BufferQueue` proved. What is left unproved is what section 4 leaves to TLC.

To model: `init`, `clear` and `save` of one buffer with ENOSPC and the unlink
after a failure; the untimed `connect` of `Socket`, whose caller waits itself,
`shutdown`, and the setter of the descriptor; `Buffers` with several waiting
consumers: how far one signal per push goes.

## 6. Not modelled

Destructors (they run when no thread is left), `ssl::library` (one pointer),
socket options, the tests and the make files. Of OpenSSL and of the kernel only
what the code sees of them.
The content of buffers and of files beyond their units is abstracted, and so is
the text of their names.

## 7. Running

    tlc -config SenderOverflow.cfg Sender.tla
    tlapm SocketProofs.tla

Definitions commented as mutants are deliberately wrong variants of the action
that follows them; no specification uses them. Each shows that a property
notices that mistake (`PROJECT.json`, "mutants").
