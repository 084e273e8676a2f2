# Verification of lib_Xfunc

lib_Xfunc is a C++ library of small wrappers for Linux and Windows: a TCP
server and client, UDP, threads, a barrier, shared memory, a single-instance
lock, configuration files, a serial port, and the huge-page buffers of a data
acquisition system.  This directory holds TLA+ models of the parts whose
correctness depends on the order of events, the TLC runs that check them on
small instances, and proofs that TLAPS checks for every instance.

`PROJECT.json` is the index: components, runs, the source lines each definition
stands for, the hazards of the code, the findings and the theorems.

## Inventory

| component | state | operations | interacts with | what makes it hard | what makes it correct |
|---|---|---|---|---|---|
| `CTcpServ` (tcp_serv.cpp) | `m_client_sd[]`, `m_clients`, `m_params[]`, `m_client_threads[]`, the listening socket | `open`, `connect`, `connect2`, `close`, `disconnect`, `recv/send[_all]` | starts a `CThread` per client; the service function calls `disconnect()` from that thread; shares all members without a lock | data races on the count and the slots, stale test of the capacity, joins inside `connect2()`, failures of `accept()` and thread creation | index in bounds, count = used slots, one thread per slot and none lost, own descriptor closed, nobody refused for ever; the code has these only as long as `m_clients` is not wrong, and the models say what makes it so |
| `CTcpSock` (tcp_sock.cpp, tcpsock.cpp) | `m_sd` | `open`, `bind`, `listen`, `accept`, `connect`, `send/recv[_all]`, `close` | the peer's `CTcpServ`, base class of it | partial sends and receives, EAGAIN, EINTR, close while bytes are in flight, second `close()` | whole messages in order, end of stream only at the end |
| `OneInstance` (one_inst.cpp) | file descriptor and result of `flock()`, or a mutex handle | constructor, `operator()`, destructor | the same class in other processes, through the kernel | repeated calls, failed system calls, crashes | one process at most is told yes, the answer stands, the lock does not outlive its holder |
| `CThread`, `CMutex`, `CBarrier` (cthread.h, cthread.cpp) | a thread id, a mutex, a barrier or a list of events | `create`, `wait`, `close`; `lock`, `unlock`; `init`, `wait` | used by `CTcpServ` and by applications | joining twice, deadline arithmetic, auto-reset events consumed by one waiter | every created thread joined once, nobody passes a barrier early, everybody passes |
| `CSharedMem`, `Udp`, `CFile` | a descriptor, a mapping, a group membership | `create/init/open`, `close`, I/O | descriptors of the process | second open, second close, failure half-way, reused numbers | each descriptor closed exactly once by its owner |
| `CCfgFile`, `CIniFile` | a file of sections and options, a map of its values | read, write, look up | the file system | truncate-then-write, off-by-one in the search, name and section mixed up | what was written is read back, nothing else changes |
| `ComPort` (xserial.cpp) | handle, `isOpenPort`, port name | open, read, write, close, list | the kernel's settings of the device, other owners of descriptors | settings that are inherited, unlock after close, polling with a limit | the port and the settings that were asked for, whatever was done with the device before; no byte lost or joined to the wrong line |
| huge-page buffers (mem_alloc.cpp) | mapped pages, block descriptions, frames | allocate, free, set/get block info | a DMA driver | failure in the middle of the pages, index arithmetic | what overlaps in a page, and where it ends; buffers and frames agree |
| rwdisk.cpp | none between calls | file read/write, drive write/verify | the disk | short transfers, pattern arithmetic | which successes mean what |
| utils.h, cmdline.h, time_func.h, cpu_func.h, crc32.cpp, mem_func.h, net_utils.h | none | helpers | - | - | not modelled: no state, no order of events |

The hazards of each part are listed in `PROJECT.json` with their lines.

## Modules

| module | models |
|---|---|
| `SlotPool` | what `CTcpServ` promises, without slots, counters and threads: a pool of places filled in arrival order |
| `TcpServ` | `CTcpServ`: the application's thread, one service thread per connection, the kernel's side of the sockets |
| `TcpServProofs`, `TcpServSlots` | proofs: types, index bounds, who owns a slot, what makes the count drift, and that `TcpServ` implements `SlotPool` |
| `TcpStream`, `TcpStreamProofs` | one direction of a connection, `send_all()` against `recv_all()`, and proofs about it |
| `SoleInstance` | what `OneInstance` promises |
| `OneInstLinux`, `OneInstWin` | the two builds of `OneInstance` |
| `AbstractBarrier` | what a barrier promises |
| `Barrier` | `CBarrier` of both builds |
| `Threads` | `CThread` over thread ids that are reused |
| `LocalProofs` | proofs about `OneInstance`, `CBarrier` and `CThread`; the first two implement their abstract modules |
| `Descriptors`, `DescriptorsProofs` | `CTcpSock`, `CFile`, `Udp`, `CSharedMem` and `ComPort` as owners of a descriptor, over the table of descriptors |
| `SerialLine` | `ComPort`: which device an `open()` takes, and how the line is set up |
| `SerialReader` | `ComPort`: `read()`, `readByte()`, `getLine()`, `getWord()` against the bytes that arrive |
| `SerialProofs` | proofs about `SerialLine` and `SerialReader` |
| `HugePages` | mem_alloc.cpp: the layout of a page, the allocation loops, `free_buffers()` |
| `RwDisk` | rwdisk.cpp: the file functions and the drive test |
| `DeviceProofs` | proofs about `HugePages` and `RwDisk` |
| `ConfigLines` | a configuration file as lines, as both classes see it |
| `CfgFile`, `IniFile` | what `CCfgFile` and `CIniFile` find in a file, and the text that `writeString()` builds |
| `Config`, `ConfigProofs` | the file on the disk, rewritten by `writeString()`, with crashes, and proofs about files of any length |
| `MCTcpServ`, `MCConfig`, `MCLine` | values of constants for TLC |
| `MCLocal`, `MCDevices` | several components that do not interact, checked one at a time in one run |

### TcpServ

`pc` says where the application's thread is: `app` outside a call, then the
program points of `connect2()` (`loop`, `select`, `sweep`, `join`, `rejoin`,
`scan`, `accept`, `spawn`, `inc`, `incWrite`) and of `close()` (`closeSweep`,
`closeJoin`, `closeRejoin`).  `tpc[t]` does the same for the service thread of
connection `t`: `serve`, then `close`, `clear`, `dec`, `decWrite` inside
`disconnect()`, then `exited` and `joined`.  The other variables have the names of
the members and locals they stand for; `handle[s]` is the `pthread_t` of
`m_client_threads[s]`, and `tid[t]` the id of a thread until it is joined.

The sweep joins twice: `wait(INFINITE)` and then `CThread::close()`
(tcp_serv.cpp:119-120, 224-225), by an id that is free after the first join and
may have been given to a younger thread: another service, or a thread of the
application's own (`OtherStart`), which exists here only to take such an id.  A
`pthread_join()` of an id that no thread has fails with `ESRCH`, as
cthread.cpp:92 expects; POSIX leaves it undefined.  A handle that was never set
is undefined behaviour.

Every access to `m_client_sd` and `m_clients` is a step of its own, and
`m_clients++`, `m_clients--` are a read and a write, so all interleavings of
the two unsynchronised sides appear.  The reads of `m_client_sd[s]` and
`m_params[s]` in one test are one step: `m_params` is written by the
application's thread only.  `open()` is one step: it touches only `m_clients`
and the listening socket.  Its listening socket exists from then on, and the
sockets that a failed `open()` leaves behind are not followed.

Abstractions.  A descriptor is the connection it belongs to, so reuse of
descriptor numbers does not show here; a cleared slot holds `INVALID_SOCKET`.
What the service function does with its client is one state, `serve`.  Option
calls (`setsockopt`, `fcntl`) and output are left out.  A client connects once.
`m_clients` starts with any value, since the constructors do not set it: Init
takes a small and a too large one, which `open()` overwrites.

`connect2()` stores what `accept()` returns at `client_idx` without looking at it.
`idx` is -1 there when `m_clients` is negative and no slot is free, and that
is reachable: updates that are lost on the way up, or an `open()` while
clients are in service, let `m_clients` miss a client.  `Accept` makes the
store outside the array (`StoredAt`: no element of `m_client_sd` changes) and
goes to `undefined`, where nothing more is said of the program.

System calls that fail are nondeterministic, at most `MaxFaults` times:
`open()`'s calls, `select()`, `accept()` and `pthread_create()`, whose failure
`CThread::create()` does not report.

The class takes no lock, and neither does the model: every run and every theorem is about
all interleavings.  What can be said then depends on the count.  `Drift` is what
`m_clients` is off by, against the used slots, the client about to be counted
and those about to be counted off; the history variable `behind` records that
it was once negative, that is, that `m_clients` has missed a client.
`DriftHasCause` says what can do that: only an increment that is lost
between a service's read and write, or `open()` with clients still in service.
A lost decrement or a failed `accept()` makes the count too high, which refuses
clients but endangers no slot.  `NoSlotOverwritten`, `ServingFound`,
`ClosesOwnClient`, the lower bound of `NoOverflow` and the capacity of
`PoolSpec` hold until `behind`; the upper bound, `TypeOK` and the order of
the pool hold always.

### OneInstLinux and OneInstWin

One `OneInstance` object per process.  Processes start, call `operator()`
any number of times, and end by the destructor or by a crash at any point
between two system calls; the kernel closes the file or the handle either way.
On Linux the steps are those of `open()` and `flock()`; on Windows a call is one step,
since `CreateMutex()` is its only access to shared state.

### TcpStream

The bytes of the stream are numbered.  `send()` and `recv()` move any number of
bytes that the window and the buffer allow.  The server's sockets are
non-blocking (tcp_serv.cpp:266), so both calls may return `EAGAIN` there when
they cannot go on; the client's block and can be interrupted by a signal.  The
sender may close after or in the middle of a message.  An application whose
`send_all()` failed gives the connection up; one whose `recv_all()` failed
calls it again.  `sender` says which of the two directions a behaviour is about;
`Whole` names the situation in which no call can fail half-way.  A receiver that
goes away is not modelled: it ends the story for the sender too.

### Barrier

`bpc` says where a thread is: outside, at one of the steps of `wait()`, or
`released` by the last thread of a round.  On Windows `m_nsync++` is a read and
a write, since nothing protects it; the events are the indices that are
signalled, and the wait for all of them takes all signals at once.  An index
behind the vector is undefined behaviour: `SetEvent` takes it for a handle that
is none of the events, and leaves out the end of the program.
`BarrierAssumption` bounds the threads by 64, the number of handles that
`WaitForMultipleObjects()` takes; with more it fails and nobody waits.

### Threads

An object has the id that `pthread_create()` stored; `thread[i]` is what
the system knows of id `i`, which is given again after a join.  `phase` is what the
application was told.  No use of the objects is excluded: `close()` after
`wait()`, as `CTcpServ` has it, a second `create()`, a `create()` that fails without
saying so, and any timeout are steps like the others.  The history variable
`past` records what befell an object: `failed` (its last `create()` made no
thread), `stolen` (another object has joined the thread it made), `again`
(it called `create()` before it was told of the end of its thread) and `late`
(a `tv_nsec` that reached 10^9).  The properties say which of these are needed
for something to go wrong.  The arithmetic of the deadline is
that of the code, on a smaller scale: the product is an `int` and wraps.  The
order in which `pthread_timedjoin_np()` looks at the deadline and at the thread
is left open.

### Descriptors

`table` is the process's table of descriptors, with the lowest free number for
the next `open()`; `flocked` the numbers whose file is locked; `hold` the
member of each object that keeps a number.  An object is one of five classes
or a locked file of the application.  `untidy` collects the objects for which `open()`
and `close()` did not take turns, `botched` the ports whose `open()` failed
after the device was open, `robbed` the objects whose descriptor was closed by
somebody else.  `m_hfile` of `CFile` has no initial value: `FdInit` takes
any.  The numbers include 0, which a program without standard input is given:
`CTcpSock` (tcp_sock.cpp:217), `Udp` (udp.cpp:237) and `CSharedMem`
(cthread.cpp:190) take it for no descriptor and never close it.  The close of a port is two steps, because other threads may open a file
between `::close()` and `flock(LOCK_UN)`; with one thread (`~threaded`) they
follow each other.

### SerialLine and SerialReader

The kernel keeps the settings of a device after it is closed, and
`openPort()` starts from them on Linux, so `tty` is a variable per device.  They
are whatever a driver or another program has left there (`Left`, `Elsewhere`),
and may change whenever the device is not open here.
Of `c_cflag` there are the flags that `openPort()` treats differently;
what it always sets to the same value is left out.  On Windows the DCB has what
was asked for and `fParity`, the check of the parity of what is received, which
`openPort()` always switches off (xserial.cpp:158), although xserial.hpp:72-78
speaks of checks.  A device is a name and a
number; `CharSize` is the scale of the `unsigned char` that keeps the number of
the port that was found.  A `tcsetattr()` that succeeds is assumed to have set
all that it was given.  `open()` begins with `close()`, and both are one
step: nothing else uses the object.

In the reader a byte is known by its place in the stream, and by what it does
to a line or a word.  Every poll is a step, so bytes arrive between any two of
them.  The `read()` inside `readByte()` may fail or return nothing.  On Linux it is
asked for all the bytes that are there, into one `char`: if it takes more than
one, what is behind that `char` is overwritten, which is undefined behaviour;
the model lets the call return the first byte or fail.

### HugePages

A page is the number of its `mmap()`, and a call maps `done` of the pages it
wants; it returns `nullptr` when that is not all of them, or when the device
refuses the buffer.  Offsets are the code's arithmetic in bytes, with the real
size of a page, and `root_info_t` is cleared whole (`RootSize` bytes).
`PagesAssumption` has what the layout needs of the structures: a description
fits into 4 KB, less the word at the end; `RootUsed`, the part of `root_info_t` that
time signals use, ends 4 KB before its end; and there are at most
`MAX_BLOCKS_PER_HP` blocks, which the code does not check (the offsets of
more would be written behind their array).  `alloc_dma_buf()` gets `blk_num` by
its address and may change it, so the second loop runs to any number up to one more than
there are blocks.  `overrun` says that the call has written behind `data_buf`.

### RwDisk

A transfer moves any number of words, a drive may forget what it was given,
`fclose()` may lose what `fwrite()` has kept, and the program may be killed
between two blocks.  A block has `BlockWords` words and block `idx` the pattern
`(idx << 16) + i` at index `i`, with `Shift` for `1 << 16`; `DiskAssumption`
keeps the sum within a word, which 65536 blocks of a gigabyte less 4096
would.  `given` is what the last writing call was given, and `before` the buffer
before the last `read_drive_block()`.

### Config

`CfgFile` and `IniFile` are operators on a file; `Config` adds the file on the
disk and the three steps of `writeString()`: everything up to the first
`fclose()`, `fopen(.., "w")`, and `fwrite()` with `fclose()`, which hand a small
file to the kernel at once.  `getString()` and `CIniFile`'s constructor do not
change anything, so they are not actions: they are asked in every state.

A line is described by what the parsers do with it.  The *form* of a line says
which of them recognises it: `writeString()` compares text exactly,
`getString()` ignores case, blanks before `=` and what follows a header, and
`CIniFile` also takes `:`.  A value is a sequence of words, because
`FindOption()` finds names inside values and because both classes cut a value at
a remark: `CCfgFile` at the first `;`, `#` or `//` (`Signs`), `CIniFile` at a `;`
behind a blank (`Blank`).  A name may occur several times: `CIniFile` has all
its values, `getString()` the first.  A file records whether its last line
ends with a newline, since `writeString()` cuts off one character of each line
and appends its text to the last one.  What is in `pBuf` when an empty file was
read is uninitialised memory: `NoSection` lists the possible outcomes.  Left out:
blanks before a header, matches of a title in other text behind the
bracket (cfgfile.cpp:59), empty values, values that begin with a remark (the
empty result makes `FindOption()` read the character before the buffer), lines longer than
the buffers, names of different lengths (equal lengths are the case in
which `FindOption()` confuses lines), empty titles (`TitleAssumption`:
`NoTitle` is the section of lines above the first header, which `CIniFile` calls
""), and the byte before `sNextSection` that
`writeString()` sets to 0 at the end of the file.

## Runs

| run | instance | shows |
|---|---|---|
| `tcp` | 4 connections, 2 slots, 2 thread ids, 2 opens, 1 fault | no lock: types and index bounds; causes of a wrong count; until then no slot overwritten, no serving thread out of reach, own client closed; refinement of `SlotPool` |
| `tcp_live` | 3 connections, 2 slots, 3 thread ids, 1 open, 1 thread of the application's own | no lock: everybody waiting is served unless the count is taken up for good; both joins return |
| `tcp_race_count` | 2 connections, no lock | finding: a lost update of `m_clients` |
| `stream` | both directions, 3 messages of 3 bytes, window 4, 2 signals | towards an undisturbed client framing, end of stream and delivery; everywhere no byte repeated or reordered |
| `stream_again` | messages of 2 bytes towards the server | finding: `EAGAIN` inside `recv_all()` breaks the framing |
| `config_missing` | all files of up to 3 of 10 lines, 2 writes, 1 crash | finding: a value for a missing section goes into a section called after the option |
| `local` | 3 processes, 2 faults (Windows: 2 calls, 1 fault); 3 threads, 3 rounds; 2 `CThread`s, 2 ids, 2 clock values, 6 timeouts | `OneInstance`: lock and object agree, one instance, answers stand, takeover, refinement of `SoleInstance`; `CBarrier`: refinement of `AbstractBarrier`, everybody passes (Linux), one passes (Windows); `CThread`: when a foreign thread is joined, when 0 means ended, when a thread is lost |
| `oneinst_win_again` | 2 processes, 2 calls | finding: a refused process is told yes when it asks again |
| `devices` | 6 devices, 4 settings; 3 bytes, 3 polls; 2 pages per call, 3 in all, 3 numbers and 3 sizes of blocks; 2 blocks of 2 words on a drive of 4 words; 3 of 6 objects, the numbers 0 and 3, 1 slip; all files of up to 3 of 10 lines, 3 values, 2 writes, 1 crash | whose descriptors are closed and leaked, locks kept; what an open line has from before, the port that was found; which bytes a read call returns; the one overlap in a page, buffers that match the frames, pages freed once; where the words of a confirmed block are, what a whole `file_read()` returns; other lines and options are kept, and what both classes make of a written value |
| `line_parity` | 5 devices, 4 settings | finding: odd parity is switched off |
| `line_stop` | the same | finding: two stop bits are not set |
| `reader_byte` | 3 bytes, 3 polls | finding: `readByte()` takes more than one byte |

Why the bounds are enough.  Two slots and four connections make the pool
full, with others waiting, and let a slot be used by two connections one after the
other; two opens give a server that is closed and opened again with clients
in service, which together with a lost update is enough to bring `client_idx` to
-1 (`undefined` is reached in `tcp`).  Fewer ids than threads let an id
be reused at once.  Two
connections are enough for a race of the count: one service that leaves while
another client is admitted.  Messages longer than one byte
and a window that is not a multiple of them give every way to cut a message in
two.  `MaxCalls = 2` is the first repeated call; behaviour after it repeats.
Three lines are a header, an option and the next header, or two options, or an
option in the wrong section; the second write meets what the first one made,
including the sections that `writeString()` invents, files it has joined, and
the empty file that a crash leaves.
`tcp` uses the symmetry of the connections and of the thread ids; in the liveness run, where TLC's symmetry is not sound, connections arrive in the order of
their names instead.

In `local`, three rounds of a barrier let a fast thread enter the next round before
a slow one has left the last, twice; two thread ids for two objects let an id
be reused while the other object's thread runs.  In `devices`, three objects of
any classes and two numbers make every number be reused; three bytes are a
word with blanks on both sides; two pages per call and three in all give pages
that are left behind by a call that failed; two blocks of two words give a block at
the wrong place and one that is cut.  Ports whose numbers are equal modulo
`CharSize`, and one name with two numbers, are what a truncated number can
confuse.  The proofs below cover most of this for every size.

`MCLocal` and `MCDevices` put components that do not interact into one run: `part` is
chosen in the initial state and only its component moves.  The choices
in the initial states of the others are fixed.

Deadlock is checked in all runs except those of `TcpStream`, where both ends
are done when the stream has ended, of `Config`, where the writes may be used
up, and of `MCLocal` and `MCDevices`, where calls, bytes or writes may be used up and
Windows barriers stand still.

### Fairness

`tcp_live` assumes weak fairness of each service thread (the operating system
schedules it, and every client leaves sooner or later, or the pool would stay
full), of `connect2()` (the application keeps calling it, and a call that can
go on goes on) and of a `close()` that was begun.  Nothing forces the
threads of the application's own to end, so they may keep the id they have; nothing forces the
application to call `open()` or `close()`, a client to connect, or the stop flag to
change.  `local` assumes that each process that runs keeps asking for the
instance (nobody is forced to start or to end), and that the system schedules a
thread that can leave a barrier (nobody is forced to come).  `stream` assumes
that both applications go on calling and that the kernel moves bytes.

## Proofs

`TcpServProofs` and `TcpServSlots` assume only `ConstAssumption`: any number of
slots, connections, ids, failures and calls of `open()`, and every interleaving.
`TcpServProofs` has the types and the upper bound, which need an
inductive invariant because the capacity is tested long before the count is
changed: `MainInv` carries "fewer than MAX_CLIENTS when admitted" from the test
to the increment, which is stable since service threads only decrement, and
`CountInv` says that the copies of `m_clients` in flight (`reg`, `treg`) stay
below the same bound, so that a lost update cannot lift the count.

`TcpServSlots` has the rest.  Its invariant `SInv` has three parts.  `SlotInv` holds
until `behind`: each thread that serves owns its slot, with the handle and the
`m_params` entry, and until it closes it, its connection (`Owner`); a thread that was
started for a failed `accept()` (`Stillborn`) has a slot that looks free, until the
sweep of the next call joins it; an open connection is in a slot (`Placed`); the
connection just accepted is nobody else's (`FreshClient`); and the loops have
looked at what their index says (`Loops`), so that the search ends at a free slot.
`BacklogPending` says that the backlog holds each pending connection once.
`Behind` says what "not behind" gives: the used slots and the clients about to
be counted off are no more than `m_clients` and the client about to be counted.
So with fewer than `MAX_CLIENTS` counted some slot is free, and the search
finds it.  That `behind` cannot become true but by a lost increment or an
`open()` with clients in service is `DriftIsExplained`, from how each step
changes `m_clients` and the slots alike (`DriftStep`, `BehindStep`).  The other theorems
follow from `SInv` and one step.  For `ImplementsPool` the open connections
inject into the used slots (`RoomAtAccept`), and each step is a step of the pool
(`PoolStep`).

`TcpStreamProofs` is about messages of any length, any number of them, any window,
any number of signals, and both directions.  Every step is one of three kinds:
`send()` takes bytes off `out` and puts them on the wire, `recv()` moves bytes
from the wire over `in` to `got`, a `recv_all()` that fails drops `in`.  So the
proof speaks of `Stream`, which is `got`, `in` and `wire` in one, and of
`Sent`, the number of the last byte that `send()` has taken: a `recv()` leaves
`Stream` as it is, a drop takes bytes out of its middle, and a `send()` adds bytes that
start behind `Sent`.  `OrderInv` says that `Stream` is increasing and up to
`Sent`, as long as the sender goes on, and that `out` begins behind it; `InOrder` is its first part.  Under
`Whole` nothing is dropped, and `FrameInv` adds that the `k`-th byte of `Stream` is
byte `k`, that there are `Sent` of them, that `got` is a number of whole messages, and that
after the end of stream it is all of them.

`LocalProofs`.  *OneInstance*: on Linux the inductive invariant is that the lock's holder is the process
whose object remembers it (`HolderKnows`), for any number of processes, calls
and crashes.  On Windows (`YesInv`) whoever was told yes has a handle or met a
failed `CreateMutex()`, whoever has a handle has asked, and of two processes that have a
handle of the mutex and were told yes, one has asked again: the first answer of the later one
found the mutex there.

*CBarrier*: the theorem shows both builds to implement `AbstractBarrier` for any
number of threads and rounds.  On Linux the invariant (`LinuxInv`) says that a thread
that waits has entered `round + 1` times and left `round` times, that one outside
has done both `round` times, and that one that is released has left once less.
On Windows (`WinInv`) each event that is signalled before anybody has left was signalled by a
thread that waits with its index.  A lost increment gives two threads one
index, and then some event is never signalled; so the events are complete only when all
threads wait, each with an index of its own.  After the first return the
signals are gone, `m_nsync` has passed the end of the vector, and no event is signalled again:
nobody can leave a second time, and no other thread at all (`WinOnePass`).

*CThread* (`OwnerInv`): an object that was told "created" has the id of a thread of its
own that was not joined (`OwnsIts`), unless its `create()` failed silently or another object
has joined that thread, and a thread that was not joined has an object that created it (`HasOwner`).  The
first gives `JoinsOwn`; `ZeroMeansEnded` and `NoneLost` are inductive together
with the two.  No order of the calls is assumed: what befell an object is in `past`.

`DescriptorsProofs`: an object that would close the number it holds (`Live`) owns that
number (`LiveOwns`), as long as `CTcpSock` and `CFile`, which forget nothing, are used tidily;
so a close hits nobody else (`ClosesOwn`).  The other way round, a number that is open
is held by the object that opened it, unless that object was untidy or botched (`NoLeak`), or
takes number 0 for none.
The lock of an application's file can only go by the unlock of a port, whose number is
free at that moment when there is one thread.

`DeviceProofs`.  *Pages*: the layout is arithmetic over truncating divisions,
proved for every number and size of blocks that fit and for all sizes of the
structures within `PagesAssumption`.  `OnlyOneOverlap` says that `root_info_t` and the first
block description share exactly `RootSize % 4096` bytes, because mem_alloc.cpp:317
rounds down, that these are behind the part of `root_info_t` that is used, and that nothing else in a page
overlaps.  `FreedOnce` needs that before
the first `free_buffers()` nothing was unmapped and that each page that is
mapped was laid out by `alloc_c2h_buffers()` or is in `g_pages` (`FreeInv`).
`BufferMatches` is proved through the place at which each block is stored: quotient and
remainder of the index give the page and the block back (`DivMod`, `OnePlace`), no two blocks
share a place, and the frames are appended in the same order.
*Disk* (`DiskInv`): a test that writes is at `idx * BlockWords`, so that the first
block of the drive never has a word of another block: a
`read_drive_block()` that stays at the start of the drive because `lseek()` failed
meets words that differ from those it expects, since the pattern of two blocks never
agrees at one index while it fits into a word.  The file is at any time the
beginning of what was given to the last writing call, so that a read of full length
is all of it.

`SerialProofs`.  *Line*: a device has `PARODD` only if it was opened with odd parity here or
another program has set it (`oddOnce`), and on Windows the
number that is kept is that of the port that was found (`LineInv`).
*Reader* (`ReaderInv`): while `getLine()` runs, what it has
collected are the bytes from the place where it began to the one before the next,
and no newline is among them; while `getWord()` runs, the same holds from
the first byte that is no blank, and all before it are blanks.  A byte that arrives
changes none of this, since it comes behind the bytes that are there.  An answer
was the unit that its call was to return (`IsUnit`), and stays so.

`ConfigProofs` is about files of any length.  Its invariant (`ConfigInv`) says that what
is on the disk and in memory is a sequence of lines, and that between two steps
`pBuf` is what `writeString()` builds from the file that is still there
(`Built`); the four properties follow from it and facts about one call.
These facts are pointwise.  `Put` says which line of the new text is which line of the old one:
the new option is at place `p`, and `gone` old lines, none or one, are left out
there.  A call on a file that ends with a newline is either `InPlace`, which adds that
`p` lies in the section that was asked for, or `AtEnd`.  That taking the new option out again
gives the old lines is `LinesKept`.  For `OthersKept` each remaining option
is shown to be in the same section as before (`SectionMoves`, since the new line is no header), so that
the options of one key are the same lines in the same order; `Ascending`, the
enumeration of a set of line numbers, exists, is unique and commutes with a map
that keeps the order (`AscendingImage`), so the lists of values are equal.
`SameMeaning` and `ReadBack` compare two searches: the first line that
`getString()` accepts is the first option that `CIniFile` puts under the key.
For `ReadBack` the lines of the key are followed from the old text to the new one, so that
the whole list of values is known: the written one, cut at a remark, in the place of the first
old one, and the other old ones behind it (`Renewed`).
The library's induction theorems cannot be used; induction over numbers is
replaced by least elements (`Smallest`, from the well-founded order of
finite sets, and `EveryNumber`).

Only model-checked: `Served`, `JoinReturns`, `Takeover`, `EverybodyPasses`,
`AllDelivered`, because liveness is out of the prover's reach.  All invariants and
action properties that the passing runs check are also proved.

## Findings

1. `m_clients` is not the "current number clients" (tcp_serv.h:60) once an
   increment and a decrement have met (`tcp_race_count`).  `DriftHasCause` has the
   other causes: a failed `accept()` is counted as a client (tcp_serv.cpp:252,
   286), and `open()` sets the count to 0 (tcp_serv.cpp:108) while clients are in
   service.
2. On Windows `OneInstance` answers yes to a refused process that asks again
   (`oneinst_win_again`), and to everybody when the mutex cannot be created;
   `OnlyOneAtFirst` says that nothing else goes wrong.
3. `CTcpServ::recv_all()` does not repeat on `EAGAIN`, as the comment at
   tcp_serv.cpp:367 asks for, and loses the bytes it has (`stream_again`).
4. `CCfgFile::writeString()` into a section that does not exist adds a section
   called after the option (`config_missing`), so the value is not found again,
   and each further write adds the pair once more.
5. `ComPort::openPort()` clears `PARENB` for odd parity (`line_parity`), and
   `PARODD` stays in the device: the next `open()` with even parity gets odd
   parity (`NothingLeftOver`).  Mark and space parity are refused.
6. `ComPort::openPort()` never sets two stop bits on Linux (`line_stop`):
   xserial.cpp:389 clears `CSTOPB` after the switch, against xserial.hpp:83.
7. `ComPort::readByte()` on Linux reads all bytes that are there into one
   `char` (`reader_byte`, xserial.cpp:720), where xserial.hpp:233 says one byte.

Two more disagreements were found by reading, and no run shows them: cfile.h says that
`FLG_FILE_OPEN` creates a file that is not there, and `convert_ipc_flags()`
(cfile.cpp) adds no `O_CREAT` for it; and `getWord()` ends a word at a zero
byte too, where xserial.hpp:252 has only a blank and the end of the line (`UnitsWhole` is worded so).

No sentence of the repository speaks about the following, so no run is expected
to fail on it, but the properties are worded around it:

- `client_idx` of `CTcpServ` becomes -1 when `m_clients` is negative and no
  slot is free (`NoOverflow`).  A service that clears its slot after the sweep has passed it
  loses its handle when the slot is taken at once (`ServingFound`).
- `CBarrier` on Windows lets one thread through and keeps all others
  (`WinOnePass`).
- `CThread::wait(timeout)` returns 0 for a thread that still runs when
  `tv_nsec` reaches 10^9, which it does not carry into `tv_sec` (`ZeroMeansEnded`).
- `CTcpSock` and `CFile` keep the number after `close()`: a second one closes
  somebody else's descriptor (`ClosesOwn`).  A `ComPort` whose settings are refused
  leaves its descriptor open (`NoLeak`); the unlock after `::close()` may hit
  a file of another thread (`LockKept`), and no `open()` takes the lock.
  `CTcpSock`, `Udp` and `CSharedMem` leak the descriptor 0 (`NoLeak`).
- `alloc_h2c_buffers()` writes behind `data_buf` when it has two or more pages,
  and a second `free_buffers()` unmaps all pages again (`BufferMatches`, `FreedOnce`).
- A huge page's `root_info_t` overlaps the first block description (`OneOverlap`).

### What the preconditions leave out

The runs contain the following cases, but no property forbids what
happens in them, because the code does not prevent it and no sentence of the repository promises
more.

- *Configuration.*  `ReadBack` and `SameMeaning` ask for plain files.  They fail otherwise, and TLC
  shows how when the condition is dropped: an option written `N = v` is not
  replaced but shadowed (`writeString()` compares exactly); an option is taken for
  another one if its value contains the other's name; `getString()` of an option
  that its section does not have finds one of the same name in a later section.
  `LinesKept` and `OthersKept` are about files that end with a newline, for `writeString()` damages the
  others.  An option that occurs twice keeps its second value, which `CIniFile`
  then joins to the written one (`Renewed`).
- *`CThread`.*  A timeout that reaches the next second may lose a thread or report its end too early.
- *Descriptors.*  The second `close()` of a `CTcpSock` or `CFile`, and the unlock of a port in a program of
  several threads.
- *`ComPort`.*  Numbers of ports that an `unsigned char` cannot hold (`AutoFirst`).
- *Huge pages.*  `BufferMatches` is about a card that was not used before: the frames of a failed call
  stay, and what a later call returns does not match them.  For `alloc_h2c_buffers()` it is about one
  page.
- *Disk.*  `Verified` says where each word of a confirmed block is, on the drive or in
  the buffer from before: a block left over in the buffer is confirmed whatever the drive holds.
  `ReadsWhole` is about `file_read()`: a short direct read or write
  reports success too.
- *`CBarrier`.*  Only the Linux build lets everybody pass.
- *`CTcpServ`.*  After `behind` only the upper bound, the types and the order of the pool hold.

## Not modelled

- `CTcpServ::connect(client_idx)`, which hands the service thread a pointer to its own stack
  frame (tcp_serv.cpp:166): what the thread reads is undefined, and any
  index would follow.  `recv()` and `send()` of the class are one system call, but
  `recv()` repeats for ever on errors that stay (tcp_serv.cpp:318).
- The Windows branches of `CThread`, `CSharedMem` and mem_alloc.cpp, `CBarrier::close()`
  and a second `init()`.
- `CMutex`, whose calls are those of the system.  A repeated `send_all()` after one
  that failed half-way, which sends the beginning of the message twice.
- Data transfers of `CFile`, `Udp` and `ComPort::write()`: one system call each,
  whose result is returned.
- `set_block_info()`, `get_block_info()` and `print_block_info()`; more blocks per page than
  `MAX_BLOCKS_PER_HP`, which nothing checks; products of block number and size beyond
  32 bits (they do not fit into a page).
- The listing of sections and names by `getString()`, and the conversions of
  `CIniFile`.
- The drive information of rwdisk.cpp on Windows.
- utils.h, cmdline.h, time_func.h, cpu_func.h, crc32.cpp, mem_func.h,
  net_utils.h: no state and no order of events.

## Plan

What could be added, most useful first: `connect()` of `CTcpServ` beside
`connect2()`; a second process that writes the configuration file.
