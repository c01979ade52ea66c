# A verification project for fastvideo

TLA+ models of fastvideo, the TLC configurations that check them on small
instances, and theorems proved with TLAPS for every value of the constants.
File and line numbers are those of `src/` in this repository.

## 1. The system

`fastvideo` relays video frames between *devices*. A stream is a list of
*pipes*; a pipe relays from its input device to its output device. Buffers
carry frames down the pipes (`dequeue` on the input, `queue` on the output) and
come back empty up the pipes (`dequeue` on the output, `queue` on the input).
One thread, `main_loop()`, does all of it; devices are reached through a table
of operations (`requestbuffer`, `start`, `stop`, `eventfd`, `dequeue`, `queue`).

| component | state it keeps | operations | how it interacts | what makes it correct |
|---|---|---|---|---|
| main loop (`fastvideo.c`) | the list of pipes with its iterator, `index` of the buffer in hand, the set of readable descriptors, `_run` | `main` up to the loop, `main_loop`, `main_transferbuffer` | calls every device; woken by descriptors, by a timer of one second and by signals | no buffer lost or in two places whatever is refused; it never sleeps for ever over work; it ends on a signal; the two ends of a pipe mean the same memory |
| passthrough (`spassthrough.c`) | main side: state of each buffer, a linked list, an eventfd; dup side: a ring, its head, an eventfd; modes `SHOOT`, `SHOOTING`, `TEE`, `DRYRUN`; a counter of frames | `queue`/`dequeue` of both sides, `start`, `duplicate`, `loadsettings` | sink of one pipe, source of the next; its controls are in memory shared with the settings process | the list is the ready buffers; each wakeup that is needed is there; a shot lets exactly one frame pass |
| V4L2 devices (`sv4l2.c`, `sv4l2_subdev.c`, `smedia.c`) | formats, controls; the table of buffers; the driver's queue | ioctls | camera or encoder of a pipe | a buffer is given to the driver once; what is told to the next device is what the driver settled on |
| DRM screen (`sdrm.c`) | the path to a display; one buffer on the screen, one pending flip (`queueid`), a fence | `create`, `queue` (atomic commit), `dequeue`, flip handler | sink of a pipe; its descriptor reports flips | the path exists on the card; a flip is not lost; drawing goes on |
| EGL renderer (`segl*.c`) | ring of exported buffers, `curbufferid`; buffer objects of a gbm surface, flips | `queue` (draw and swap), `dequeue` | transfer or sink | a refused frame loses no buffer; the GPU never draws in what is scanned out |
| MPEG-TS sink (`smpegts.c`) | room in the transport's packet, continuity counters, state of each buffer | `queue`, `dequeue` | a transport below | packets stay in step with 188 bytes; tables follow each frame; a refused frame loses no buffer |
| file sink and source (`sfile.c`, `sproto_file.c`) | buffers, frames read; a hidden file, two descriptors | `queue`, `dequeue`; `connect`, `send`, `recv`, `close` | sink or source of a pipe | frames in order; a visible file is complete |
| unix transport (`sproto_unix.c`) | a list of clients and a pool, the packet under way; an accepting thread | `send`, `flush`, `close` | below a sink; the thread shares the lists without a lock | an entry is free or in use |
| udp transport (`sproto_udp.c`) | a socket with a corked datagram | `send`, `flush`, `close` | below a sink | no datagram cuts a packet |
| tcp transport (`sproto_tcp.c`) | a ring of buffers, `in`, `out`, `clientfd`, `error`, `running`, `dropping` | `send`, `close`, `connect`, `destroy`; a sender thread | the sender thread shares the ring under a mutex and calls `send()` outside it | chunks leave in order, once; no data race on a chunk; no leak of descriptors; the stream resumes on the start of a frame; destruction ends |
| tiling transfer (`stile.c`) | state of each buffer, a ring of slots, an eventfd | both sides' `queue`, `dequeue` | transfer of a pipe | each tile once, in order; each buffer back |
| Hailo accelerator (`shailo.c`) | state of each buffer, `async_status`, counter of pending results, an eventfd | both sides' `queue`, `dequeue`, completion callback | callbacks of another thread | one result for each write; each buffer back |
| daemon (`daemonize.c`) | `_run`, the pid file and its lock | `daemonize`, `isrunning`, `killdaemon`, signal handler | the main loop tests it; processes meet on the pid file | one daemon at a time |
| control server and client (`server.c`, `client.c`) | list of clients, sockets | `server_run`, `attach`, messages; `client_send`, `client_wait` | commands of `fastsetting` | the list is sound; requests are answered |
| settings process (`fastsetting.c`, `sfastvideo.c`) | the shared control words | commands of the server | writes the words the pipeline reads | see the passthrough |
| configuration (`sconfig.c`) | the definition of each device | search of an entry, options, merge | read by `create` of each device | each member comes from where it should |
| still pictures, converters, DMA buffers, skeleton, DVB | – | – | – | section 7 |

The behaviours that are hard here: a frame crosses the passthrough in two calls
with any number of other calls between them; eventfds count but a read takes the
whole count; a sink may refuse a frame, in its middle too, and the buffer has to
go back; cameras hang or are unplugged, signals come between a test and a
`select()`; another process writes the controls without a lock; the tcp
transport has a second thread, a blocking call outside its mutex and descriptor
numbers that are used again; the unix transport has a thread and no mutex; the
accelerator calls back between any two steps; several processes meet on one pid
file; and four attempts to share buffers each leave something behind when they
are refused. `PROJECT.json` lists these hazards at their lines with the
properties that cover them.

## 2. Modules

| module | what it is |
|---|---|
| `FrameBuffers` | the numbers of the buffers, which all devices share |
| `Passthrough` | both sides of `spassthrough.c`, one action per call and outcome, and the settings process |
| `Relay` | the control of `main_loop()` and `main_transferbuffer()` for any pipes: iterations, `select()`, legs, failures, the end |
| `Camera` | a V4L2 capture device as the main loop sees it, and its driver |
| `MainLoop` | composes `Passthrough`, `Camera` and `Relay` with the sink, the timer and signals |
| `Gpu`, `Screen`, `ScreenLoop` | the renderer off screen, the screen with the kernel's flips, and their composition with `Camera` and `Relay` |
| `ProtoTcp`, `ChunkQueue` | `sproto_tcp.c` with its threads, clients and descriptors; the abstract queue of chunks it implements |
| `Transport` | the interface between a sink and its transport: a call, its answer |
| `Mpegts`, `SFile` | the two devices above a transport |
| `ProtoUnix`, `ProtoUdp`, `ProtoFile` | three transports; `VideoList` is the list of `sfastvideo.c` that `ProtoUnix` uses |
| `Sinks` | composes a device with a transport, as the configuration says |
| `Tile`, `Hailo`, `Gbm` | transfers that keep the camera's buffer: tiling, accelerator, renderer with a screen of its own; `TileGrid` is the grid of tiles |
| `Transfers` | composes one of them with the camera and the loop |
| `Daemon`, `SettingServer` | the pid file; the control server and its clients |
| `Control` | composes them: processes of `fastvideo` or of `fastsetting` |
| `Definition`, `V4l2Formats`, `V4l2Buffers`, `Display`, `Peers` | pure operators: configuration, formats and sizes, buffers of a V4L2 device, path of a screen, answers of the other devices |
| `Setup` | `main()` before the loop, which uses them: creation of the devices, then negotiation of the buffers |
| `QueueLemmas` | lemmas on queues without doubles, on the two queues of a camera's driver, and on buffers that go round in the order of their numbers |
| `MainLoopProofs` (with those about `Passthrough`), `ScreenLoopProofs`, `ProtoTcpProofs`, `TransfersProofs`, `SinksProofs`, `ControlProofs`, `SetupProofs` | the theorems |
| `MCPassthrough`, `MCMainLoop`, `MCProtoTcp`, `MCSinks`, `MCSetup` | what TLC needs besides the constants |

Operators named in a comment "Mutant of X" are the bugs that the properties are
checked to detect; no action uses them.

### Passthrough

Variables keep the fields' roles: `mstate`, `mlen` and `fifo` are
`buffers[i].state`, `.bytesused` and the list from `curbuffer` along `next`;
`dstate`, `dmem`, `dlen`, `dcur` the same of `dev->dup`; `mfd` and `dfd` the
counts of the eventfds; `mode` is `dev->state`, `period` is `dev->periodic`;
`ctl` and `ctlperiod` are the shared words.

- `QueueOutput`, `RefuseOutput` are `spassthrough_queue_output()`; both begin
  with `AbsorbControls`, because the code does so before it looks at the buffer.
- `DequeueOutput`, `DequeueOutputBusy` are `spassthrough_dequeue_output()`; the
  test on `DRYRUN` uses the mode on entry, and a shot ends even when the dup
  side is busy.
- `DequeueInput`, `QueueInput` are the dup side's calls.
- The settings process reads the shared word and writes it back in two steps.

Abstracted: what is in a frame (a buffer's memory is named by the buffer it
belongs to), its flags, the arithmetic of `resize`, a `bytesused` of 0 (which
the code replaces by the size of the buffer before the first use). `dry` and
`granted` are history variables.

### Relay and MainLoop

`pc`, `leg`, `drained`, `rfds` and `hand` are the thread: a *leg* is one call of
`main_transferbuffer()`, named after the device it dequeues from. A dequeue is a
step, the queue that follows is another, giving back a refused buffer a third,
so that devices, signals and settings act in between. `Failed` is the pair of
`killdaemon()` and `break`; `broke` keeps the pipe at which pass 2 was left by
it, because the loop that stops the devices starts where the list's iterator is
(`fastvideo.c:326`). `Terminate` covers a signal on both sides of `select()`.

The camera is the queue of its driver (external): it fills buffers in order and
may hang or go away. The sink (external but for the calls) takes buffers, holds
them as long as it likes, gives them back in any order and may refuse any frame;
it covers an encoder, a file and a stream whose network is full. It starts
without a buffer, which a screen does not (see `ScreenLoop`). It has no
descriptor to wait on when it is a V4L2 output (`eventfd(dev, 1)` and `(dev, 2)`
are -1), so the loop tries it every time.

### ScreenLoop

`Gpu` keeps `curbufferid` of both sides (`gcur`, `gring`) and the states of the
dup side's buffers. `GpuIdle` is the test that answers `EAGAIN`; `Draw` loses the
image when the dup side's buffer is not free, as the code does. `Screen` keeps
`queueid`, and of the kernel a commit that is not shown yet (`flipping`) and the
events not read; `accepts` is the driver's answer to a commit. `ReadFlip` is
`sdrm_dequeue()` with `page_flip_handler()`; `ScreenInit` is after the commit of
`sdrm_start()`. `Tried` comes from the descriptors: the screen has one only while
a flip is awaited, the renderer answers 0 or -1 on one side and -1 on the other,
and an error on a leg without a positive descriptor is not fatal
(`fastvideo.c:315`). Abstracted: the images, the arguments of the commit, the
state of the buffer `queueid`, which is always `queued`. The module is compiled
as the default configuration says (`SDRM_FASTER_TRANSFER`), without a writeback
connector.

### ProtoTcp

A critical section is one step; `_proto_send()` is split where the code reads
what the sender may change (`SendStarts`, `Gate`, `Reserve`, `Copy`, the two
halves of `_proto_push()`), `proto_close()` in its critical section and the rest,
`proto_destroy()` in three. `send()` is three steps of the sender without the
mutex: the lookup of the descriptor, the return, the record of the result. A
descriptor is a number that `close()` frees and `accept()` gives again; a
connection is an object of the kernel. `SpuriousWakeup` is what POSIX allows of
`pthread_cond_wait()`. Messages are a length and two flags; `data` keeps one tag
per message. `recv` (inputs only) changes no state of the module.

### Sinks

`device` and `proto` are chosen in `Init`. A device makes one call at a time
(`Transport`: `call` and `reply`), so threads and peers act between the pieces
of a frame.

- `Mpegts`: a frame is `left` packets of `Packet` = 4 units, one of header and
  three of payload. `room` is the room that the sink itself counts in the
  transport's packet (`_client_pushdata()`), which the transports count apart in
  `offset` and `corked`. After the last packet come the tables (`psi`: PMT, PAT,
  SDT) and null packets until the packet leaves; `Refused` is a piece answered
  with `EAGAIN` in the middle of a frame.
- `SFile`: as a sink a header and the data of each buffer, as a source one frame
  read in each buffer; both give buffers back in the order of their numbers
  (`GiveOrder`). `maxframes` makes it close and connect again.
- `ProtoUnix`: `clients` and `pool` are lists on one heap (`VideoList`, with the
  iterator inside the list). Two threads work on them without a lock, so each
  statement of `push()`, `pop()` and `poplast()` that reads or writes a field is
  a step, and `task` says where each thread is: the head it was given, the entry
  it moves, the one it looks at, the variable the result goes to. The sender
  walks the clients (`NextClient`, `SendTo`) and moves one that is lost to the
  pool (`LoseClient`); the accept thread takes the last entry of the pool
  (`Accept`, `TakeEntry`) and pushes it on the clients (`AddClient`). `ucrossed`
  records that both threads were in a call for the same list at once, `ubroken`
  that a thread has followed a null pointer (`Segv`) or spins in `close()`.
- `ProtoUdp`: `corked` is what `MSG_MORE` leaves in the kernel.
- `ProtoFile`: `hidden` is `.tmp.part`, `dir` the names, `length` what an inode
  has modulo a packet, so that `VisibleIsFinal` does not see a write of whole
  packets only. `WriteConnect`, `FileSend`, `FileRecv`, `FileClose` may
  fail where the system call may; `Second` lets the clock that names files go on.

Abstracted: the payload, the PCR and the smooth clock, the variants of the build
that the default configuration leaves out (`O_TMPFILE`, direct output).

### Transfers

`kind` says which transfer ends the pipe. The main loop's part is `Taken`,
`Refused` (which pushes the buffer back), `Return`, `Lose` and `Failed`.

- `Tile`: `slot` is the ring that the dup side gives tile by tile, `writeid` and
  `readid` its ends. A frame that finds no slot in its middle is refused with
  the tiles it has written (`TileRefuse`).
- `Hailo`: a write is `flying` until the library completes it; the callback is
  three steps (`CallbackReady`, `CallbackCounts`, `CallbackTells`) in the
  library's thread. `hstatus` is `async_status`, of the last completion only.
- `Gbm`: a frame is drawn in a buffer object that is free (`locked` holds the
  others), committed (`flip`), shown at the next refresh; its camera buffer goes
  back when `native_sync()` has read the event.

`lost` are buffers that nobody has any more: after an error of a device the code
drops some, and the model says which.

### Control

Each system call on the pid file is a step of `Daemon` (`Stages`): fork, open
and lock (`F_SETLK`); for `killdaemon()` the close, the open, the question who
has the lock with the signal, the unlink.
A lock belongs to a process and goes with any close of the file. A process may
crash at any step and start again. `crossed` records that `killdaemon()` met
another process that has opened the file and not locked it, or opens it then, or
a daemon that is not the one that ends: its path is unlinked while it works, and
two daemons can work.

`SettingServer` is `server_run()` of each process: `Select` gives the set `rfds`,
then accept and the `walk` along the list, one client each step; what the turn has
looked at leaves `rfds`. A socket carries what the client has `asked`; two requests
may be read in one receive, and the server then answers once. What `_loadsetting()` answers depends on the objects
that it finds: a `"silent"` command or settings file has none (no `data`, neither
an object nor an array, or an array without objects), and no answer. `InList` is
what is met from the head of the list on, as the least set that is closed under
`next`. `ServerDestroy` unlinks the path even when another process has bound it.
`Control` adds `main()` of both programs, crashes, `SIGTERM` and `SIGPIPE`.

### Setup

`Create` makes the devices of a command line, in order: each takes its entry
(`Definition`), merges what the device before it settled on, and asks its driver
(`V4l2Formats`) or its card (`Display`). `Negotiate` then runs, for each pipe,
the four attempts of `fastvideo.c:517`: the source lends descriptors, the source
lends memory, the sink lends descriptors, the sink lends memory. Each attempt
asks one side as master and, if it accepts, the other as slave; a refusal leaves
in the devices what the code leaves. `src` and `snk` are the two ends of a pipe,
`how` the attempt that succeeded. The answers of the devices are in
`V4l2Buffers` and `Peers`, as functions of the device's record. Where the code
leaves defined behaviour (it writes past a table, it reads a freed one) `pc`
becomes `undefined` and the run ends: nothing is claimed after it.

Abstracted: fourccs and sizes are a few values, a memory is the name of its
owner, a buffer has one plane, an export works for all buffers or for none, and
a driver always has mapped memory.

## 3. Runs

| run | instance | distinct states | what it shows |
|---|---|---|---|
| `passthrough` | 2 buffers, `shoot` and `dryrun` (without a branch `tee` has no effect), periods 0, 1, 2, any order of calls | 1.1 million | list, wakeups and shots are right however the two sides and the settings process interleave |
| `pipe` | 2 buffers, at most 2 relays per leg, shots by period | 0.5 million | no buffer is lost or doubled, none is queued twice to the sink, the loop sleeps only when a frame will wake it |
| `pipe_live` | the same, no discarded frames, fair thread and devices | 89 thousand | buffers and frames move on, a signal ends the loop, both rings keep the same index |
| `screen` | 3 buffers, 2 relays per leg, renderer and screen, fair thread and devices | 0.75 million | camera buffers and images are kept whatever is refused; a single flip is on its way and it is always read; drawing goes on whatever the screen does |
| `tcp` | ring of 3, 2 messages per chunk, 2 clients, 2 descriptors, symmetry | 2.5 million | ring, ownership, descriptors, resynchronisation; the ring implements `ChunkQueue` |
| `tcp_live` | ring of 2, with and without http, messages that do not fit, one descriptor for two clients | 0.26 million | chunks leave while clients read; destruction ends with a client that does not |
| `sinks` | 3 buffers, frames of up to 2 packets, unix packets of 9 units and datagrams of 11, 2 entries and 2 peers (symmetric; 1 at a time with metadata) whose threads' reads and writes come in every order, 3 inodes, 2 seconds | 2.0 million | sink and transport count the same bytes, packets are whole, tables follow, no buffer is lost, an entry of the pool is never in use, a visible file is final, a file is read in order |
| `transfers` | 3 buffers, 2 tiles, 2 writes and 2 results in the accelerator, 1 failure, 3 buffer objects | 69 thousand | each buffer is in one place, the loop is woken, tiles, results and objects are counted right |
| `control` | 2 processes, 3 inodes, 2 clients that send settings with and without an object and resets, one settings file that has settings, has none or cannot be read, fair processes | 0.29 million | one daemon, a sound list; what the code answers is answered, or its server ends |
| `setup` | 15 command lines, 2 buffers, 4 drivers, 3 files, 2 sets of options, cards with and without bound encoders | 0.61 million | the ends of a pipe share their memory, definitions come from where they should, a screen's path exists |
| `burst`, `screen_ring` | as small as shows the counterexample | | the code differs from what the documentation says, section 6 |

Why the bounds are enough. Two buffers are the least with which a second frame can
be queued before the first is dequeued, with which the ring wraps and with which
every buffer can be held on one side; the theorems of section 5 remove the bound
for the properties they name. `MaxDrain = 2` lets a leg end by its bound, by lack
of work and by a refusal (16 in the code). `CounterWrap = 3` (2^32 in the code)
with the periods 1 and 2 lets a period be lowered to the count already reached,
which `==` then misses, so that the counter wraps. Three buffers are the least
with which the renderer's ring can wait for a buffer that the camera never gets
accepted; with two the refused one comes next. A ring of three chunks has a free,
a gathered and a sent one at once; two clients and two numbers let a number be
given again while the sender still uses it. `UnixMtu = 9` holds whole packets and
one unit more, like the 7 * 188 + 1 bytes of the code, and `UdpMtu = 11` a longer
rest, like an Ethernet frame without its headers; two peers and two entries let
the pool run empty, an entry be used again and a client leave at either end of the
list during a walk. The run `sinks` does not go on from a state in which both
threads of the unix transport are in a call for the same list, because `PoolIsFree`
says nothing from there on (`NotCrossed`). Two seconds and three inodes let two recordings have the same
name, different names, and the disk be full; `FileLen = 5` with `Maxframes = 4`
has the source stop before and at the end of its file. The tiling's ring has six
slots: a frame that comes when only one of them was given finds it full in its
middle. A file more than the processes keeps one unlinked file for each. No
eventfd is capped: they cannot grow above the number of buffers.

Clients come only to a server whose start as a daemon went well (`ClientActs`).
`MaxPackets`, `MaxSeconds`, `MaxInodes` and `MaxFailures` are bounds of the model;
the other constants are parameters.

`CHECK_DEADLOCK FALSE` stands where the system stops: the loop ended (`pipe_live`,
`screen`, `screen_ring`, `transfers`), the transport destroyed (`tcp`,
`tcp_live`), the file full or read or a thread lost (`sinks`), the processes ended
(`control`), the loop started or the start refused (`setup`). In `passthrough` and `pipe` deadlock is checked;
in `pipe` the timer and the sink go on after the loop's end.

## 4. Fairness

`MainLoop`: the thread takes a step whenever it is not asleep in `select()`, and
the kernel's timer expires each second (`fastvideo.c:208`). For the progress of
frames the camera, as long as it works, fills the buffers it was given, and a
sink finishes with what it holds; a camera may hang at any time and nothing is
assumed of it then. No fairness is assumed of signals or of the settings.

`ScreenLoop`: the same thread, timer and camera; a commit is shown at the next
refresh. Nothing is assumed of the driver's answers: `ImagesDisplayed` asks for
images only while it takes commits.

`ProtoTcp`: both threads are scheduled. Nobody has to call the transport, to
connect or to read.

`Control`: a process that runs is scheduled, and a client reads its answers
(`client_wait()`). Nobody has to start a process, to connect, or to ask.

`Sinks`, `Transfers` and `Setup` state safety only. That a buffer held by a
transfer is given back needs the loop to be woken, which `NeverStuck` states as
an invariant.

## 5. Proofs

`MainLoopProofs`, about `Passthrough`: `IInv`, the conjunction of `TypeOK`, `FifoExact`,
`DupWakes`, `MainWakes` and `DryUnlessShot`, is inductive (`Invariance`), one
lemma per action. `DupWakes` needs its part "only the head is ready": it is what
tells, when the head moves, that the new head is not ready and the eventfd must
be 0. `MainWakes` needs `FifoExact`: after a dequeue a buffer is out of the list,
so not all are ready. `OneFrameEachShot` (the action property) follows from
`IInv` and from `HandedOverByDequeue`: only `DequeueOutput` hands a frame over,
and when dry it does so under a granted shot.

The same module, about `MainLoop`: `PInv` adds to `IInv` the types of the pipes, `HandOK` (a
buffer is in hand between a dequeue and a queue), `FilledOK` (what the camera
gives has the length of a frame) and `LentToSink`. `HandOK` and `FilledOK` make a
queue of the loop a legal call; so every step of the pipes is a step of
`Passthrough` or leaves it alone: `PipeImplementsPassthrough`. `LentCorrect`
shows that `VIDIOC_QBUF` on the sink is never given a buffer it has. `CInv` is
about where the camera's buffers are: as long as the camera is there its
driver's queues hold no buffer twice, nor the same (`TwoQueues` of
`QueueLemmas`), and each buffer is with the driver, in the hand of a leg of the
camera, or ready on the main side, and in one of them only (`OnePart`). `LegOK` tells
which legs have a buffer in hand. `OnePlaceCorrect` counts these parts as
`OnePlace` does; `SleepsSafelyCorrect` follows from it and from `MainWakes`: if
the main side had all the buffers its eventfd would be set, and those it does
not have are the camera's. `SameBufferCorrect` is about the index that a sink of
DMA buffers is given. The ring and the FIFO move at different times: the FIFO when
a frame is given back, the ring when it is taken out for the sink. `LInv` counts
from `NextHandover`, the buffer of the ring that takes the next frame: the FIFO, the
hand of pass 1, the frames of the camera and its empty buffers stand in one line,
in the order of the ring (`InLine`), and a buffer in the hand of pass 2 is the last.
A buffer that enters has a turn behind those of the FIFO, so the main side never
refuses it. The theorem assumes that nobody asks for a shot or for DRYRUN: a
discarded frame leaves the FIFO and not the ring, and shifts one against the other
(section 6, `spassthrough.c:579`).

`ScreenLoopProofs`: `SInv` is the types of the devices, `HandOK`, `RefusedOK`
(only a frame of the camera or an image is given back), `NoGpuOK` (without the
renderer its legs are never taken and no image is lent), `OneFlip` and
`ImagesKept`. `HandOK` makes each commit one of a buffer, without which `queueid`
could be empty while a flip is on its way; `RefusedOK` and `NoGpuOK` tell that
the loop puts an image back when it gives up a leg. It holds with the renderer
and without, for any number of buffers, and when the driver of the screen refuses
commits at any moment. `CameraCorrect` has a `CInv` as above with the renderer's
`gcur` in the place of the main side; it assumes `WithGpu`, and without the
renderer it does not hold (section 6, `sdrm.c:1383`).

`ProtoTcpProofs`: `TInv` adds to the types what each call of the producer has
done so far (`CallOK`), that one chunk at most is being filled (`OneQueued`),
what the sender holds (`SenderOK`: a client for its descriptor, a chunk that is
ready), that the chunks between `in` and `out` are the ready ones
(`RingFilled`), and `NoFdLeak`. The lemmas on the ring are arithmetic modulo
`NBuffers`. `RingCorrect`, `ChunkOwned` and `FdsClosed` follow from it.
`StreamResumes` is an action property: `Resync` tells, at each point of a send,
that what enters a chunk while `dropping` is set starts a frame.
`RingImplementsQueue` shows that each step is one of `ChunkQueue` or a stutter
under the mapping: the chunks that wait are the ready ones read from `out`, and
what is gathered is the content of the chunk being filled (`GatheredOK`). Their
number is that of the ready buffers by the bijection of `Counted`;
`PushCommits`, `ReleaseRemoves` and `ProducerGathers` are the three steps that
are not stutters.

`TransfersProofs`: `TransferInv` says that each buffer is in exactly one of the
camera's queue, the transfer and `lost` (`Kept`), and for each transfer what
ties its counters to its buffers: `TileOK`, `HailoOK` (what flies, what the
callback has in hand and what is ready are apart), `GbmOK`; `Blamed` (a buffer
is lost only after an error) and `Told` (the eventfd is set when a buffer is
ready and no callback is still to write it). `TransferKeepsBuffers` and
`TransferWakes` follow. `TransfersAreExact` has an invariant for each transfer:
`RingOK` (the ready slots are the `tpending` ones from `readid` on, and each
holds the tile after that of the slot before; a frame that is refused in its
middle leaves a tile that the first tile of the next attempt follows), `CountOK`
(the counter of results between the steps of a callback) and `LockedOK` (only the
object committed last is locked, or one more when the end came between). The
size of the ring is a product of two constants; `PlaceIs` gets rid of the modulus.

`SinksProofs`. *Accounts:* `StreamInv` says, at each point of a frame, which piece
is under way, that the room before it is a whole number of packets short of the
mtu (`Aligned`), and that the transport has gathered the rest (`PieceOK`), or
nothing when it has refused. `AccountsCorrect`, `PacketsAreWhole` and
`TablesCorrect` follow for any length of a frame, number of clients and sequence of
refusals. They assume `UdpMtu % Packet # 0`: the datagram of an Ethernet leaves
156 bytes of 1472 when it is cut in packets of 188. On an interface where nothing is left
`HasRoom` is false with a packet still missing, and the accounts differ from then
on; the unix transport has its rest by its own constant (7 * 188 + 1), and the
file transport, whose mtu is a multiple, is not claimed.
*Buffers:* for `Mpegts`, a buffer is upstream exactly when its state says so
(`UpOK`), the one under way is queued while it is sent and ready when it is given
back (`StatesOK`). For `SFile`, `RingOK(k)` says that the `k` buffers that come
next by number are queued, then comes the one of the call under way, and the
others are upstream in the order of their numbers; `Turn` counts from `lastid`.
`BuffersAreKept` follows. *Frames:* `FramesOK(k)` says that the frames in those
`k` buffers follow each other, that the first follows the one given last and that
the file's position follows the last (`NextIs`); `FramesInOrder` follows.
*Files:* `FilesOK` says that no descriptor leads to a file with a name, and that
the descriptor which is not the current one leads to none: `FilesAreFinal`.

`ControlProofs`: `DInv`, as long as nothing is `crossed`: a
daemon's lock is on the file that the path names, a process that has opened the
path and not locked it will lock that file, and whoever is about to remove the
path is alone with it. `DaemonAlone` follows, because a lock has one owner. That
a new file exists for each open is a pigeonhole over `DaemonAssumption`.
`SInv` is about each server: `ListOK` (the links stay among its open sockets and
agree, and every set closed under `next` that has the head has all of them, which
stands for a list that reaches each one and ends), `BacklogOK`, `SeenOK` and
`WalkOK`: what `select()` has seen is still there, except for the clients that
the walk has behind it, a part of the list closed under `prev`. That is why a
client linked at the head during the walk is not read from, and why one that
is unlinked takes nobody along. `ServersAreSound` follows.

`SetupProofs`: `SetupInv` says of the devices that already exist what
`SameDefinition` and `ScanoutFits` say once all of them do, and that the
configuration of the camera has no empty member, because `_sv4l2_prepare()` leaves
the driver with a size and a format (`PrepareIs`). That is what the creation of
the next device needs: `choice_config()` writes in the source that the device
before was told of (`ChoiceIs`), and would else give the camera, which nobody
sets again, what the other end was given. `JoinedOK` is the step; `DisplaysFits` follows the
choices of `sdrm_create()` from connector to plane. `DefinitionCorrect` and
`ScanoutCorrect` hold for any sequence of devices, any files, drivers and cards.
`FramesCorrect` is about what the four attempts leave. `NegotiationInv` says of
the pipe that is negotiated what the refusals so far can have left in its two
devices (`Tried`, for each attempt: after the first, a V4L2 source has
descriptors of all its buffers, none at all, or buffers that its driver no longer
holds), of the pipes behind it that their devices are as they were created, or
were given a duplicate's buffers (`WaitingOK`), and of those before it that both
ends have the same memory (`AgreedOK`). There is a lemma for each way of asking a
kind of device (`FirstLentByV4l2` to `TakenByOtherSources`); `AgreesAt` puts the
two answers of an attempt together, `MasterLeaves` and `SlaveLeaves` what a
refusal leaves. A camera that exports but cannot queue descriptors is left with
buffers that it cannot queue; main_loop() does not start then, which is why
`AgreedOK` speaks of a camera that can. `FramesShared` leaves out, as
`NumbersAgree` says, a memory to memory device behind a tiling, and one behind a
camera with more than `MAX_BUFFERS` that is not next to it:
`sv4l2_requestbuffer_userptr()` takes as many buffers as its own configuration
has, whatever it is lent, and accepts (`sv4l2.c:899`), so that a tiling, which lends
its buffers for each tile (`stile.c:346`), lends indexes which the sink does not
know. The exception is about the command line and the numbers only, never about
what the hardware refuses. The invariant is stated for the command lines of
`NumbersAgree`, and `NumbersKept` shows that no step enters them.

Assumptions are those on the constants: at least one buffer, a positive width of
the counter, a positive `MaxDrain`, requests among the three bits, null values
outside the descriptors and connections, a positive `Mtu`, finitely many processes
and more files than processes, more than two buffer objects (gbm has four), the
mtu of the unix transport no multiple of a packet, a file with a frame at least,
finitely many entries in the pool, a value for no descriptor that is no peer,
command lines from a camera to an output, sizes that are numbers and a positive
`nbuffers`, drivers that have a size and a format before they are asked for one
and grant a buffer at least, and cards whose connected connectors have encoders of
the card. TLC evaluates them in every run.

Model-checked only: the liveness properties, which are out of the prover's
reach, `RequestsAnswered` among them, and `PoolIsFree`: an inductive invariant
for it has to say what each half-done `push()` or `pop()` of either thread leaves
in the heap. Every other invariant of the runs that pass is also a theorem, and
so is every action property, under the hypotheses given above for each.

## 6. Findings

- `burst`: the data of every queued frame is written in the head of the dup ring,
  ready or not (`spassthrough.c:660`). The main loop drains several frames of the
  camera before it dequeues the main side, so the second replaces the first.
- `screen_ring`: with a camera faster than the loop the renderer refuses the same
  buffer for ever, and the ring of its dup side waits for that buffer.

Seen while modelling, without a run. The models do what the code does here; no
property claims otherwise, or the property names the exception.

Passthrough, main loop and screen:
- the length handed over without a converter is the one the buffer had before
  this frame (`spassthrough.c:95`); discarded frames move the list of the main
  side and not the ring, so a shot gives the sink another buffer's index than its
  frame's (`spassthrough.c:579`);
- the branch of a `tee` never has buffers (`spassthrough.c:637`), so that the
  first frame after the request dereferences NULL (`BranchQueueCrashes`);
- the commit of `sdrm_start()` is read as a frame: without the renderer, buffer 0
  is given to a camera that never lent it, and after a passthrough the first flip
  is refused and committed again for ever (`sdrm.c:1383`);
- `segl_drm.c`: a commit that fails keeps the buffer object locked; in the atomic
  build `waiting_for_flip` is never set.

Transports and sinks:
- the tcp transport waits for a start mark that the file sink never sends
  (`sproto_tcp.c:256`, `sfile.c:454`); with http a client's stream may start in
  the middle of a frame;
- `sproto_unix.c`: a client alone in the list is never served; `EAGAIN` on one
  client loses the rest of the packet for all; taking the head out of the list
  loses the list; taking from a pool that was empty when its entry came back
  follows NULL, because the head of that pool has no tail; so does taking a client
  out when another was put before it since `next()`, because the iterator is in
  the former head. When both threads are in a call for the pool at once, an entry
  can be free and in use: `push()` has read the head e3 of the pool, `poplast()`
  takes e3 for a new client, `push()` then links its entry before e3 (`PoolIsFree`
  names this exception). Closing with clients follows freed entries or does not
  end; sockets are leaked. A frame of the file sink is cut to the mtu;
- the udp transport stays closed after close and connect;
- names of files count seconds: a second recording of the same second keeps its
  hidden name and is removed when the next starts; a `connect` that fails leaves later
  writes to descriptor 0;
- a source that loops gives the first frames again (`sfile.c`), and a file asked
  to lend its buffers before it has some dereferences NULL; no tables follow a
  frame over the file transport that ends before the boundary of ten packets.

Transfers:
- a frame that finds the ring of tiles full is refused, and its tiles are written
  again with the next attempt (`stile.c:466`); one read of the eventfd takes the
  count of several completions;
- `async_status` is that of the last completion only, a stale `errno` of `EAGAIN`
  loses a buffer, and a write that failed still counts a result (`shailo.c`).

Processes:
- two daemons can work when one starts while another is in `killdaemon()`, or
  when `killdaemon()` of a process without the lock unlinks the file of a daemon
  that has not ended yet;
  `SIGTERM` between the handlers and `_run = 'r'` is forgotten
  (`daemonize.c:344`); a signal that is not received in `select()` does not stop
  `server_run()`, a failed `accept()` does (`server.c:131`);
- `client_send()` may raise `SIGPIPE`; `client_wait()` spins when the server
  closes; requests received together get one error for all; a setting without an
  object (`fastsetting.c:82-105`), and a `reset` that finds none before a file that
  cannot be read, have no answer, and `client_wait()` (`client.c:101`) then waits
  for ever: `RequestsAnswered` names these exceptions; `server_destroy()` unlinks
  the socket of another server.

Before the loop:
- a camera that cannot export its buffers: the second attempt succeeds with none
  (`docs/hailo-yolov8.md` calls the fallback harmless); one that exports but
  cannot queue descriptors gives NULL addresses in the memory attempts;
- `sdrm` as a master writes its table in the variables of `main()`, or in an
  allocation of size 0; a camera with more buffers than the screen has overruns
  its table; a memory to memory device whose `USERPTR` is refused leaves a freed
  table that the third attempt reads;
- planes are described at `i + j`, so that they overlap; the choice of a discrete
  size takes each size at least as high; `fps` as an object is read in `fourcc`
  and so never; an `fps` that the options do not give is -1 for V4L2 devices only
  (`sv4l2.c:1753`), and -1 is not merged over. The others have 0, for which the
  file's `fps` is not read (`sconfig.c:225`) and over which the rate of the device
  before is merged (`sconfig.c:257`), though `docs/modules.md:56` has `fps` among
  the entries that most modules share; the vertical blanking may become negative; the search of a free
  encoder keeps the last one only;
- the dup side of a passthrough that is asked as a slave ignores what it is given
  (`Deaf` in `Setup`);
- a memory to memory device that is lent addresses takes as many as it was
  configured for and accepts (`sv4l2.c:899`): behind a tiling the source has
  more buffers than it knows (`NumbersAgree`).

## 7. Not modelled

- The stream of the writeback connector (a second fence, seen by `select()` only)
  and the legacy page flip of `sdrm.c`; `Setup` has its creation and its buffers.
- Trees of pipes: a `tee` crashes with its first frame (section 6), so nothing
  follows it.
- The smooth clock, PCR and payload headers of `smpegts.c`: arithmetic on time.
- V4L2 controls, crop and media links; the x11 and wayland windows: one library
  call each, without a state that another step reads.
- Errors: a submit of the accelerator that fails for another reason than a full
  queue (`shailo.c:523-527`), a `killdaemon()` without the permission to signal or
  to unlink, a `_passthrough_copy()` that returns -1.
- `fastpicture.c` (a sequential program: one frame, written and left), the pixel
  converters (arithmetic, tested by comparing images), `sdmabuf.c` (allocation and
  mapping, one ioctl each), `sskeleton.c` (a template) and `sdvb.c` (not built by
  the default configuration), the generator `fastconfig`, the small helpers of
  `utils`.
- Loading of JSON and of networks, calls to GL, post-processing of the
  accelerator: external, and used only through their answers.

Worth doing next: the writeback stream as another sink of `ScreenLoop`.
