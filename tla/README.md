# Specifications of ulalaca-xrdp

TLA+ models of the ulalaca module for xrdp (the C++ code in `src/`): what they
cover, what TLC checks on small instances, what TLAPS proves for every value of
the constants, and what is left out. `PROJECT.json` ties every definition to the
source lines it stands for.

## The system

xrdp loads `libulalaca.so` into a session process. The module connects to the
*projector* (a program that captures the screen, sends the images and injects
keyboard and mouse events), turns the projector's updates into xrdp drawing
calls, and xrdp's events into messages for the projector. Three threads of the
process matter here:

    xrdp's thread        calls mod_start, mod_connect, mod_event, mod_frame_ack,
                         mod_end, mod_exit ... (XrdpUlalacaPrivate::libMod*)
    projector thread     ProjectorClient::mainLoop(): reads messages, calls
                         addDirtyRect() and commitUpdate()
    update thread        XrdpUlalacaPrivate::updateThreadLoop(): takes images
                         off the queue and paints them on the surface
    (worker thread       IPCConnection::workerLoop(), one per connection: moves
                         bytes between the socket and two queues)

### Inventory

| component | state | operations | interacts with |
|---|---|---|---|
| **IPC connection** (`IPCConnection`) | read and write task queues, `_isGood`, `_isWorkerTerminated`, the worker's half-filled buffer | connect, disconnect, isGood, read, write, workerLoop | callers block on futures; the worker on poll(2) of a `UnixSocket` |
| **Unix socket** (`UnixSocket`) | a descriptor | poll, read, write, close, connect | the kernel and the peer |
| **surface: frame flow** (`ULSurface`) | frame counters, pending rectangles, the drawing thread's id, first-frame flag, grid size | beginUpdate, endUpdate, submitUpdate, setAckFrameId, setCRectSize | drawn on by the update thread, acknowledged and configured by xrdp's thread |
| **surface: rectangle algorithms** (`ULSurface.cpp`) | none (pure functions) | isRectOverlaps, mergeRect, cleanupRects, createCopyRects | called by submitUpdate/drawBitmap |
| **update pipeline and lifecycle** (`XrdpUlalacaPrivate`) | dirty rectangles, update queue, update-thread flag, error flag | libMod*, attachToSession, addDirtyRect, commitUpdate, updateThreadLoop, destructor | everything above |
| **projector client** (`ProjectorClient`) | termination flag, its thread, its connection | start, stop, mainLoop, handleEvent, sendHello, ... | the connection; the pipeline by callbacks |
| **session broker client** (`SessionBrokerClient`) | a connection | requestSession | the connection; called once from libModConnect |
| **xrdp module interface** (`ulalaca.cpp`) | none | forwards C callbacks | |
| **event translation** (`KeycodeMap`, `XrdpEvent`) | none (a table) | isKeyEvent, isMouseEvent, rdpKeycodeToCGKeycode | used by `ProjectorClient::handleEvent`; its messages change what the projector holds pressed |
| **messages**, **stream helpers**, **exceptions**, **tests, build** | none, or unused | | |

### What is hard, and what correct means

*Connection.* A worker thread drives both directions over a non-blocking socket.
Messages are cut up and glued together by the kernel; a promise is set before
its task is popped; a caller may disconnect while the worker polls; the peer may
hang up with data still unread. Correct: reads, laid end to end, are the peer's
stream; each promise is set once; writes leave in order, none twice; a queued
read whose bytes came is answered, hang-up or not (a read that is queued after the
worker has left is not); the descriptor is closed
after the last use; `isGood()` says so when the peer has gone; `disconnect()`
returns although poll() has no time limit.

*Surface.* Frames are dropped while the client is two behind, acknowledgements
come on another thread and may cover several frames at once, and the first frame
must cover the whole screen. Correct: what a dropped frame would have shown
stays pending, at most two frames are outstanding, frames are dropped only then.

*Rectangles.* Merging works in 16-bit coordinates and merges a rectangle into
the first one it overlaps only; the grid has cut-off tiles at the edge. Correct:
no dirty pixel is lost, nothing is painted beyond what was dirty (up to the
bounding box), the grid's tiles are exactly those with a dirty pixel.

*Pipeline.* Three threads share the queue, the surface and the flags. Correct: a
change is on the screen or on its way there; the update thread never sleeps on
work; `beginUpdate()`, which throws when the surface is taken, is never called
then; the screen never goes back to an older image; the queue drains; a session
that is to end ends, and leaves no thread behind.

*Clients.* A projector thread reads while xrdp's thread writes, stops and takes
the connection down, possibly twice. Correct: header, body and bitmap are taken
off the stream in step with the projector; after `stop()` was called one more
message is handled at most, and none after it has returned; a session is
reported when, and only when, the broker named one; the connection is taken down
on every way out.

*Input.* The projector's keys and buttons are state that only our messages
change. Correct: it holds down what the user does, and nothing else.

`PROJECT.json`, "hazards", lists all of this line by line, with the properties
that cover each hazard or the reason why none does.

## The modules

| module | models | state and actions |
|---|---|---|
| `ByteChannel` | what a connection promises | reads asked and answered, pieces given and sent, no threads |
| `IPCConnection` | `IPCConnection.{hpp,cpp}` over `UnixSocket` | one variable per member and per local of `workerLoop` that outlives a step; `worker` is the place in the loop: `loop`, `poll`, `write`, `read`, `pop`, `hup`, `exit`. Caller, worker and peer interleave at every unlock |
| `ULSurface` | `ULSurface`, without rectangle arithmetic | one variable per member; a list of rectangles is the set of cells it covers, an image is its number; `submitUpdate` has one disjunct per outcome |
| `SurfaceRects` | the four rectangle functions | one turn of `cleanupRects`'s loop per step; `createCopyRects` is an operator |
| `XrdpUlalacaPrivate` | the pipeline and the life of the module | composes `ULSurface` (`Surface == INSTANCE ULSurface`) with the queue and the three threads; `xrdp`, `projector`, `updater` say where each thread is |
| `ProjectorClient` | `ProjectorClient`, and what the libMod* functions make of it | composes `IPCConnection` (`IPC == INSTANCE IPCConnection`) with xrdp's thread (`xrdp`, `caller`) and the projector thread (`main`, `header`); `mainLoop` has one action per read asked for and per read returned |
| `ProjectionTarget` | what a projector client promises whom it calls back | one thread started once, `stop()` that waits for it, at most one message after `stop()` was called, `ipcDisconnected()` at most once |
| `XrdpEvent` | `XrdpEvent`, `KeycodeMap`, and `handleEvent()`'s choice of message | the user's keys, buttons and pointer, and the projector's; one action per thing a user does, each a call of `libModEvent()` |
| `SessionBrokerClient` | `SessionBrokerClient::requestSession()` | composes `IPCConnection` with one calling thread; one action per call on the connection |
| `MC*` | | constants for TLC |
| `IPCConnectionProofs`, `IPCChannelProofs` | | theorems about the connection: its reading half and its task queue; closing, writing, the refinement of `ByteChannel`, and `CallerView`, which the clients cite |
| `SessionBrokerClientProofs`, `ProjectorClientProofs` | | theorems about the clients, over the connection's |
| `ULSurfaceProofs`, `SurfaceRectsProofs`, `XrdpUlalacaPrivateProofs`, `XrdpEventProofs` | | theorems about the module each is named after |

Four refinements are stated. `IPCConnection` implements `ByteChannel`
(`ImplementsChannel`). The pipeline implements `ULSurface` (`ImplementsSurface`:
its three threads respect the one-holder protocol and submit images in the order
of their numbers), so that what is said of the surface alone is said of it under
the real threads. `ProjectorClient` and the pipeline both implement
`ProjectionTarget` (`ImplementsTarget`): the client, over its connection, calls
back no more than that; the pipeline, in which the client is only its callbacks,
assumes no less. This is how the two are composed: their product, three threads
of the pipeline over two of the connection, is out of TLC's reach, and the
interface between them is not.

The two clients use the connection's own module, not an abstraction of it: every
interleaving of the worker with the callers is there, and the connection's
properties and the clients' are about the same steps. The bytes of the stream
carry no contents, so a header announces the kind of the message whose header
those bytes are, and *anything* if they are not the header of one; losing step
with the projector therefore shows.

Choices worth knowing:

* **The peer's bytes are numbers.** Byte *i* of the stream is *i*, an
  uninitialised byte is 0, so `ReadsInOrder` sees any loss, repetition, shift or
  junk. What we write is a piece number per call of `write()`.
* **Faults are a constant.** `Faults` says what the kernel and the peer may do
  (fill the send buffer, take part of a write, hang up, reset, ...), so each run
  asks its question under the faults it is about.
* **Lock granularity.** An action is what happens between two points at which
  another thread can be seen. `set_value()` and the `pop` of the task are two
  actions, as they are in the code; `commitUpdate()` is two (unlock, then
  `notify_one()`).
* **A cleaned rectangle list may cover more** than it was given, and never less:
  that is all `ULSurface` assumes of `cleanupRects()`, and `SurfaceRects` is
  where it is checked and proved.
* **History variables** (`image`, `latest`, `commits`, `notified`, `asked`,
  `answers`, ...) record what the properties speak about; no guard of the
  program's reads them except through the bounds.
* Operators whose comment begins with "Variant:" are plausible mistakes. Nothing
  uses them; `PROJECT.json`, "mutants", names the definition each one replaces
  and the property that then fails.

## The runs

| run | question | bounds |
|---|---|---|
| `ipc_safety` | order, once-only answers, close last, refinement of `ByteChannel`, under every fault but a reset | 5 bytes, 2 reads of 1 or 3, 2 writes, 2 disconnects, `MAX_READ_SIZE` 2 |
| `ipc_live` | under fairness, with a peer that may hang up or reset: nothing lost while it is there, queued reads served, writes flushed, the loss noticed, disconnect returns; and what survives a failing read(2) | 4 bytes, 2 reads, 2 writes, 1 disconnect, `SIZE_MAX` 255 |
| `ipc_reset_junk` | **violated**: reads after a failing read(2) | 4 bytes, 2 reads |
| `ipc_short_write` | **violated**: a short write loses data | 2 writes |
| `surface_safety` | no dirt lost, at most two frames outstanding, drops only then, first frame whole | 2 cells, 6 images |
| `surface_wrap` | **violated**: frame numbers overflow | `IntMax` 4 |
| `rects` | the rectangle algorithms against pixels | lists of 3 out of 48 rectangles in and around a 5 x 4 surface, grid of 2, 16-bit range shrunk to 8 |
| `pipeline` | no change lost, no lost wakeup, `beginUpdate()` never refused, order, refinement of `ULSurface` and `ProjectionTarget`, the queue drains, the session ends, and with it every thread | 1 cell, 6 commits |
| `pipeline_grid` | **violated**: an image can precede the grid's configuration | 1 cell, 3 commits |
| `client` | messages handled whole and in order, refinement of `ProjectionTarget`, `stop()` hangs only when the projector owes bytes, or closed and the worker left at POLLHUP between two reads | 2 messages, header, body and bitmap of 1 byte, 1 event |
| `broker` | a session is reported when and only when the broker named one, the connection is taken down on every way out, and `requestSession()` hangs only when bytes of the answer are missing, or when the broker answered and closed and the worker left at POLLHUP before the next read was queued | header of 2 bytes, body of 3, `MAX_READ_SIZE` 2 |
| `events` | no key or button is stuck, and input arrives | 5 keys, 3 buttons, 2 positions |

Why the bounds are enough. *Reads* of 1 and 3 with `MAX_READ_SIZE` 2 make a read
take one, two or more read(2) calls, stop at, before or in the middle of the
data; the second read starts at any offset the first leaves. Two *writes* are a
header and a body. With 2 *cells* a transaction can miss a cell and a cell can
be pending from an older transaction; the pipeline has one, with which a
transaction is of that cell or of none: its safety properties speak of one cell
at a time, and all of them are proved for every set of cells. Six *images* let the window fill twice
over (the first is not acknowledged, two may be outstanding, a dropped one
follows, and there is an image left that paints what was dropped); in the
pipeline too, where five commits are the fewest that do. Three *rectangles* are the fewest with which a merged
result overlaps another. Two *messages* to the projector client are a message and
one behind it, which is what getting out of step, and stopping in between, need;
a third only repeats this. The five *keys* are two that share a scan code, one in
the middle of the table, its last entry and one behind it; they go down, repeat
and come up without bound. A byte each is enough there because the connection's own
runs cut reads up. The clients run with the faults they can see, a failed
`connect()`, a full send buffer (`broker`) and a peer that hangs up; what read(2) and
write(2) may do besides is asked of the connection alone. `CHECK_DEADLOCK FALSE` is set because the systems do
stop: connections are closed, and every bound ends the run.

## Fairness

* `IPCConnection!Fairness`: the scheduler runs the worker whenever it can take a
  step (it is a thread that polls, and blocks on nothing else); a reader whose
  promise is set returns; a join whose thread has ended returns; a peer that is
  there reads what it is sent. No caller has to call, the peer has to send
  nothing and may stay idle, and it may close at any time.
* `XrdpUlalacaPrivate!FairSpec`: the update thread takes its steps, the one-second
  limit of `wait_for()` among them. xrdp's thread goes on where nothing but the
  code holds it (`XrdpGoesOn`): through `attachToSession()`, out of a join whose
  thread has ended, and, once `libModCheckWaitObjs()` has returned 1, or the
  connect has failed, or mod_end was called, to mod_exit. xrdp asks after each
  turn of its main loop, which is what this stands on. The projector, the user and
  the client need do nothing.
* `ProjectorClient!FairSpec`: the worker, the projector thread, and xrdp's thread
  once it is in `stop()`; a projector that is there reads what it is sent.
* `SessionBrokerClient!FairSpec`: the worker and the calling thread; a broker that
  is there reads what it is sent, and need not answer.

The code gives nothing else: a read outstanding when the peer hangs up before
its bytes came is never answered, and no timer repaints what a dropped frame
left pending. The properties do not claim it. `StopHangsOnlyStarved` and
`HangsOnlyStarved` say what follows: `stop()`, hence mod_end and, on a lost
connection, the event handler, and `requestSession()`, hence `libModConnect()`,
return unless the read they wait on is `Unserved`, and in that case they do hang,
for nothing wakes a reader. A read is unserved for one of two reasons:

* bytes of it are missing (`~AllArrived`): the projector or the broker is quiet, or
  has gone before it sent them;
* every byte arrived, but the peer closed after its last one and the worker saw
  POLLHUP between two reads of the caller, found `_readTasks` empty and left
  (`LeftUnasked`). A broker that answers in full and closes at once can bring this
  about: the worker pops the header's task and leaves
  (`IPCConnection.cpp:164-171`) before `requestSession()` has queued its read of
  the body (`SessionBrokerClient.cpp:53, 66`).

A read the worker has begun is never in the second case, which the mutant that
leaves at POLLHUP with reads queued shows for `HangsOnlyStarved`; `QueuedReadServed`
says the same of every read that was queued while the worker still ran.

## What is proved

By TLAPS, for every value of the constants allowed by the `ASSUME`s
(`IPCAssumption`, `SurfaceAssumption`, `RectsAssumption`, `PipelineAssumption`,
`ClientAssumption`, `BrokerAssumption`, `InputAssumption`), every safety property
and every refinement that a passing run checks:

| module | theorem | property | further assumption |
|---|---|---|---|
| `IPCConnectionProofs` | `TypeCorrectness` | `TypeOK` | |
| | `TasksCorrect` | (`TaskInv`, no run's) | |
| | `PromisesAreSetOnce` | `PromisesSetOnce` | |
| | `ReadStaysWithinBuffer` | `WithinBuffer` | |
| | `NoRequestIsLost` | `RequestNotLost` | |
| | `ReadsAreTheStream` | `ReadsInOrder` | `"reset" \notin Faults` |
| `IPCChannelProofs` | `ClosesAreLast` | `ClosedLast` | |
| | `PiecesLeaveInOrder` | `WireInOrder` | |
| | `NothingIsLost` | `NothingLost` | no `"short"`, no `"again"` in `Faults` |
| | `ConnectionImplementsChannel` | `ImplementsChannel` | `"reset" \notin Faults` |
| | `CallersSeeTheStream` | (`CallerView`, no run's) | `"reset" \notin Faults` |
| `ULSurfaceProofs` | `TypesAreKept` | `TypeOK` | |
| | `DirtIsKept` | `NoDirtLost` | `NoOverflow`: `MaxImages < IntMax` |
| | `WindowIsBounded` | `WindowBound` | `NoOverflow` |
| | `NoNeedlessDrop` | `DropsOnlyWhenBehind` | `NoOverflow` |
| | `WholeScreenComesFirst` | `WholeScreenFirst` | `NoOverflow` |
| `SurfaceRectsProofs` | `RectsStayGood` | `TypeOK` | |
| | `CleanupLosesNothing` | `CleanupCovers` | |
| | `CleanupReachesNoFurther` | `CleanupStaysInside` | |
| | `GridIsTheDirtyTiles` | `CopyRectsAreTheDirtyTiles` | no dirty rectangle is empty |
| | `EveryDirtyPixelIsCopied` | (`DirtyPixelsAreCopied`, no run's) | |
| `XrdpUlalacaPrivateProofs` | `TypesAreKept` | `TypeOK` | |
| | `BeginSucceeds` | `NeverRefused` | |
| | `WakeupsAreKept` | `NoLostWakeup` | |
| | `PipelineImplementsSurface` | `ImplementsSurface` | |
| | `PipelineKeepsUp` | (the surface's flow control, under the threads) | `MaxCommits < IntMax` |
| | `ScreenMovesForward` | `NeverBackInTime` | |
| | `ChangesAreKept` | `NoChangeLost` | |
| | `NoThreadSurvives` | `NobodyLeftBehind` | |
| | `PipelineImplementsTarget` | `ImplementsTarget` | |
| `ProjectorClientProofs` | `ClientImplementsTarget` | `ImplementsTarget` | |
| | `MessagesAreHandledInOrder` | `HandledInOrder` | `"reset" \notin Faults` |
| `SessionBrokerClientProofs` | `ConnectionIsClosed` | `ConnectionClosed` | |
| | `SessionIsTheBrokers` | `SessionOnlyIfResolved` | `"reset" \notin Faults` |
| `XrdpEventProofs` | `NobodyStuck` | `NothingStuck` | |
| | `EverythingArrives` | `InputArrives` | |

A blank in the last column means every fault and every value. The further
assumptions are where the code stops doing what is claimed, not a convenience of
the proofs. After a failing read(2) the buffer is handed out as it is
(`ipc_reset_junk`), so whatever speaks of the bytes read, in the connection or in
a client, needs `"reset"` not to be there; a short or failing write(2) loses its
piece (`ipc_short_write`); frame numbers that wrap break the flow control
(`surface_wrap`). An empty dirty rectangle marks the tile its corner lies in, in
which no pixel need be dirty: `createCopyRects()` may then copy a tile too many,
and `EveryDirtyPixelIsCopied` says that it never copies one too few. The clients
assume of their constants what the connection assumes of its own (a positive
`MAX_READ_SIZE`, sizes below `SIZE_MAX`, faults of the known kinds).

The arguments:

* **`TaskInv`** (`IPCConnectionProofs`) is what holds of the task queue whatever
  fails: it has the questions not answered yet, in order, and between `set_value()`
  and `pop()` one that is answered at its head; `readPos` is short of the size
  asked for, unless that task is about to be popped. A read(2) that fails leaves
  `readPos` one lower, or, at 0, at `SIZE_MAX`. The latter is above every size and
  so answers the task at once, with junk, but once, and before anything is read
  to that place.
* **`ReadsAreTheStream`.** `ReadsInOrder` says nothing of a read in progress.
  `ReadInv` adds to `TaskInv` that the buffer's first `readPos` bytes are the next
  of the stream and that `consumed` is the last answered byte plus `readPos`.
* **`CloseInv`, `PieceInv`, `WholeInv`** (`IPCChannelProofs`): `close(2)` follows
  the join, and no second worker is started; the pieces on the wire, then those in
  the queue, rise strictly and are among those written; where none is skipped or
  cut, they are all of 1 to `written`.
* **`ConnectionImplementsChannel`** combines these and adds that an idle reader has
  had all its answers. A read(2) that completes a task is the channel's answer,
  a write(2) its send, a failing one its skip; the rest stutters.
* **`CallerView`** restates the result in the terms of a caller: the *i*-th answer
  is as long as asked, starts where the one before ended, and no byte of it had not
  arrived. The clients need nothing else.
* **`SurfaceInv`** (`ULSurfaceProofs`): the outstanding frame numbers are the
  consecutive ones from `ackFrameId + 1` up to `frameId - 1`, apart from the
  first frame, which is numbered but never acknowledged. From that, the
  difference the code compares with `MAX_FRAME_DELAY` is the number of frames
  outstanding plus one, and both flow control properties follow. The types hold
  without it, and when the counter wraps.
* **`CleanupLosesNothing`**: rectangles stay in range, the merge of two covers
  both, hence one turn of the loop loses no pixel; `CoverInv` adds the types.
  For `CleanupReachesNoFurther` each edge of a merged rectangle is an edge of one
  of the two. `GridIsTheDirtyTiles` is arithmetic: the tiles from the one with the
  rectangle's first column to the one with its last, cut off where the surface
  ends, are those that hold a pixel of it. (Here
  multiplication by an unknown tile size meets the solver's limits, so order and
  quotients are lemmas: `TileOrder`, `Quotient`.)
* **`HolderInv`** (`XrdpUlalacaPrivateProofs`): who holds the surface can be told
  from where the threads are, and there is no update thread before
  `attachToSession()` makes it.
* **`OrderInv`**: the commits so far are the image last submitted, the one in the
  updater's hands and those in the queue, numbered consecutively. With
  `HolderInv` it maps each step of a thread to a step of `ULSurface` or a
  stutter. The theorems of `ULSurfaceProofs` are then cited of the pipeline
  (`PipelineKeepsUp`, and the surface's part of `TypesAreKept`).
* **`TrackInv`, `ShownInv`** for `NoChangeLost`: since images are consecutive, the
  number of the commit that is to bring a cell's last change says where that
  change is now: with the dirty rectangles, at a known place in the queue, in
  the updater's hands, or submitted; and what was submitted is on the screen or
  pending in the surface.
* **`LifeInv`**: where xrdp's thread is tells which threads there may be, also on
  the ways through a refused or failed connect; that the connection is reported
  lost only by a client that is stopped in the same step. It gives
  `NoThreadSurvives` and, since a callback is possible only in a thread that
  exists, `PipelineImplementsTarget`.
* **`StopInv`** (`ProjectorClientProofs`): nobody stops a client that was not
  started, and a message was handled after `stop()` only if the projector thread
  has come back to the condition of its loop, where it finds the flag. The
  connection is left arbitrary: its steps change none of the target's variables.
* **`MainInv`** for `HandledInOrder`: where `mainLoop()` is tells how far into the
  message behind those handled the reads asked for reach; with `CallerView` that
  makes the header just read the header of that message, which is what the kind to
  be handled, and the length still to be read, hang on. A header can be that of one
  message only because messages are not empty.
* **`StreamInv`**: `StreamLength`, the ends of the messages sent, is a recursive
  function, and induction over its argument is out of the prover's reach. That
  exactly one function satisfies its equation is instead an invariant of the
  behaviour: true of the empty stream, and true of a stream with one message more
  if it was true without (`LengthExtends`, `LengthIsUnique`). The function then has
  the values its equation gives it, and a new message leaves the earlier ones
  alone (`StreamGrows`).
* **`PlaceInv`, `SessionInv`** (`SessionBrokerClientProofs`): the same for
  `requestSession()`, whose place tells the state of its connection and the one or
  two reads it has asked for.
* **`StuckInv`** (`XrdpEventProofs`): the projector holds no "key" that stands for
  no key, and never the middle button. Without the first part, releasing a key
  without an entry would send nothing and yet be asked to release something.
  The lemmas before it say what the messages of each event do, from the length of
  the table and its lookup; `InputArrives` is inductive with them.

The clients and the pipeline do not prove again what is proved of the module they
are built on. Each instantiates that module's theorems (`Proved == INSTANCE ...`,
with the substitution of its own model), shows that its behaviours are behaviours
of the instance (`ConnectionIsProved`, `SurfaceIsProved`) and that its constants
satisfy the instance's assumption, and cites `Proved!...` from there.

### Only model-checked

Liveness (`QueuedReadServed`, `WritesFlushed`, `DisconnectReturns`,
`HangupNoticed`, `QueueDrains`, `SessionEnds`, `StopHangsOnlyStarved`,
`HangsOnlyStarved`): fairness and ENABLED are beyond the prover. TLC alone also
stands for the assumptions being satisfiable together with the interesting
states: every run instantiates them.

## Findings

* A failing read(2) is stored in a `size_t` and never noticed
  (`IPCConnection.cpp:136-138`); reads then return bytes nobody sent.
* A short or failing write(2) loses the rest of the piece
  (`IPCConnection.cpp:106-119`).
* The number sent with a frame is reduced modulo `INT32_MAX`, the counter it is
  compared with is not and overflows; from then on every frame is dropped
  (`ULSurface.cpp:307, 345`).
* The projector and the update thread run before `attachToSession()` has set the
  surface's grid (`XrdpUlalacaPrivate.cpp:67-79`): with RemoteFX, an image may
  go to the encoder without one.

Each is a run that TLC finds violated, quoted against the line of the repository
that says otherwise in `PROJECT.json`, "findings".

One more defect contradicts no line of the repository, and has no run of its own:
a broker, or a projector, that sends all it has to say and closes may have its last
bytes left unread, and the caller that asks for them waits for good
(`IPCConnection.cpp:164-171` before `SessionBrokerClient.cpp:53, 66` or
`ProjectorClient.cpp:214`). It is the second excuse of `HangsOnlyStarved` and
`StopHangsOnlyStarved`, above: with `LeftUnasked` struck from
`IPCConnection!Unserved`, TLC finds `HangsOnlyStarved` violated in run `broker` by
a behaviour in which all bytes of the answer have arrived, the worker is gone and
`requestSession()` is about to ask for the body.

## What is not modelled

The module interface, the messages' layout, the exception class and the stream
helpers keep no state or are not used. Logging, parameters of `SetParam`, the
bitmap's bytes and shared memory are left out. xrdp's own drawing
(`server_paint_rects` and friends) and the client are the environment: they show
what is painted and acknowledge in order. Rectangles with negative corners, and those
that reach beyond the range of a short, are left out of `SurfaceRects` (and listed as
hazards). Messages whose header says a length
of 0 are left out (`read()` asserts that it is not).

The projector's side of `XrdpEvent` is what the names of the messages say; that
they reach it in order and complete is asked of `IPCConnection`, and messages are
applied there as soon as they are written. The amount the wheel turns is in the
model and in no property, and so is the middle button, which becomes nothing.

The uninitialised `_isUpdateThreadRunning` is a choice of `Init`. What could go
wrong with it, a wait object asked for before `attachToSession()` has set the flag,
is not modelled: xrdp asks for none before mod_connect has succeeded.

The number of open descriptors is not tracked: that a second `stop()` closes one
twice, and that a failed `connect()` leaves one open, are read off the code only.

## Plan

Done, in this order: the connection and what it promises; the surface and its
rectangles; the pipeline and the module's life; the two clients on the
connection; what the client promises the pipeline, on both sides; the ways in
which a session ends; input; the theorems above. Next:

1. Proofs: the connection's `CallerView` under a reset, for the answers before the
   failing read(2), and with it what the clients handled before it; the surface's
   flow control after `NoOverflow` has been given up, which is a different claim.
2. Descriptors: which are open, who closes which number, over both clients.
   Messages of length 0.
3. The wait objects and session resizing, when the code does more with them than
   it does now.
