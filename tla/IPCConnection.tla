--------------------------- MODULE IPCConnection ---------------------------
(***************************************************************************)
(* src/IPCConnection.{hpp,cpp}: one connection to the projector or to the  *)
(* session broker.  A caller's read(n) puts a task with a promise on       *)
(* _readTasks and blocks on the future; write() puts a copy of the data on *)
(* _writeTasks and returns; a worker thread moves bytes between the two    *)
(* queues and a non-blocking socket, one poll() per turn of its loop.      *)
(*                                                                         *)
(* Abstracted: the bytes the peer sends are the numbers 1, 2, 3, ... in    *)
(* stream order, so that a buffer shows which byte it holds; a byte nobody *)
(* wrote (new uint8_t[n] does not initialise) is 0; what is written is a   *)
(* piece number, one per call of write().  The socket and the peer are     *)
(* the environment; `Faults` says what they may do.                        *)
(*                                                                         *)
(* An operator whose comment begins with "Variant:" is not part of the     *)
(* specification: it is the plausible mistake that one of the properties   *)
(* at the end is there to catch (PROJECT.json, "mutants").                 *)
(***************************************************************************)
EXTENDS Integers, Sequences

CONSTANTS Sizes,          \* sizes of the reads: sizeof(ULIPCHeader), a body, ...
          MAX_READ_SIZE,  \* the most one read(2) asks for
          SIZE_MAX,       \* largest size_t: (size_t) -1
          Faults,         \* what may go wrong, a subset of FaultKinds
          MaxArrived,     \* bound: bytes the peer sends
          MaxReads,       \* bound: calls of read()
          MaxWrites,      \* bound: calls of write()
          MaxCloses       \* bound: calls of disconnect()

FaultKinds == {"connect",  \* socket->connect() or fcntl() throws
               "poll",     \* poll() fails, the exception leaves the thread
               "full",     \* the socket's send buffer fills up
               "again",    \* write(2) returns -1 although POLLOUT was set
               "short",    \* write(2) takes only a part of a piece
               "hangup",   \* the peer closes, having read everything
               "reset"}    \* the peer closes with unread bytes: ECONNRESET

ASSUME IPCAssumption ==
    /\ Sizes \subseteq Nat \ {0}
    /\ MAX_READ_SIZE \in Nat \ {0}
    /\ SIZE_MAX \in Nat /\ \A n \in Sizes : n < SIZE_MAX
    /\ Faults \subseteq FaultKinds
    /\ MaxArrived \in Nat /\ MaxReads \in Nat
    /\ MaxWrites \in Nat /\ MaxCloses \in Nat

VARIABLES
    \* shared between the callers and the worker
    readTasks,           \* _readTasks: queue of [size, promise]
    writeTasks,          \* _writeTasks: queue of pieces
    isGood,              \* _isGood
    isWorkerTerminated,  \* _isWorkerTerminated
    \* the worker thread
    worker,              \* where it is in workerLoop()
    revents,             \* what the last poll() returned
    readPos,
    readBuffer,          \* <<>> stands for nullptr
    \* the callers
    owner,               \* connect()/disconnect(), called by one thread
    reader,              \* the thread that calls read()
    asked,               \* the sizes of the reads so far; a promise is an index
    answers,             \* the set_value() calls so far: [promise, data]
    written,             \* the number of write() calls so far
    closes,              \* the number of close(2) calls on the descriptor
    \* the socket and the peer
    arrived,             \* bytes the peer has sent
    consumed,            \* bytes read(2) has returned
    peer,                \* "open", "closed" or "reset"
    writable,            \* there is room in the send buffer
    wire                 \* what write(2) took: [piece, whole]

taskVars   == <<readTasks, writeTasks>>
flagVars   == <<isGood, isWorkerTerminated>>
bufferVars == <<readPos, readBuffer>>
callerVars == <<owner, reader, asked, written, closes>>
socketVars == <<arrived, consumed, peer, writable, wire>>
vars == <<taskVars, flagVars, worker, revents, bufferVars, callerVars,
          answers, socketVars>>

Bytes == 0..MaxArrived
Task   == [size : Sizes, promise : 1..MaxReads]
Answer == [promise : 1..MaxReads, data : Seq(Bytes)]
PollBits == {"POLLIN", "POLLOUT", "POLLHUP", "POLLERR"}
WorkerAt == {"none", "start", "loop", "poll", "write", "read", "pop", "hup",
             "exit", "done", "aborted"}

MinimumSwapped(a, b) == IF a <= b THEN b ELSE a
Minimum(a, b) == IF a <= b THEN a ELSE b

\* n bytes of an uninitialised array.
Junk(n) == [j \in 1..n |-> 0]

\* The n bytes of the peer's stream that follow its first `offset` bytes.
Slice(offset, n) == [j \in 1..n |-> offset + j]
----------------------------------------------------------------------------
Init ==
    /\ readTasks = <<>> /\ writeTasks = <<>>
    /\ isGood = TRUE /\ isWorkerTerminated = FALSE
    /\ worker = "none" /\ revents = {}
    /\ readPos = 0 /\ readBuffer = <<>>
    /\ owner = "new" /\ reader = "idle"
    /\ asked = <<>> /\ answers = <<>> /\ written = 0 /\ closes = 0
    /\ arrived = 0 /\ consumed = 0 /\ peer = "open" /\ writable = TRUE
    /\ wire = <<>>
----------------------------------------------------------------------------
(* The callers. *)

Connect ==
    /\ owner = "new"
    /\ owner' = "connected"
    /\ worker' = "start"
    /\ UNCHANGED <<taskVars, flagVars, revents, bufferVars, reader, asked,
                   written, closes, answers, socketVars>>

\* The exception reaches the caller before the thread is made.
ConnectFails ==
    /\ "connect" \in Faults
    /\ owner = "new"
    /\ owner' = "failed"
    /\ UNCHANGED <<taskVars, flagVars, worker, revents, bufferVars, reader,
                   asked, written, closes, answers, socketVars>>

ReadTask(n) == [size |-> n, promise |-> Len(asked) + 1]

\* read<T>(n) up to the point where it blocks on the future.
Read(n) ==
    /\ owner = "connected" /\ reader = "idle"
    /\ Len(asked) < MaxReads
    /\ asked' = Append(asked, n)
    /\ readTasks' = Append(readTasks, ReadTask(n))
    /\ reader' = "waiting"
    /\ UNCHANGED <<writeTasks, flagVars, worker, revents, bufferVars, owner,
                   written, closes, answers, socketVars>>

\* Some set_value() has fulfilled the promise of the current read.
Answered == \E i \in 1..Len(answers) : answers[i].promise = Len(asked)

Return ==
    /\ reader = "waiting" /\ Answered
    /\ reader' = "idle"
    /\ UNCHANGED <<taskVars, flagVars, worker, revents, bufferVars, owner,
                   asked, written, closes, answers, socketVars>>

\* write() never looks at the state of the connection.
Write ==
    /\ written < MaxWrites
    /\ written' = written + 1
    /\ writeTasks' = Append(writeTasks, written + 1)
    /\ UNCHANGED <<readTasks, flagVars, worker, revents, bufferVars, owner,
                   reader, asked, closes, answers, socketVars>>

\* ProjectorClient::stop() joins the thread that reads before it comes here,
\* and SessionBrokerClient reads on the thread that disconnects.
DisconnectBegin ==
    /\ owner \in {"connected", "failed", "closed"} /\ reader = "idle"
    /\ closes < MaxCloses
    /\ isWorkerTerminated' = TRUE
    /\ owner' = "joining"
    /\ UNCHANGED <<taskVars, isGood, worker, revents, bufferVars, reader,
                   asked, written, closes, answers, socketVars>>

\* Variant: close without waiting for the worker.
DisconnectEndUnjoined ==
    /\ owner = "joining"
    /\ owner' = "closed"
    /\ closes' = closes + 1
    /\ UNCHANGED <<taskVars, flagVars, worker, revents, bufferVars, reader,
                   asked, written, answers, socketVars>>

\* The join() has returned, the thread was joined by an earlier call, or
\* connect() never got as far as making one.
DisconnectEnd ==
    /\ owner = "joining" /\ worker \in {"none", "done"}
    /\ owner' = "closed"
    /\ closes' = closes + 1
    /\ UNCHANGED <<taskVars, flagVars, worker, revents, bufferVars, reader,
                   asked, written, answers, socketVars>>
----------------------------------------------------------------------------
(* The worker thread: workerLoop(). *)

WorkerStart ==
    /\ worker = "start"
    /\ isGood' = TRUE
    /\ worker' = "loop"
    /\ UNCHANGED <<taskVars, isWorkerTerminated, revents, bufferVars,
                   callerVars, answers, socketVars>>

Loop ==
    /\ worker = "loop"
    /\ worker' = IF isWorkerTerminated THEN "exit" ELSE "poll"
    /\ UNCHANGED <<taskVars, flagVars, revents, bufferVars, callerVars,
                   answers, socketVars>>

\* Variant: poll(POLLIN, -1).
ReadyToReadOnly(bit) ==
    CASE bit = "POLLIN"  -> arrived > consumed \/ peer # "open"
      [] bit = "POLLOUT" -> FALSE
      [] bit = "POLLHUP" -> peer # "open"
      [] bit = "POLLERR" -> peer = "reset"

\* What poll(2) reports on a stream socket.
Ready(bit) ==
    CASE bit = "POLLIN"  -> arrived > consumed \/ peer # "open"
      [] bit = "POLLOUT" -> writable \/ peer # "open"
      [] bit = "POLLHUP" -> peer # "open"
      [] bit = "POLLERR" -> peer = "reset"

\* No timeout: the thread sleeps until some bit is set.
Poll ==
    /\ worker = "poll"
    /\ \E bit \in PollBits : Ready(bit)
    /\ revents' = {bit \in PollBits : Ready(bit)}
    /\ worker' = "write"
    /\ UNCHANGED <<taskVars, flagVars, bufferVars, callerVars, answers,
                   socketVars>>

\* SystemCallException leaves the thread function: std::terminate().
PollFails ==
    /\ "poll" \in Faults
    /\ worker = "poll"
    /\ worker' = "aborted"
    /\ UNCHANGED <<taskVars, flagVars, revents, bufferVars, callerVars,
                   answers, socketVars>>

CanWrite == "POLLOUT" \in revents /\ writeTasks # <<>>
CanRead  == "POLLIN" \in revents /\ readTasks # <<>>

\* Variants: put back at the end; dropped with all the rest; kept on failure.
Rotated    == Append(Tail(writeTasks), Head(writeTasks))
AllDropped == <<>>
KeptToRetry == IF peer = "open" THEN Tail(writeTasks) ELSE writeTasks

\* _writeTasks after front() was moved out and pop() called.
Popped == Tail(writeTasks)

\* write(2) takes the piece, or with "short" only a part of it; the code
\* looks at neither the size nor the piece again.  With "full" the buffer
\* may have no room left afterwards.
WriteOk ==
    /\ worker = "write" /\ CanWrite /\ peer = "open"
    /\ \E whole \in {TRUE} \cup (IF "short" \in Faults THEN {FALSE} ELSE {}) :
          wire' = Append(wire, [piece |-> Head(writeTasks), whole |-> whole])
    /\ writable' \in {TRUE} \cup (IF "full" \in Faults THEN {FALSE} ELSE {})
    /\ writeTasks' = Popped
    /\ worker' = "read"
    /\ UNCHANGED <<readTasks, flagVars, revents, bufferVars, callerVars,
                   answers, arrived, consumed, peer>>

\* EAGAIN or EPIPE: the piece has already been popped, and the rest of this
\* turn of the loop is skipped.
WriteFails ==
    /\ worker = "write" /\ CanWrite
    /\ peer # "open" \/ "again" \in Faults
    /\ writeTasks' = Popped
    /\ worker' = "loop"
    /\ UNCHANGED <<readTasks, flagVars, revents, bufferVars, callerVars,
                   answers, socketVars>>

WriteSkip ==
    /\ worker = "write" /\ ~CanWrite
    /\ worker' = "read"
    /\ UNCHANGED <<taskVars, flagVars, revents, bufferVars, callerVars,
                   answers, socketVars>>

----------------------------------------------------------------------------
(* The read phase of a turn of the loop. *)

\* The buffer and the position this read(2) works with.
Buffer == IF readBuffer = <<>> THEN Junk(Head(readTasks).size) ELSE readBuffer
Pos    == IF readBuffer = <<>> THEN 0 ELSE readPos

\* Variant: asks for the whole block again on every read.
ReadForWhole == Minimum(MAX_READ_SIZE, Head(readTasks).size)

ReadForBytes == Minimum(MAX_READ_SIZE, Head(readTasks).size - Pos)

\* Variant: read(2) into the beginning of the buffer.
FilledFromStart(b, pos, got) ==
    [j \in 1..Len(b) |-> IF j <= got THEN consumed + j ELSE b[j]]

\* The buffer b after `got` bytes were stored from position pos on.
Filled(b, pos, got) ==
    [j \in 1..Len(b) |-> IF pos < j /\ j <= pos + got
                         THEN consumed + (j - pos) ELSE b[j]]

\* Variant: off by one.
AfterReadEarly(pos) == IF pos + 1 >= Head(readTasks).size THEN "pop" ELSE "hup"

\* `readPos >= contentLength` after readPos has become pos.
AfterRead(pos) == IF pos >= Head(readTasks).size THEN "pop" ELSE "hup"

\* readPos, readBuffer, the promise and the next place after a read(2) that
\* left the buffer b and the position pos.
Advance(b, pos) ==
    /\ worker' = AfterRead(pos)
    /\ readPos' = pos
    /\ readBuffer' = b
    /\ answers' = IF AfterRead(pos) = "pop"
                  THEN Append(answers, [promise |-> Head(readTasks).promise,
                                        data |-> b])
                  ELSE answers

ReadSome ==
    /\ worker = "read" /\ CanRead
    /\ \E got \in 1..Minimum(ReadForBytes, arrived - consumed) :
          /\ consumed' = consumed + got
          /\ Advance(Filled(Buffer, Pos, got), Pos + got)
    /\ UNCHANGED <<taskVars, flagVars, revents, callerVars, arrived, peer,
                   writable, wire>>

\* End of file.  `_isGood && retval <= 0` leaves the loop with the task still
\* queued; once POLLHUP has cleared _isGood the turn goes on with 0 bytes.
ReadEof ==
    /\ worker = "read" /\ CanRead
    /\ peer = "closed" /\ arrived = consumed
    /\ \/ /\ isGood
          /\ worker' = "exit"
          /\ readPos' = Pos /\ readBuffer' = Buffer
          /\ UNCHANGED answers
       \/ /\ ~isGood
          /\ Advance(Buffer, Pos)
    /\ UNCHANGED <<taskVars, flagVars, revents, callerVars, socketVars>>

\* read(2) returns -1 (ECONNRESET, reported once).  retval is a size_t, so
\* it is SIZE_MAX, no check stops it, and readPos grows by that modulo
\* SIZE_MAX + 1.
ReadError ==
    /\ worker = "read" /\ CanRead
    /\ peer = "reset" /\ arrived = consumed
    /\ peer' = "closed"
    /\ Advance(Buffer, (Pos + SIZE_MAX) % (SIZE_MAX + 1))
    /\ UNCHANGED <<taskVars, flagVars, revents, callerVars, arrived, consumed,
                   writable, wire>>

ReadSkip ==
    /\ worker = "read" /\ ~CanRead
    /\ worker' = "hup"
    /\ UNCHANGED <<taskVars, flagVars, revents, bufferVars, callerVars,
                   answers, socketVars>>

\* Variants: the queue is cleared; the pop is forgotten.
Cleared  == <<>>
Unpopped == readTasks

\* _readTasks after pop().
Remaining == Tail(readTasks)

\* The promise is set; the task leaves the queue under its own lock, so the
\* reader may have returned and asked again in between.
Pop ==
    /\ worker = "pop"
    /\ readTasks' = Remaining
    /\ readBuffer' = <<>> /\ readPos' = 0
    /\ worker' = "hup"
    /\ UNCHANGED <<writeTasks, flagVars, revents, callerVars, answers,
                   socketVars>>

\* Variant: leave although somebody reads.
EndsAtHangup == "POLLHUP" \in revents \/ "POLLERR" \in revents

\* The two tests at the end of a turn.
Ends == \/ "POLLHUP" \in revents /\ readTasks = <<>>
        \/ "POLLERR" \in revents

Hup ==
    /\ worker = "hup"
    /\ isGood' = (isGood /\ "POLLHUP" \notin revents)
    /\ worker' = IF Ends THEN "exit" ELSE "loop"
    /\ UNCHANGED <<taskVars, isWorkerTerminated, revents, bufferVars,
                   callerVars, answers, socketVars>>

Exit ==
    /\ worker = "exit"
    /\ isGood' = FALSE
    /\ worker' = "done"
    /\ UNCHANGED <<taskVars, isWorkerTerminated, revents, bufferVars,
                   callerVars, answers, socketVars>>
----------------------------------------------------------------------------
(* The peer. *)

PeerSend ==
    /\ peer = "open" /\ arrived < MaxArrived
    /\ arrived' = arrived + 1
    /\ UNCHANGED <<taskVars, flagVars, worker, revents, bufferVars,
                   callerVars, answers, consumed, peer, writable, wire>>

PeerCloses ==
    /\ peer = "open"
    /\ \/ "hangup" \in Faults /\ peer' = "closed"
       \/ "reset" \in Faults /\ peer' = "reset"
    /\ UNCHANGED <<taskVars, flagVars, worker, revents, bufferVars,
                   callerVars, answers, arrived, consumed, writable, wire>>

PeerDrains ==
    /\ peer = "open" /\ ~writable
    /\ writable' = TRUE
    /\ UNCHANGED <<taskVars, flagVars, worker, revents, bufferVars,
                   callerVars, answers, arrived, consumed, peer, wire>>
----------------------------------------------------------------------------
Caller == \/ Connect \/ ConnectFails
          \/ \E n \in Sizes : Read(n)
          \/ Return \/ Write
          \/ DisconnectBegin \/ DisconnectEnd

Worker == \/ WorkerStart \/ Loop \/ Poll \/ PollFails
          \/ WriteOk \/ WriteFails \/ WriteSkip
          \/ ReadSome \/ ReadEof \/ ReadError \/ ReadSkip \/ Pop
          \/ Hup \/ Exit

Peer == PeerSend \/ PeerCloses \/ PeerDrains

\* std::terminate() in the worker takes the whole process with it.
Next == worker # "aborted" /\ (Caller \/ Worker \/ Peer)

Spec == Init /\ [][Next]_vars

\* The scheduler runs the worker and a reader whose future is ready, a join()
\* whose thread has ended returns, and a peer that is there reads what it is
\* sent.  Nobody has to call, send or close.
Fairness ==
    /\ WF_vars(Worker)
    /\ WF_vars(Return)
    /\ WF_vars(DisconnectEnd)
    /\ WF_vars(PeerDrains)

FairSpec == Spec /\ Fairness
----------------------------------------------------------------------------
(* Properties. *)

\* Every variable has its type.
TypeOK ==
    /\ readTasks \in Seq(Task) /\ writeTasks \in Seq(1..MaxWrites)
    /\ isGood \in BOOLEAN /\ isWorkerTerminated \in BOOLEAN
    /\ worker \in WorkerAt /\ revents \subseteq PollBits
    /\ readPos \in Nat /\ readBuffer \in Seq(Bytes)
    /\ owner \in {"new", "connected", "failed", "joining", "closed"}
    /\ reader \in {"idle", "waiting"}
    /\ asked \in Seq(Sizes) /\ answers \in Seq(Answer)
    /\ written \in 0..MaxWrites /\ closes \in 0..MaxCloses
    /\ arrived \in Bytes /\ consumed \in Bytes
    /\ peer \in {"open", "closed", "reset"} /\ writable \in BOOLEAN
    /\ wire \in Seq([piece : 1..MaxWrites, whole : BOOLEAN])

\* The number of the last byte handed out by the first i answers.
LastByte(i) == IF i = 0 THEN 0 ELSE answers[i].data[Len(answers[i].data)]

\* The i-th set_value() call fulfils the i-th promise, no promise is set
\* twice (a second set_value throws out of the thread), and the reads, laid
\* end to end, are the peer's stream: each has the size asked for, begins
\* where the one before ended and holds no byte nobody wrote, whatever way
\* read(2) cuts the stream up (workerLoop, the read phase).
ReadsInOrder ==
    \A i \in 1..Len(answers) :
        /\ answers[i].promise = i
        /\ answers[i].data = Slice(LastByte(i - 1), asked[i])

\* No promise is set twice and none is skipped, also when read(2) fails: a
\* second set_value() would throw out of the thread function.
PromisesSetOnce == \A i \in 1..Len(answers) : answers[i].promise = i

\* read(2) is given room inside the buffer, and some, also after readPos went
\* below zero and wrapped (`readBuffer.get() + readPos`, readForBytes).
WithinBuffer ==
    worker = "read" /\ CanRead =>
        /\ ReadForBytes > 0
        /\ Pos + ReadForBytes <= Len(Buffer)

\* A thread blocked in read() has a task in the queue or an answer to return
\* with, also when it asked again between set_value() and pop().
RequestNotLost ==
    reader = "waiting" =>
        Answered \/ \E i \in 1..Len(readTasks) :
                        readTasks[i].promise = Len(asked)

\* Pieces leave in the order of the write() calls and none leaves twice,
\* whatever write(2) does with some of them: a header is never overtaken by
\* its body or by a later message (writeMessage makes two calls).
WireInOrder ==
    LET out == [i \in 1..Len(wire) |-> wire[i].piece] \o writeTasks
    IN  \A i, j \in 1..Len(out) : i < j => out[i] < out[j]

\* As long as the peer is there, what was handed to write() is in the queue or
\* whole on the wire.
NothingLost ==
    peer = "open" =>
        /\ \A i \in 1..Len(wire) : wire[i].whole
        /\ [i \in 1..Len(wire) |-> wire[i].piece] \o writeTasks
               = [i \in 1..written |-> i]

\* close(2) comes after the worker's last use of the descriptor: a number
\* the kernel gives out again is never polled, read or written here.
ClosedLast == closes > 0 => worker \in {"none", "done"}

\* Detail implements promise: the worker, its two queues and its buffer are
\* a ByteChannel, which skips pieces only under the faults that lose them.
Channel == INSTANCE ByteChannel WITH
    Reliable <- Faults \subseteq {"connect", "poll", "full"},
    answered <- [i \in 1..Len(answers) |-> answers[i].data],
    given    <- written,
    wire     <- [i \in 1..Len(wire) |-> wire[i].piece]

ImplementsChannel == Channel!Spec

\* The peer has sent all the bytes the current read asks for.
AllArrived == arrived >= LastByte(Len(asked) - 1) + asked[Len(asked)]

\* The worker has left at POLLHUP, when no read was queued, with bytes of the
\* peer unread; the current read came after that and was never begun.
LeftUnasked == peer # "open" /\ worker = "done" /\ readBuffer = <<>>

\* The read that is outstanding gets no answer: bytes of it are missing, or
\* nobody is left to fetch them.
Unserved == ~Answered /\ (~AllArrived \/ LeftUnasked)

\* A read that is queued while the worker still runs is served from the
\* bytes the peer sent, however the writes and the room in the send buffer
\* interleave with it, and also when the peer has hung up since: POLLHUP does
\* not cut it short.  A reset takes the bytes along.
QueuedReadServed ==
    /\ reader = "waiting" /\ ~Answered /\ AllArrived
    /\ worker \notin {"none", "exit", "done", "aborted"}
  ~> reader = "idle" \/ peer = "reset"

\* Unless the caller disconnects or the peer goes, every piece reaches the
\* wire, also when the worker was asleep in poll() and nobody sends anything.
WritesFlushed ==
    \A p \in 1..MaxWrites :
        written >= p /\ owner = "connected" /\ peer = "open"
            ~> \/ \E i \in 1..Len(wire) : wire[i].piece = p
               \/ owner # "connected" \/ peer # "open"

\* disconnect() returns: poll() has no timeout, and it is the room in the
\* send buffer (POLLOUT) that gets an idle worker out of it.
DisconnectReturns == owner = "joining" ~> owner = "closed"

\* When the peer has gone, isGood() says so after a while, also with a read
\* outstanding and with pieces still to be written.
HangupNoticed == peer # "open" /\ owner = "connected" ~> ~isGood
=============================================================================
