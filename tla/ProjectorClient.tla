-------------------------- MODULE ProjectorClient --------------------------
(***************************************************************************)
(* src/ProjectorClient.{hpp,cpp} on its connection (module IPCConnection), *)
(* and what libModConnect(), libModEvent() and libModEnd() make of it.     *)
(* Three threads: xrdp's thread connects, greets the projector, sends it   *)
(* events and stops the client; the projector thread, mainLoop(), reads    *)
(* messages and calls the target back; the connection's worker serves both.*)
(*                                                                         *)
(* Abstracted: a message from the projector is its kind; its header, its   *)
(* body and, after a commit, its bitmap are stretches of the byte stream.  *)
(* A message to the projector is its kind, written in one piece: that the  *)
(* two of writeMessage() stay together is IPCConnection's WireInOrder.     *)
(* Events that send nothing are left out: they change nothing.             *)
(*                                                                         *)
(* An operator whose comment begins with "Variant:" is not part of the     *)
(* specification: it is the plausible mistake that a property is there to  *)
(* catch (PROJECT.json, "mutants").                                        *)
(***************************************************************************)
EXTENDS Integers, Sequences

CONSTANTS HeaderSize,  \* sizeof(ULIPCHeader)
          BodySize,    \* header->length
          BitmapSize,  \* commit->bitmapLength
          MAX_READ_SIZE, SIZE_MAX, Faults,  \* as in IPCConnection
          MaxMessages, \* bound: messages the projector sends
          MaxEvents    \* bound: events that are sent to the projector

ASSUME ClientAssumption ==
    /\ HeaderSize \in Nat \ {0} /\ BodySize \in Nat \ {0}
    /\ BitmapSize \in Nat \ {0}
    /\ MAX_READ_SIZE \in Nat \ {0} /\ SIZE_MAX \in Nat
    /\ \A n \in {HeaderSize, BodySize, BitmapSize} : n < SIZE_MAX
    /\ Faults \subseteq {"connect", "poll", "full", "again", "short",
                         "hangup", "reset"}
    /\ MaxMessages \in Nat /\ MaxEvents \in Nat

VARIABLES
    readTasks, writeTasks, isGood, isWorkerTerminated, worker, revents,
    readPos, readBuffer, owner, reader, asked, answers, written, closes,
    arrived, consumed, peer, writable, wire,  \* as in IPCConnection
    isTerminated,  \* _isTerminated
    error,         \* XrdpUlalacaPrivate::_error = 1
    xrdp,          \* where xrdp's thread is
    caller,        \* where it returns to from stop()
    main,          \* where mainLoop() is
    header,        \* its local: the kind of message
    sent,          \* the projector: the messages it has begun to send
    handled,       \* history: the messages mainLoop() is done with
    late           \* history: how many of them after stop() was called

ipcVars == <<readTasks, writeTasks, isGood, isWorkerTerminated, worker,
             revents, readPos, readBuffer, owner, reader, asked, answers,
             written, closes, arrived, consumed, peer, writable, wire>>
xrdpVars == <<isTerminated, error, xrdp, caller>>
mainVars == <<main, header, handled, late>>
vars == <<ipcVars, xrdpVars, mainVars, sent>>

Kinds == {"notify", "commit", "other"}

\* Hello, viewport and start, and the events.
MaxWrites == 3 + MaxEvents
MaxArrived == MaxMessages * (HeaderSize + BodySize + BitmapSize)

\* Each message takes at most three reads; then the next header is waited for.
IPC == INSTANCE IPCConnection WITH
    Sizes <- {HeaderSize, BodySize, BitmapSize},
    MaxReads <- 3 * MaxMessages + 1, MaxCloses <- 2

\* The number of bytes of the first n messages the projector sends.
StreamLength ==
    LET Length[n \in 0..Len(sent)] ==
            IF n = 0 THEN 0
            ELSE Length[n - 1] + HeaderSize + BodySize
                     + (IF sent[n] = "commit" THEN BitmapSize ELSE 0)
    IN  Length

Init ==
    /\ IPC!Init
    /\ isTerminated = FALSE /\ error = FALSE
    /\ xrdp = "new" /\ caller = "none"
    /\ main = "none" /\ header = "none" /\ handled = <<>> /\ late = 0
    /\ sent = <<>>
----------------------------------------------------------------------------
(* xrdp's thread. *)

\* start(): the connection, ...
Start ==
    /\ xrdp = "new"
    /\ \/ IPC!Connect /\ xrdp' = "connected"
       \/ IPC!ConnectFails /\ xrdp' = "failed"
    /\ UNCHANGED <<isTerminated, error, caller, mainVars, sent>>

\* ... and then the projector thread.
StartMainLoop ==
    /\ xrdp = "connected"
    /\ xrdp' = "hello"
    /\ main' = "loop"
    /\ UNCHANGED <<ipcVars, isTerminated, error, caller, header, handled, late,
                   sent>>

WriteMessage(next) ==
    /\ IPC!Write
    /\ xrdp' = next
    /\ UNCHANGED <<isTerminated, error, caller, mainVars, sent>>

\* stop() up to the join().
Stop(from) ==
    /\ isTerminated' = TRUE
    /\ xrdp' = "join"
    /\ caller' = from
    /\ UNCHANGED <<ipcVars, mainVars, sent>>

\* sendHello() and handleEvent(), on a connection that is no longer good.
Disconnected(from) ==
    /\ ~isTerminated /\ ~isGood
    /\ error' = TRUE
    /\ Stop(from)

SendHello ==
    /\ xrdp = "hello"
    /\ \/ isGood /\ WriteMessage("viewport")
       \/ Disconnected("viewport")

\* attachToSession() goes on in any case.
SetViewport ==
    xrdp = "viewport" /\ WriteMessage("output")

SetOutputSuppression ==
    xrdp = "output" /\ WriteMessage("serving")

HandleEvent ==
    /\ xrdp = "serving"
    /\ \/ /\ ~isTerminated /\ isGood
          /\ WriteMessage("serving")
       \/ Disconnected("serving")

\* libModEnd()
ModEnd ==
    /\ xrdp \in {"serving", "failed"}
    /\ Stop("ended")
    /\ UNCHANGED error

\* Variant: the connection is taken down first.
JoinLater ==
    /\ xrdp = "join"
    /\ xrdp' = "disconnect"
    /\ UNCHANGED <<ipcVars, isTerminated, error, caller, mainVars,
                   sent>>

\* The join() of stop(): the thread has ended, or there is none.
Join ==
    /\ xrdp = "join" /\ main \in {"none", "gone"}
    /\ xrdp' = "disconnect"
    /\ UNCHANGED <<ipcVars, isTerminated, error, caller, mainVars,
                   sent>>

\* disconnect(), and the return from stop().
Disconnect ==
    /\ \/ xrdp = "disconnect" /\ IPC!DisconnectBegin /\ xrdp' = "disconnecting"
       \/ xrdp = "disconnecting" /\ IPC!DisconnectEnd /\ xrdp' = caller
    /\ UNCHANGED <<isTerminated, error, caller, mainVars, sent>>
----------------------------------------------------------------------------
(* The projector thread. *)

\* Variant: the flag is not looked at.
ContinuesWhileGood == isGood

\* The condition of mainLoop().
Continues == ~isTerminated /\ isGood

Loop ==
    /\ main = "loop"
    /\ main' = IF Continues THEN "ask header" ELSE "gone"
    /\ UNCHANGED <<ipcVars, xrdpVars, header, handled, late, sent>>

\* read() puts the task on the queue...
Ask(at, size, next) ==
    /\ main = at
    /\ IPC!Read(size)
    /\ main' = next
    /\ UNCHANGED <<xrdpVars, header, handled, late, sent>>

\* ... and returns with what the promise was set to.
Received == answers[CHOOSE i \in 1..Len(answers) :
                        answers[i].promise = Len(asked)].data

\* The kinds a header may announce: that of the message it is the header of,
\* or anything, should it be none.
Announced(data) ==
    LET these == {i \in 1..Len(sent) :
                     data = IPC!Slice(StreamLength[i - 1], HeaderSize)}
    IN  IF these = {} THEN Kinds ELSE {sent[i] : i \in these}

\* Variant: a message of no interest is left in the stream.
GotHeaderSkipOther ==
    /\ main = "header"
    /\ IPC!Return
    /\ header' \in Announced(Received)
    /\ main' = IF header' = "other" THEN "loop" ELSE "ask body"
    /\ UNCHANGED <<xrdpVars, handled, late, sent>>

GotHeader ==
    /\ main = "header"
    /\ IPC!Return
    /\ header' \in Announced(Received)
    /\ main' = "ask body"
    /\ UNCHANGED <<xrdpVars, handled, late, sent>>

\* addDirtyRect(), commitUpdate() or nothing, and back to the loop.
Handle ==
    /\ handled' = Append(handled, header)
    /\ late' = IF isTerminated THEN late + 1 ELSE late
    /\ main' = "loop"

GotBody ==
    /\ main = "body"
    /\ IPC!Return
    /\ \/ /\ header = "commit"
          /\ main' = "ask bitmap"
          /\ UNCHANGED <<handled, late>>
       \/ header # "commit" /\ Handle
    /\ UNCHANGED <<xrdpVars, header, sent>>

GotBitmap ==
    /\ main = "bitmap"
    /\ IPC!Return
    /\ Handle
    /\ UNCHANGED <<xrdpVars, header, sent>>
----------------------------------------------------------------------------
(* The projector and the connection's worker. *)

\* The next byte, of the message begun or of a new one.
PeerSend ==
    /\ IPC!PeerSend
    /\ \/ arrived < StreamLength[Len(sent)] /\ UNCHANGED sent
       \/ /\ arrived = StreamLength[Len(sent)] /\ Len(sent) < MaxMessages
          /\ \E kind \in Kinds : sent' = Append(sent, kind)
    /\ UNCHANGED <<xrdpVars, mainVars>>

Connection ==
    /\ IPC!Worker \/ IPC!PeerCloses \/ IPC!PeerDrains
    /\ UNCHANGED <<xrdpVars, mainVars, sent>>

StopStep == Join \/ Disconnect

MainLoop ==
    \/ Loop
    \/ Ask("ask header", HeaderSize, "header")
    \/ GotHeader
    \/ Ask("ask body", BodySize, "body")
    \/ GotBody
    \/ Ask("ask bitmap", BitmapSize, "bitmap")
    \/ GotBitmap

\* std::terminate() in the worker ends the process.
Alive == worker # "aborted"

Next ==
    \/ Alive /\ (Start \/ StartMainLoop)
    \/ Alive /\ (SendHello \/ SetViewport \/ SetOutputSuppression)
    \/ Alive /\ HandleEvent
    \/ Alive /\ ModEnd
    \/ Alive /\ StopStep
    \/ Alive /\ MainLoop
    \/ Alive /\ (PeerSend \/ Connection)

Spec == Init /\ [][Next]_vars

\* The two threads of the client and the worker run when they can, and a
\* projector that is there reads what it is sent.  It need not send, xrdp need
\* not call.
FairSpec ==
    /\ Spec
    /\ WF_vars(Alive /\ StopStep)
    /\ WF_vars(Alive /\ MainLoop)
    /\ WF_vars(IPC!Worker /\ UNCHANGED <<xrdpVars, mainVars, sent>>)
    /\ WF_vars(IPC!PeerDrains /\ UNCHANGED <<xrdpVars, mainVars, sent>>)
----------------------------------------------------------------------------
(* Properties. *)

\* The target is told of the messages the projector sent, in their order, and
\* of none before all of it has been read: header, body and bitmap are taken
\* off the stream in step with the projector, whatever it sends.
HandledInOrder ==
    /\ Len(handled) <= Len(sent)
    /\ \A i \in 1..Len(handled) : handled[i] = sent[i]
    /\ StreamLength[Len(handled)] <= consumed

\* What the client promises its target: callbacks from one thread, for one
\* message at most after stop() was called and for none after it has returned,
\* and ipcDisconnected() at most once, of a client at work.
Thread == CASE main = "none" -> "none"
            [] main = "gone" -> "ended"
            [] OTHER         -> "running"

InStop == xrdp = "join"

Target == INSTANCE ProjectionTarget WITH
    thread <- Thread, stopping <- isTerminated, inStop <- InStop, lost <- error

ImplementsTarget == Target!Spec

\* stop() hangs for two reasons only, and in both it does hang, for nothing
\* wakes the thread that it joins.  Either mainLoop() waits for bytes that do
\* not come, from a projector that is quiet or has gone; or for bytes that did
\* come, and that the worker left unread when it saw POLLHUP between two reads.
StopHangsOnlyStarved ==
    []<>(xrdp \notin {"join", "disconnect", "disconnecting"})
        \/ <>[](xrdp = "join" /\ reader = "waiting" /\ IPC!Unserved)
============================================================================
