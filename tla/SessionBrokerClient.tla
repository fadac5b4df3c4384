------------------------ MODULE SessionBrokerClient ------------------------
(***************************************************************************)
(* src/SessionBrokerClient.cpp, requestSession(): one question and one     *)
(* answer over a connection of their own (module IPCConnection), asked by  *)
(* xrdp's thread from libModConnect(), which waits for the outcome.        *)
(*                                                                         *)
(* Abstracted: the request is two pieces, the answer is its kind, and its  *)
(* header and body are stretches of the byte stream.                       *)
(*                                                                         *)
(* An operator whose comment begins with "Variant:" is not part of the     *)
(* specification: it is the plausible mistake that a property is there to  *)
(* catch (PROJECT.json, "mutants").                                        *)
(***************************************************************************)
EXTENDS Integers, Sequences

CONSTANTS HeaderSize,  \* sizeof(ULIPCHeader)
          BodySize,    \* sizeof(ULIPCSessionRequestResolved) or ...Rejected
          MAX_READ_SIZE, SIZE_MAX, Faults  \* as in IPCConnection

ASSUME BrokerAssumption ==
    /\ HeaderSize \in Nat \ {0} /\ BodySize \in Nat \ {0}
    /\ MAX_READ_SIZE \in Nat \ {0}
    /\ SIZE_MAX \in Nat /\ HeaderSize < SIZE_MAX /\ BodySize < SIZE_MAX
    /\ Faults \subseteq {"connect", "poll", "full", "again", "short",
                         "hangup", "reset"}

VARIABLES
    readTasks, writeTasks, isGood, isWorkerTerminated, worker, revents,
    readPos, readBuffer, owner, reader, asked, answers, written, closes,
    arrived, consumed, peer, writable, wire,  \* as in IPCConnection
    client,    \* where requestSession() is
    header,    \* its local: the kind of the answer
    response,  \* what it returns: <<its isSuccessful>>, or <<>> before
    sent       \* the broker: its answer, as a sequence of at most one

ipcVars == <<readTasks, writeTasks, isGood, isWorkerTerminated, worker,
             revents, readPos, readBuffer, owner, reader, asked, answers,
             written, closes, arrived, consumed, peer, writable, wire>>
vars == <<ipcVars, client, header, response, sent>>

Kinds == {"resolved", "rejected", "other"}

IPC == INSTANCE IPCConnection WITH
    Sizes <- {HeaderSize, BodySize}, MaxReads <- 2, MaxWrites <- 2,
    MaxArrived <- HeaderSize + BodySize, MaxCloses <- 1

Init ==
    /\ IPC!Init
    /\ client = "new" /\ header = "none" /\ response = <<>> /\ sent = <<>>
----------------------------------------------------------------------------
(* requestSession() *)

\* connect(); its exception leaves requestSession().
Connect ==
    /\ client = "new"
    /\ \/ IPC!Connect /\ client' = "write header"
       \/ IPC!ConnectFails /\ client' = "threw"
    /\ UNCHANGED <<header, response, sent>>

\* writeMessage() calls write() twice.
WriteRequest ==
    /\ \/ client = "write header" /\ client' = "write body"
       \/ client = "write body" /\ client' = "ask header"
    /\ IPC!Write
    /\ UNCHANGED <<header, response, sent>>

\* read() puts the task on the queue...
Ask(at, size, next) ==
    /\ client = at
    /\ IPC!Read(size)
    /\ client' = next
    /\ UNCHANGED <<header, response, sent>>

\* Variant: an answer nobody knows is taken for a session.
SuccessUnlessRejected(kind) == kind # "rejected"

\* isSuccessful, for an answer of this kind.
IsSuccessful(kind) == kind = "resolved"

\* ... and returns with what the promise was set to.
Received == answers[CHOOSE i \in 1..Len(answers) :
                        answers[i].promise = Len(asked)].data

\* A header announces the answer it is the header of, or anything if it is not
\* one.
Announced(data) ==
    LET these == {kind \in Kinds :
                     sent = <<kind>> /\ data = IPC!Slice(0, HeaderSize)}
    IN  IF these = {} THEN Kinds ELSE these

\* Variant: an answer of a kind unknown is returned from at once.
GotHeaderReturnsEarly ==
    /\ client = "header"
    /\ IPC!Return
    /\ header' \in Announced(Received)
    /\ client' = IF header' = "other" THEN "returned" ELSE "ask body"
    /\ response' = IF header' = "other" THEN <<FALSE>> ELSE response
    /\ UNCHANGED sent

\* An answer of a kind unknown is not read any further.
GotHeader ==
    /\ client = "header"
    /\ IPC!Return
    /\ header' \in Announced(Received)
    /\ \/ /\ header' \in {"resolved", "rejected"}
          /\ client' = "ask body"
          /\ UNCHANGED response
       \/ /\ header' = "other"
          /\ client' = "disconnect"
          /\ response' = <<IsSuccessful(header')>>
    /\ UNCHANGED sent

GotBody ==
    /\ client = "body"
    /\ IPC!Return
    /\ client' = "disconnect"
    /\ response' = <<IsSuccessful(header)>>
    /\ UNCHANGED <<header, sent>>

Disconnect ==
    /\ \/ client = "disconnect" /\ IPC!DisconnectBegin /\ client' = "disconnecting"
       \/ client = "disconnecting" /\ IPC!DisconnectEnd /\ client' = "returned"
    /\ UNCHANGED <<header, response, sent>>

RequestSession ==
    \/ WriteRequest
    \/ Ask("ask header", HeaderSize, "header")
    \/ GotHeader
    \/ Ask("ask body", BodySize, "body")
    \/ GotBody
    \/ Disconnect
----------------------------------------------------------------------------
(* The broker and the connection's worker. *)

\* The broker has been sent the whole request.
Requested == Len(wire) = 2

\* It answers when it has been asked, byte by byte.
PeerSend ==
    /\ Requested
    /\ IPC!PeerSend
    /\ \/ sent # <<>> /\ UNCHANGED sent
       \/ sent = <<>> /\ \E kind \in Kinds : sent' = <<kind>>
    /\ UNCHANGED <<client, header, response>>

Connection ==
    /\ IPC!Worker \/ IPC!PeerCloses \/ IPC!PeerDrains
    /\ UNCHANGED <<client, header, response, sent>>

\* std::terminate() in the worker ends the process.
Alive == worker # "aborted"

Next ==
    \/ Alive /\ Connect
    \/ Alive /\ RequestSession
    \/ Alive /\ (PeerSend \/ Connection)

Spec == Init /\ [][Next]_vars

\* The calling thread and the worker run when they can, and a broker that is
\* there reads what it is sent.  It need not answer.
FairSpec ==
    /\ Spec
    /\ WF_vars(Alive /\ RequestSession)
    /\ WF_vars(IPC!Worker /\ UNCHANGED <<client, header, response, sent>>)
    /\ WF_vars(IPC!PeerDrains /\ UNCHANGED <<client, header, response, sent>>)
----------------------------------------------------------------------------
(* Properties. *)

\* requestSession() reports a session when, and only when, the broker has
\* named one, and has then read all of the answer.
SessionOnlyIfResolved ==
    client = "returned" =>
        /\ response = <<sent = <<"resolved">>>>
        /\ response = <<TRUE>> => consumed = HeaderSize + BodySize

\* However requestSession() is left, nothing of the connection is at work any
\* more (its destructor would end the process if the worker was not joined),
\* and the descriptor was closed, and once only - but for the one that
\* connect() throws on, which stays open.
ConnectionClosed ==
    /\ client \in {"returned", "threw"} => worker \in {"none", "done"}
    /\ client = "returned" => closes = 1
    /\ client = "threw" => closes = 0

\* The request is out, or can no longer be, and the answer is not complete; or
\* the worker left at the broker's POLLHUP before this read was queued.
Starved ==
    /\ reader = "waiting" /\ IPC!Unserved
    /\ Requested \/ peer # "open"

\* Once connected, requestSession() hangs (and with it libModConnect() and
\* the thread that serves the client) for two reasons only.  Either bytes of
\* the answer are missing: the broker does not answer, or goes before it has.
\* Or the broker answered, even in full, and closed at once: if the worker
\* sees POLLHUP between the read of the header and the one of the body, or
\* before either, it finds _readTasks empty and leaves, and the read that
\* comes then is served by nobody.  A read the worker has begun is no excuse.
HangsOnlyStarved ==
    []<>(client \in {"new", "returned", "threw"}) \/ <>[]Starved
============================================================================
