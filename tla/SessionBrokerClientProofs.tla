--------------------- MODULE SessionBrokerClientProofs ---------------------
(***************************************************************************)
(* What holds of requestSession() for every size of the header and of the  *)
(* answer: however it is left, the connection is closed behind it, and it  *)
(* reports a session exactly when the broker has named one.  What is       *)
(* proved of the connection (IPCConnectionProofs, IPCChannelProofs) is     *)
(* cited, since every step here is one of the connection or leaves it be.  *)
(***************************************************************************)
EXTENDS SessionBrokerClient, SequenceTheorems, TLAPS

Proved == INSTANCE IPCChannelProofs WITH
    Sizes <- {HeaderSize, BodySize}, MaxReads <- 2, MaxWrites <- 2,
    MaxArrived <- HeaderSize + BodySize, MaxCloses <- 1

LEMMA ConnectionAssumed == Proved!IPCAssumption
BY BrokerAssumption DEF Proved!IPCAssumption, Proved!FaultKinds

LEMMA ConnectionInitial == Init => Proved!Init
BY DEF Init, IPC!Init, Proved!Init

\* Proved and IPC are the same specification under the same substitution.
LEMMA SameConnection ==
    [IPC!Next]_(IPC!vars) => [Proved!Next]_(Proved!vars)
BY DEF IPC!Next, IPC!Caller, IPC!Worker, IPC!Peer, IPC!Connect,
       IPC!ConnectFails, IPC!Read, IPC!Return, IPC!Write, IPC!DisconnectBegin,
       IPC!DisconnectEnd, IPC!WorkerStart, IPC!Loop, IPC!Poll, IPC!PollFails,
       IPC!WriteOk, IPC!WriteFails, IPC!WriteSkip, IPC!ReadSome, IPC!ReadEof,
       IPC!ReadError, IPC!ReadSkip, IPC!Pop, IPC!Hup, IPC!Exit, IPC!PeerSend,
       IPC!PeerCloses, IPC!PeerDrains, IPC!ReadTask, IPC!Answered, IPC!Ready,
       IPC!PollBits, IPC!CanWrite, IPC!CanRead, IPC!Popped, IPC!ReadForBytes,
       IPC!Minimum, IPC!Pos, IPC!Buffer, IPC!Junk, IPC!Filled, IPC!Advance,
       IPC!AfterRead, IPC!Remaining, IPC!Ends, IPC!vars, IPC!taskVars,
       IPC!flagVars, IPC!bufferVars, IPC!callerVars, IPC!socketVars,
       Proved!Next, Proved!Caller, Proved!Worker, Proved!Peer, Proved!Connect,
       Proved!ConnectFails, Proved!Read, Proved!Return, Proved!Write,
       Proved!DisconnectBegin, Proved!DisconnectEnd, Proved!WorkerStart,
       Proved!Loop, Proved!Poll, Proved!PollFails, Proved!WriteOk,
       Proved!WriteFails, Proved!WriteSkip, Proved!ReadSome, Proved!ReadEof,
       Proved!ReadError, Proved!ReadSkip, Proved!Pop, Proved!Hup, Proved!Exit,
       Proved!PeerSend, Proved!PeerCloses, Proved!PeerDrains, Proved!ReadTask,
       Proved!Answered, Proved!Ready, Proved!PollBits, Proved!CanWrite,
       Proved!CanRead, Proved!Popped, Proved!ReadForBytes, Proved!Minimum,
       Proved!Pos, Proved!Buffer, Proved!Junk, Proved!Filled, Proved!Advance,
       Proved!AfterRead, Proved!Remaining, Proved!Ends, Proved!vars,
       Proved!taskVars, Proved!flagVars, Proved!bufferVars, Proved!callerVars,
       Proved!socketVars

\* The threads of a session do to the connection what IPCConnection allows.
LEMMA ConnectionStep == [Next]_vars => [IPC!Next]_(IPC!vars)
<1> SUFFICES ASSUME [Next]_vars PROVE [IPC!Next]_(IPC!vars)
  OBVIOUS
<1> USE DEF IPC!Next, Alive
<1>1. CASE Alive /\ Connect
  BY <1>1 DEF Connect, IPC!Caller
<1>2. CASE Alive /\ RequestSession
  <2>1. CASE WriteRequest \/ GotHeader \/ GotBody \/ Disconnect
    BY <1>2, <2>1 DEF WriteRequest, GotHeader, GotBody, Disconnect, IPC!Caller
  <2>2. CASE Ask("ask header", HeaderSize, "header")
             \/ Ask("ask body", BodySize, "body")
    BY <1>2, <2>2 DEF Ask, IPC!Caller
  <2> QED BY <1>2, <2>1, <2>2 DEF RequestSession
<1>3. CASE Alive /\ (PeerSend \/ Connection)
  BY <1>3 DEF PeerSend, Connection, IPC!Peer
<1>4. CASE UNCHANGED vars
  BY <1>4 DEF vars, ipcVars, IPC!vars, IPC!taskVars, IPC!flagVars,
              IPC!bufferVars, IPC!callerVars, IPC!socketVars
<1> QED BY <1>1, <1>2, <1>3, <1>4 DEF Next

\* A session is a run of the connection, so that what is proved of the
\* connection holds of it.
LEMMA ConnectionIsProved == Spec => Proved!Spec
<1>1. [Next]_vars => [Proved!Next]_(Proved!vars)
  BY ConnectionStep, SameConnection
<1> QED BY ConnectionInitial, <1>1, PTL DEF Spec, Proved!Spec
----------------------------------------------------------------------------
(* How the connection is left. *)

\* requestSession() between connect() and disconnect().
AtWork == {"write header", "write body", "ask header", "header", "ask body",
           "body", "disconnect"}

\* Where requestSession() is tells what has become of its connection.
PlaceInv ==
    /\ client \in {"new", "threw", "disconnecting", "returned"} \cup AtWork
    /\ client = "new" => owner = "new" /\ closes = 0 /\ worker = "none"
    /\ client = "threw" => owner = "failed" /\ closes = 0 /\ worker = "none"
    /\ client \in AtWork => owner = "connected" /\ closes = 0
    /\ client = "disconnecting" => owner = "joining" /\ closes = 0
    /\ client = "returned" =>
          owner = "closed" /\ closes = 1 /\ worker \in {"none", "done"}

LEMMA PlaceInitial == Init => PlaceInv
BY DEF Init, IPC!Init, PlaceInv, AtWork

\* What the worker and the broker do not touch.
LEMMA WorkerFrame ==
    ASSUME IPC!Worker
    PROVE  /\ worker \notin {"none", "done"}
           /\ UNCHANGED <<owner, reader, asked, closes, arrived>>
BY DEF IPC!Worker, IPC!WorkerStart, IPC!Loop, IPC!Poll, IPC!PollFails,
       IPC!WriteOk, IPC!WriteFails, IPC!WriteSkip, IPC!ReadSome, IPC!ReadEof,
       IPC!ReadError, IPC!ReadSkip, IPC!Pop, IPC!Hup, IPC!Exit,
       IPC!callerVars, IPC!socketVars

LEMMA PlaceStep == PlaceInv /\ [Next]_vars => PlaceInv'
<1> SUFFICES ASSUME PlaceInv, [Next]_vars PROVE PlaceInv'
  OBVIOUS
<1>1. CASE Connect
  BY <1>1 DEF Connect, IPC!Connect, IPC!ConnectFails, PlaceInv, AtWork
<1>2. CASE WriteRequest
  BY <1>2 DEF WriteRequest, IPC!Write, PlaceInv, AtWork
<1>3. CASE Ask("ask header", HeaderSize, "header")
           \/ Ask("ask body", BodySize, "body")
  BY <1>3 DEF Ask, IPC!Read, PlaceInv, AtWork
<1>4. CASE GotHeader \/ GotBody
  BY <1>4 DEF GotHeader, GotBody, IPC!Return, PlaceInv, AtWork
<1>5. CASE Disconnect
  <2>1. CASE client = "disconnect" /\ IPC!DisconnectBegin /\ client' = "disconnecting"
    BY <2>1 DEF IPC!DisconnectBegin, PlaceInv, AtWork
  <2>2. CASE client = "disconnecting" /\ IPC!DisconnectEnd /\ client' = "returned"
    <3>1. /\ owner' = "closed" /\ closes' = closes + 1 /\ worker' = worker
          /\ worker \in {"none", "done"} /\ closes = 0
      BY <2>2 DEF IPC!DisconnectEnd, PlaceInv
    <3> QED BY <2>2, <3>1 DEF PlaceInv, AtWork
  <2> QED BY <1>5, <2>1, <2>2 DEF Disconnect
<1>6. CASE IPC!Worker /\ UNCHANGED client
  BY <1>6, WorkerFrame DEF PlaceInv, AtWork
<1>7. CASE UNCHANGED <<client, owner, closes, worker>>
  BY <1>7 DEF PlaceInv
<1>8. CASE PeerSend
  BY <1>7, <1>8 DEF PeerSend, IPC!PeerSend, IPC!callerVars
<1>9. CASE Connection
  BY <1>6, <1>7, <1>9 DEF Connection, IPC!PeerCloses, IPC!PeerDrains,
                          IPC!callerVars
<1>10. CASE UNCHANGED vars
  BY <1>7, <1>10 DEF vars, ipcVars
<1> QED BY <1>1, <1>2, <1>3, <1>4, <1>5, <1>8, <1>9, <1>10
        DEF Next, RequestSession

\* Whatever the broker and the connection do, requestSession() leaves no
\* worker behind, and closes its descriptor once, unless connect() threw.
THEOREM ConnectionIsClosed == Spec => []ConnectionClosed
<1>1. PlaceInv => ConnectionClosed
  BY DEF PlaceInv, ConnectionClosed
<1> QED BY PlaceInitial, PlaceStep, <1>1, PTL DEF Spec
----------------------------------------------------------------------------
(* What requestSession() reports.  The property speaks of its return only;  *)
(* on the way there it is the place in the stream, known from the reads     *)
(* asked for, that makes the header the header of the answer.               *)

SessionInv ==
    /\ sent \in {<<>>} \cup {<<kind>> : kind \in Kinds}
    /\ sent = <<>> => arrived = 0
    /\ client \in {"new", "threw", "write header", "write body", "ask header"}
          => asked = <<>> /\ reader = "idle"
    /\ client = "header" => asked = <<HeaderSize>>
    /\ client = "ask body" => asked = <<HeaderSize>> /\ reader = "idle"
    /\ client = "body" => asked = <<HeaderSize, BodySize>>
    /\ client \in {"ask body", "body"} => sent = <<header>>
    /\ client \in {"disconnect", "disconnecting", "returned"} =>
          /\ response = <<sent = <<"resolved">>>>
          /\ sent # <<>>
          /\ sent = <<"resolved">> => consumed = HeaderSize + BodySize

View == Proved!CallerView

LEMMA SessionInitial == Init => SessionInv
BY DEF Init, IPC!Init, SessionInv

\* The i-th read has returned what lies behind the reads before it.
LEMMA AnswerToRead ==
    ASSUME View, IPC!Return, Len(asked) # 0
    PROVE  /\ Len(answers) = Len(asked)
           /\ Received = IPC!Slice(Proved!LastByte(Len(asked) - 1),
                                   asked[Len(asked)])
           /\ Proved!LastByte(Len(asked)) <= consumed
<1>1. /\ Len(asked) \in Nat /\ Len(answers) \in 0..Len(asked)
      /\ \A i \in 1..Len(answers) :
            /\ answers[i].promise = i
            /\ answers[i].data = Proved!Slice(Proved!LastByte(i - 1), asked[i])
      /\ Proved!LastByte(Len(answers)) <= consumed
  BY DEF View, Proved!CallerView
<1>2. \E i \in 1..Len(answers) : answers[i].promise = Len(asked)
  BY DEF IPC!Return, IPC!Answered
<1>3. Len(answers) = Len(asked) /\ Len(asked) \in 1..Len(answers)
  BY <1>1, <1>2
<1>4. (CHOOSE i \in 1..Len(answers) : answers[i].promise = Len(asked)) = Len(asked)
  BY <1>1, <1>2
<1>5. Received = answers[Len(asked)].data
  BY <1>4 DEF Received
<1> QED BY <1>1, <1>3, <1>5 DEF IPC!Slice, Proved!Slice

\* The header the broker's answer begins with announces the answer.
LEMMA GotHeaderIsSent ==
    ASSUME View, SessionInv, GotHeader
    PROVE  sent = <<header'>>
<1>1. asked = <<HeaderSize>> /\ Len(asked) = 1 /\ asked[1] = HeaderSize
  <2>1. asked = <<HeaderSize>>
    BY DEF GotHeader, SessionInv
  <2> QED BY <2>1
<1>2. /\ Len(answers) = 1
      /\ Received = IPC!Slice(Proved!LastByte(0), HeaderSize)
      /\ Proved!LastByte(1) <= consumed
  <2>1. IPC!Return
    BY DEF GotHeader
  <2>2. Len(asked) - 1 = 0 /\ asked[Len(asked)] = HeaderSize
    BY <1>1
  <2>3. /\ Len(answers) = Len(asked)
        /\ Received = IPC!Slice(Proved!LastByte(Len(asked) - 1), asked[Len(asked)])
        /\ Proved!LastByte(Len(asked)) <= consumed
    BY <1>1, <2>1, AnswerToRead
  <2> QED BY <1>1, <2>2, <2>3
<1>3. Proved!LastByte(0) = 0
  BY DEF Proved!LastByte
<1>4. Proved!LastByte(1) = HeaderSize
  BY <1>1, <1>2, <1>3, BrokerAssumption DEF View, Proved!CallerView
<1>5. consumed \in Nat /\ consumed <= arrived /\ arrived \in Nat
  BY BrokerAssumption DEF View, Proved!CallerView
<1>6. sent # <<>>
  <2>1. arrived # 0
    BY <1>2, <1>4, <1>5, BrokerAssumption
  <2> QED BY <2>1 DEF SessionInv
<1>7. PICK kind \in Kinds : sent = <<kind>>
  BY <1>6 DEF SessionInv
<1>8. {k \in Kinds : sent = <<k>> /\ Received = IPC!Slice(0, HeaderSize)} = {kind}
  BY <1>2, <1>3, <1>7
<1>9. Announced(Received) = {kind}
  BY <1>8 DEF Announced
<1> QED BY <1>7, <1>9 DEF GotHeader

\* After the body all of the answer has been read.
LEMMA GotBodyIsAll ==
    ASSUME View, SessionInv, GotBody
    PROVE  consumed = HeaderSize + BodySize
<1>1. asked = <<HeaderSize, BodySize>> /\ Len(asked) = 2
      /\ asked[1] = HeaderSize /\ asked[2] = BodySize
  BY DEF GotBody, SessionInv
<1>2. Len(answers) = 2 /\ Proved!LastByte(2) <= consumed
  BY <1>1, AnswerToRead DEF GotBody
<1>3. Proved!LastByte(0) = 0
  BY DEF Proved!LastByte
<1>4. Proved!LastByte(1) = Proved!LastByte(0) + HeaderSize
  BY <1>1, <1>2 DEF View, Proved!CallerView
<1>5. Proved!LastByte(2) = Proved!LastByte(1) + BodySize
  BY <1>1, <1>2 DEF View, Proved!CallerView
<1>6. consumed \in Nat /\ consumed <= HeaderSize + BodySize
  BY BrokerAssumption DEF View, Proved!CallerView
<1> QED BY <1>2, <1>3, <1>4, <1>5, <1>6, BrokerAssumption

\* The bytes read(2) has returned are never fewer.
LEMMA ConsumedGrows ==
    ASSUME View, IPC!Worker PROVE consumed' >= consumed
<1>1. consumed \in Nat
  BY DEF View, Proved!CallerView
<1>2. CASE IPC!ReadSome
  <2>1. PICK got \in 1..IPC!Minimum(IPC!ReadForBytes, arrived - consumed) :
            consumed' = consumed + got
    BY <1>2 DEF IPC!ReadSome
  <2> QED BY <1>1, <2>1
<1>3. CASE consumed' = consumed
  BY <1>1, <1>3
<1> QED BY <1>2, <1>3
        DEF IPC!Worker, IPC!WorkerStart, IPC!Loop, IPC!Poll, IPC!PollFails,
            IPC!WriteOk, IPC!WriteFails, IPC!WriteSkip, IPC!ReadEof,
            IPC!ReadError, IPC!ReadSkip, IPC!Pop, IPC!Hup, IPC!Exit,
            IPC!socketVars

\* Steps of the worker and the broker.
LEMMA SessionConnection ==
    ASSUME View, View', SessionInv, Connection PROVE SessionInv'
<1>1. /\ UNCHANGED <<client, header, response, sent, asked, reader, arrived>>
      /\ consumed' >= consumed
  <2>1. CASE IPC!Worker
    BY <2>1, ConsumedGrows, WorkerFrame DEF Connection
  <2>2. CASE IPC!PeerCloses \/ IPC!PeerDrains
    BY <2>2 DEF Connection, IPC!PeerCloses, IPC!PeerDrains, IPC!callerVars,
                View, Proved!CallerView
  <2> QED BY <2>1, <2>2 DEF Connection
<1>2. consumed' \in Nat /\ consumed' <= HeaderSize + BodySize
  BY BrokerAssumption DEF View, Proved!CallerView
<1>3. consumed = HeaderSize + BodySize => consumed' = consumed
  BY <1>1, <1>2, BrokerAssumption
<1> QED BY <1>1, <1>3 DEF SessionInv

\* The two questions, as sequences.
LEMMA Questions ==
    ASSUME NEW a \in Nat, NEW b \in Nat
    PROVE  Append(<<>>, a) = <<a>> /\ Append(<<a>>, b) = <<a, b>>
<1>1. Append(<<>>, a) = <<a>>
  <2>1. <<>> \in Seq(Nat) /\ <<a>> \in Seq(Nat) /\ Len(<<a>>) = 1 /\ <<a>>[1] = a
    OBVIOUS
  <2>2. /\ Append(<<>>, a) \in Seq(Nat)
        /\ Len(Append(<<>>, a)) = 1
        /\ Append(<<>>, a)[1] = a
    BY <2>1, AppendProperties
  <2> QED BY <2>1, <2>2, SeqEqual
<1>2. Append(<<a>>, b) = <<a, b>>
  <2>1. /\ <<a>> \in Seq(Nat) /\ Len(<<a>>) = 1 /\ <<a>>[1] = a
        /\ <<a, b>> \in Seq(Nat) /\ Len(<<a, b>>) = 2
        /\ <<a, b>>[1] = a /\ <<a, b>>[2] = b
    OBVIOUS
  <2>2. /\ Append(<<a>>, b) \in Seq(Nat)
        /\ Len(Append(<<a>>, b)) = 2
        /\ Append(<<a>>, b)[1] = a /\ Append(<<a>>, b)[2] = b
    BY <2>1, AppendProperties
  <2>3. \A i \in 1..2 : Append(<<a>>, b)[i] = <<a, b>>[i]
    BY <2>1, <2>2
  <2> QED BY <2>1, <2>2, <2>3, SeqEqual
<1> QED BY <1>1, <1>2

LEMMA SessionStep ==
    ASSUME View, View', SessionInv, [Next]_vars PROVE SessionInv'
<1>1. CASE Connect
  BY <1>1 DEF Connect, IPC!Connect, IPC!ConnectFails, IPC!socketVars, SessionInv
<1>2. CASE WriteRequest
  BY <1>2 DEF WriteRequest, IPC!Write, IPC!socketVars, SessionInv
<1>3. CASE Ask("ask header", HeaderSize, "header")
  <2>1. /\ client = "ask header" /\ client' = "header" /\ asked' = Append(asked, HeaderSize)
        /\ UNCHANGED <<sent, arrived, header, response, consumed>>
    BY <1>3 DEF Ask, IPC!Read, IPC!socketVars
  <2>2. asked = <<>>
    BY <2>1 DEF SessionInv
  <2>3. asked' = <<HeaderSize>>
    BY <2>1, <2>2, Questions, BrokerAssumption
  <2>4. sent' \in {<<>>} \cup {<<kind>> : kind \in Kinds}
    BY <2>1 DEF SessionInv
  <2>5. (sent = <<>> => arrived = 0)'
    BY <2>1 DEF SessionInv
  <2> QED BY <2>1, <2>3, <2>4, <2>5 DEF SessionInv
<1>4. CASE Ask("ask body", BodySize, "body")
  <2>1. /\ client = "ask body" /\ client' = "body" /\ asked' = Append(asked, BodySize)
        /\ UNCHANGED <<sent, arrived, header, response, consumed>>
    BY <1>4 DEF Ask, IPC!Read, IPC!socketVars
  <2>2. asked = <<HeaderSize>>
    BY <2>1 DEF SessionInv
  <2>3. asked' = <<HeaderSize, BodySize>>
    BY <2>1, <2>2, Questions, BrokerAssumption
  <2>4. sent' \in {<<>>} \cup {<<kind>> : kind \in Kinds}
    BY <2>1 DEF SessionInv
  <2>5. (sent = <<>> => arrived = 0)' /\ sent' = <<header'>>
    BY <2>1 DEF SessionInv
  <2> QED BY <2>1, <2>3, <2>4, <2>5 DEF SessionInv
<1>5. CASE GotHeader
  <2>1. /\ sent = <<header'>> /\ asked = <<HeaderSize>> /\ reader' = "idle"
        /\ UNCHANGED <<sent, asked, arrived, consumed>>
    BY <1>5, GotHeaderIsSent DEF GotHeader, IPC!Return, IPC!socketVars, SessionInv
  <2>2. CASE client' = "ask body"
    BY <2>1, <2>2 DEF SessionInv
  <2>3. CASE header' = "other" /\ client' = "disconnect"
             /\ response' = <<IsSuccessful(header')>>
    <3>1. sent # <<"resolved">>
      BY <2>1, <2>3
    <3>2. response' = <<sent = <<"resolved">>>>
      BY <2>3, <3>1 DEF IsSuccessful
    <3>3. sent # <<>>
      BY <2>1
    <3> QED BY <2>1, <2>3, <3>1, <3>2, <3>3 DEF SessionInv
  <2> QED BY <1>5, <2>2, <2>3 DEF GotHeader
<1>6. CASE GotBody
  <2>1. /\ sent = <<header>> /\ client' = "disconnect"
        /\ response' = <<header = "resolved">>
        /\ consumed' = HeaderSize + BodySize
        /\ UNCHANGED <<sent, arrived>>
    BY <1>6, GotBodyIsAll DEF GotBody, IPC!Return, IPC!socketVars, SessionInv,
                              IsSuccessful
  <2>2. (header = "resolved") = (sent = <<"resolved">>) /\ sent # <<>>
    BY <2>1
  <2>3. response' = <<sent = <<"resolved">>>>
    BY <2>1, <2>2
  <2> QED BY <2>1, <2>2, <2>3 DEF SessionInv
<1>7. CASE Disconnect
  BY <1>7 DEF Disconnect, IPC!DisconnectBegin, IPC!DisconnectEnd,
              IPC!socketVars, SessionInv
<1>8. CASE PeerSend
  <2>1. UNCHANGED <<client, header, response, asked, reader, consumed>>
    BY <1>8 DEF PeerSend, IPC!PeerSend, IPC!callerVars
  <2>2. \/ sent # <<>> /\ sent' = sent
        \/ sent = <<>> /\ \E kind \in Kinds : sent' = <<kind>>
    BY <1>8 DEF PeerSend
  <2>3. sent' # <<>> /\ sent' \in {<<kind>> : kind \in Kinds}
    <3>1. CASE sent # <<>>
      BY <2>2, <3>1 DEF SessionInv
    <3>2. CASE \E kind \in Kinds : sent' = <<kind>>
      <4>1. PICK kind \in Kinds : sent' = <<kind>>
        BY <3>2
      <4> QED BY <4>1
    <3> QED BY <2>2, <3>1, <3>2
  <2>4. client \in {"ask body", "body"} => sent' = <<header>>
    <3>1. client \in {"ask body", "body"} => sent # <<>> /\ sent = <<header>>
      <4>1. client \in {"ask body", "body"} => sent = <<header>>
        BY DEF SessionInv
      <4>2. <<header>> # <<>>
        OBVIOUS
      <4> QED BY <4>1, <4>2
    <3> QED BY <2>2, <3>1
  <2>5. CASE client \in {"disconnect", "disconnecting", "returned"}
    <3>1. sent' = sent
      BY <2>2, <2>5 DEF SessionInv
    <3> QED BY <2>1, <2>3, <2>5, <3>1 DEF SessionInv
  <2>6. CASE client \notin {"disconnect", "disconnecting", "returned"}
    BY <2>1, <2>3, <2>4, <2>6 DEF SessionInv
  <2> QED BY <2>5, <2>6
<1>9. CASE Connection
  BY <1>9, SessionConnection
<1>10. CASE UNCHANGED vars
  BY <1>10 DEF vars, ipcVars, SessionInv
<1> QED BY <1>1, <1>2, <1>3, <1>4, <1>5, <1>6, <1>7, <1>8, <1>9, <1>10
        DEF Next, RequestSession

\* requestSession() reports a session when, and only when, the broker has named
\* one, and has then read all of the answer - unless the broker resets the
\* connection, when read() may hand out what nobody wrote.
THEOREM SessionIsTheBrokers ==
    ASSUME "reset" \notin Faults
    PROVE  Spec => []SessionOnlyIfResolved
<1>1. Spec => []View
  BY ConnectionIsProved, ConnectionAssumed, Proved!CallersSeeTheStream, PTL
     DEF View
<1>2. View /\ View' /\ SessionInv /\ [Next]_vars => SessionInv'
  BY SessionStep
<1>3. ASSUME SessionInv PROVE SessionOnlyIfResolved
  <2> SUFFICES ASSUME client = "returned" PROVE
                 /\ response = <<sent = <<"resolved">>>>
                 /\ response = <<TRUE>> => consumed = HeaderSize + BodySize
    BY DEF SessionOnlyIfResolved
  <2>1. /\ response = <<sent = <<"resolved">>>>
        /\ sent = <<"resolved">> => consumed = HeaderSize + BodySize
    BY <1>3 DEF SessionInv
  <2>2. ASSUME response = <<TRUE>> PROVE sent = <<"resolved">>
    <3> SUFFICES ASSUME sent # <<"resolved">> PROVE FALSE
      OBVIOUS
    <3>1. response = <<FALSE>>
      BY <2>1
    <3>2. <<FALSE>>[1] = FALSE /\ <<TRUE>>[1] = TRUE
      OBVIOUS
    <3> QED BY <2>2, <3>1, <3>2
  <2> QED BY <2>1, <2>2
<1> QED BY SessionInitial, <1>1, <1>2, <1>3, PTL DEF Spec
============================================================================
