------------------------ MODULE ProjectorClientProofs ------------------------
(***************************************************************************)
(* For all sizes and bounds: the client promises its target what           *)
(* ProjectionTarget says, whatever happens on the connection; and unless   *)
(* the projector resets it, each message is handled whole, once and in its *)
(* turn.  What is proved of the connection (IPCConnectionProofs,           *)
(* IPCChannelProofs) is cited, since every step here is one of the         *)
(* connection or leaves it be.                                             *)
(***************************************************************************)
EXTENDS ProjectorClient, SequenceTheorems, TLAPS

\* Before start() there is no projector thread and nothing to stop; and a
\* message was handled after stop() only if the thread, which looks at the flag
\* before it begins another, has not begun another.
StopInv ==
    /\ xrdp \in {"new", "connected", "failed"} => main = "none"
    /\ xrdp \in {"new", "connected", "hello"} => ~isTerminated
    /\ caller \in {"none", "viewport", "serving", "ended"}
    /\ error => isTerminated
    /\ late \in Nat
    /\ late > 0 => isTerminated /\ main \in {"loop", "gone"}

LEMMA StopInitial == Init => StopInv
BY DEF Init, StopInv

\* Handling a message is allowed by the target.
LEMMA HandleAllowed ==
    ASSUME StopInv, Handle, main \in {"body", "bitmap"}, UNCHANGED xrdpVars
    PROVE  StopInv' /\ Target!Next
<1>1. /\ late = 0 /\ main' = "loop" /\ UNCHANGED <<xrdp, caller, error, isTerminated>>
      /\ late' = IF isTerminated THEN late + 1 ELSE late
  BY DEF StopInv, Handle, xrdpVars
<1>2. StopInv'
  BY <1>1 DEF StopInv
<1>3. Thread = "running" /\ Thread' = "running"
  BY <1>1 DEF Thread
<1>4. InStop' = InStop
  BY <1>1 DEF InStop
<1> QED BY <1>1, <1>2, <1>3, <1>4 DEF Target!Next, Target!Handle

LEMMA StopStepLemma ==
    ASSUME StopInv, [Next]_vars
    PROVE  StopInv' /\ [Target!Next]_(Target!vars)
<1> USE DEF Target!vars
<1>1. CASE Start
  <2>1. /\ xrdp = "new" /\ xrdp' \in {"connected", "failed"}
        /\ UNCHANGED <<isTerminated, error, caller, main, late>>
    BY <1>1 DEF Start, mainVars
  <2>2. StopInv'
    BY <2>1 DEF StopInv
  <2> QED BY <2>1, <2>2 DEF InStop, Thread
<1>2. CASE StartMainLoop
  <2>1. /\ xrdp = "connected" /\ xrdp' = "hello" /\ main = "none" /\ main' = "loop"
        /\ ~isTerminated /\ late = 0
        /\ UNCHANGED <<isTerminated, error, caller, late>>
    BY <1>2 DEF StartMainLoop, StopInv
  <2>2. StopInv'
    BY <2>1 DEF StopInv
  <2>3. Thread = "none" /\ Thread' = "running"
    BY <2>1 DEF Thread
  <2>4. InStop' = InStop
    BY <2>1 DEF InStop
  <2> QED BY <2>1, <2>2, <2>3, <2>4 DEF Target!Next, Target!Begin
<1>3. CASE \E next \in {"viewport", "output", "serving"} :
              xrdp \in {"hello", "viewport", "output", "serving"} /\ WriteMessage(next)
  <2>1. /\ xrdp \in {"hello", "viewport", "output", "serving"}
        /\ xrdp' \in {"viewport", "output", "serving"}
        /\ UNCHANGED <<isTerminated, error, caller, main, late>>
    BY <1>3 DEF WriteMessage, mainVars
  <2>2. StopInv'
    BY <2>1 DEF StopInv
  <2> QED BY <2>1, <2>2 DEF InStop, Thread
<1>4. CASE \E from \in {"viewport", "serving"} :
              xrdp \in {"hello", "serving"} /\ Disconnected(from)
  <2>1. /\ xrdp \in {"hello", "serving"} /\ xrdp' = "join"
        /\ caller' \in {"viewport", "serving"}
        /\ ~isTerminated /\ isTerminated' = TRUE /\ ~error /\ error' = TRUE
        /\ UNCHANGED <<main, late>>
    BY <1>4 DEF Disconnected, Stop, mainVars, StopInv
  <2>2. StopInv'
    BY <2>1 DEF StopInv
  <2>3. Thread' = Thread
    BY <2>1 DEF Thread
  <2>4. ~InStop /\ InStop' = TRUE
    BY <2>1 DEF InStop
  <2> QED BY <2>1, <2>2, <2>3, <2>4 DEF Target!Next, Target!Disconnected
<1>5. CASE ModEnd
  <2>1. /\ xrdp \in {"serving", "failed"} /\ xrdp' = "join" /\ caller' = "ended"
        /\ isTerminated' = TRUE
        /\ UNCHANGED <<error, main, late>>
    BY <1>5 DEF ModEnd, Stop, mainVars
  <2>2. StopInv'
    BY <2>1 DEF StopInv
  <2>3. Thread' = Thread
    BY <2>1 DEF Thread
  <2>4. ~InStop /\ InStop' = TRUE
    BY <2>1 DEF InStop
  <2> QED BY <2>1, <2>2, <2>3, <2>4 DEF Target!Next, Target!Stop
<1>6. CASE Join
  <2>1. /\ xrdp = "join" /\ xrdp' = "disconnect" /\ main \in {"none", "gone"}
        /\ UNCHANGED <<isTerminated, error, caller, main, late>>
    BY <1>6 DEF Join, mainVars
  <2>2. StopInv'
    BY <2>1 DEF StopInv
  <2>3. Thread # "running" /\ Thread' = Thread
    BY <2>1 DEF Thread
  <2>4. InStop /\ InStop' = FALSE
    BY <2>1 DEF InStop
  <2> QED BY <2>1, <2>2, <2>3, <2>4 DEF Target!Next, Target!Return
<1>7. CASE Disconnect
  <2>1. /\ xrdp \in {"disconnect", "disconnecting"}
        /\ xrdp' \in {"disconnecting", caller}
        /\ UNCHANGED <<isTerminated, error, caller, main, late>>
    BY <1>7 DEF Disconnect, mainVars
  <2>2. StopInv'
    BY <2>1 DEF StopInv
  <2>3. Thread' = Thread
    BY <2>1 DEF Thread
  <2>4. InStop = FALSE /\ InStop' = FALSE
    BY <2>1 DEF InStop, StopInv
  <2> QED BY <2>1, <2>2, <2>3, <2>4
<1>8. CASE MainLoop
  <2>1. CASE Loop
    <3>1. /\ main = "loop"
          /\ main' = IF ~isTerminated /\ isGood THEN "ask header" ELSE "gone"
          /\ UNCHANGED <<xrdp, caller, isTerminated, error, late>>
      BY <2>1 DEF Loop, Continues, xrdpVars
    <3>2. StopInv'
      BY <3>1 DEF StopInv
    <3>3. Thread = "running" /\ Thread' \in {"running", "ended"} /\ InStop' = InStop
      BY <3>1 DEF Thread, InStop
    <3> QED BY <3>1, <3>2, <3>3 DEF Target!Next, Target!End
  <2>2. CASE /\ main \in {"ask header", "header", "ask body", "body", "ask bitmap"}
             /\ main' \in {"header", "ask body", "body", "ask bitmap", "bitmap"}
             /\ UNCHANGED <<late, xrdpVars>>
    <3>1. StopInv'
      BY <2>2 DEF StopInv, xrdpVars
    <3>2. Thread' = Thread
      BY <2>2 DEF Thread
    <3> QED BY <2>2, <3>1, <3>2 DEF InStop, xrdpVars
  <2>3. CASE GotBitmap
    BY <2>3, HandleAllowed DEF GotBitmap
  <2>4. CASE GotBody
    BY <2>2, <2>4, HandleAllowed DEF GotBody
  <2>5. CASE GotHeader \/ Ask("ask header", HeaderSize, "header")
             \/ Ask("ask body", BodySize, "body")
             \/ Ask("ask bitmap", BitmapSize, "bitmap")
    BY <2>2, <2>5 DEF GotHeader, Ask
  <2> QED BY <1>8, <2>1, <2>3, <2>4, <2>5 DEF MainLoop
<1>9. CASE UNCHANGED <<xrdpVars, main, late>>
  BY <1>9 DEF StopInv, xrdpVars, InStop, Thread
<1>10. CASE PeerSend \/ Connection \/ UNCHANGED vars
  BY <1>9, <1>10 DEF PeerSend, Connection, vars, mainVars
<1>11. CASE SendHello \/ SetViewport \/ SetOutputSuppression \/ HandleEvent
  BY <1>3, <1>4, <1>11 DEF SendHello, SetViewport, SetOutputSuppression, HandleEvent
<1> QED BY <1>1, <1>2, <1>5, <1>6, <1>7, <1>8, <1>10, <1>11 DEF Next, StopStep

\* The client keeps its promise to the target: one thread calls back, for one
\* message at most after stop() was called and for none after it has returned.
THEOREM ClientImplementsTarget == Spec => ImplementsTarget
<1>1. Init => Target!Init
  BY DEF Init, Target!Init, InStop, Thread
<1> QED BY StopInitial, StopStepLemma, <1>1, PTL
        DEF Spec, ImplementsTarget, Target!Spec
----------------------------------------------------------------------------
(* The connection: every step here is one of it or leaves it be, so that    *)
(* what is proved of it (IPCConnectionProofs, IPCChannelProofs) is cited.   *)

Proved == INSTANCE IPCChannelProofs WITH
    Sizes <- {HeaderSize, BodySize, BitmapSize},
    MaxReads <- 3 * MaxMessages + 1, MaxCloses <- 2

LEMMA ConnectionAssumed == Proved!IPCAssumption
<1>1. MaxWrites \in Nat /\ 3 * MaxMessages + 1 \in Nat
  BY ClientAssumption DEF MaxWrites
<1>2. MaxArrived \in Nat
  <2>1. HeaderSize + BodySize + BitmapSize \in Nat /\ MaxMessages \in Nat
    BY ClientAssumption
  <2>2. \A a, b \in Nat : a * b \in Nat
    OBVIOUS
  <2> QED BY <2>1, <2>2 DEF MaxArrived
<1> QED BY <1>1, <1>2, ClientAssumption DEF Proved!IPCAssumption, Proved!FaultKinds

LEMMA ConnectionInitial == Init => Proved!Init
BY DEF Init, IPC!Init, Proved!Init

\* Proved and IPC are the same specification under the same substitution.
LEMMA SameConnection ==
    [IPC!Next]_(IPC!vars) => [Proved!Next]_(Proved!vars)
BY DEF IPC!Next, IPC!Caller, IPC!Worker, IPC!Peer, IPC!Connect,
       IPC!ConnectFails, IPC!Read, IPC!Return, IPC!Write, IPC!DisconnectBegin,
       IPC!DisconnectEnd, IPC!WorkerStart, IPC!Loop, IPC!Poll, IPC!PollFails,
       IPC!WriteOk, IPC!WriteFails, IPC!WriteSkip, IPC!ReadSome, IPC!ReadEof,
       IPC!ReadError, IPC!ReadSkip, IPC!Pop, IPC!Hup, IPC!Exit, IPC!PeerSend,
       IPC!PeerCloses, IPC!PeerDrains, IPC!ReadTask, IPC!Answered, IPC!Ready,
       IPC!PollBits, IPC!CanWrite, IPC!CanRead, IPC!Popped, IPC!ReadForBytes,
       IPC!Minimum, IPC!Pos, IPC!Buffer, IPC!Junk, IPC!Filled, IPC!Advance,
       IPC!AfterRead, IPC!Remaining, IPC!Ends, IPC!vars, IPC!taskVars,
       IPC!flagVars, IPC!bufferVars, IPC!callerVars, IPC!socketVars,
       Proved!Next, Proved!Caller, Proved!Worker, Proved!Peer, Proved!Connect,
       Proved!ConnectFails, Proved!Read, Proved!Return, Proved!Write,
       Proved!DisconnectBegin, Proved!DisconnectEnd, Proved!WorkerStart,
       Proved!Loop, Proved!Poll, Proved!PollFails, Proved!WriteOk,
       Proved!WriteFails, Proved!WriteSkip, Proved!ReadSome, Proved!ReadEof,
       Proved!ReadError, Proved!ReadSkip, Proved!Pop, Proved!Hup, Proved!Exit,
       Proved!PeerSend, Proved!PeerCloses, Proved!PeerDrains, Proved!ReadTask,
       Proved!Answered, Proved!Ready, Proved!PollBits, Proved!CanWrite,
       Proved!CanRead, Proved!Popped, Proved!ReadForBytes, Proved!Minimum,
       Proved!Pos, Proved!Buffer, Proved!Junk, Proved!Filled, Proved!Advance,
       Proved!AfterRead, Proved!Remaining, Proved!Ends, Proved!vars,
       Proved!taskVars, Proved!flagVars, Proved!bufferVars, Proved!callerVars,
       Proved!socketVars

\* The threads of the client do to the connection what IPCConnection allows.
LEMMA ConnectionStep == [Next]_vars => [IPC!Next]_(IPC!vars)
<1> SUFFICES ASSUME [Next]_vars PROVE [IPC!Next]_(IPC!vars)
  OBVIOUS
<1> USE DEF IPC!Next, Alive
<1>1. CASE UNCHANGED ipcVars
  BY <1>1 DEF ipcVars, IPC!vars, IPC!taskVars, IPC!flagVars, IPC!bufferVars,
              IPC!callerVars, IPC!socketVars
<1>2. CASE Alive /\ (Start \/ StartMainLoop)
  BY <1>1, <1>2 DEF Start, StartMainLoop, IPC!Caller
<1>3. CASE Alive /\ (SendHello \/ SetViewport \/ SetOutputSuppression \/ HandleEvent)
  BY <1>1, <1>3 DEF SendHello, SetViewport, SetOutputSuppression, HandleEvent,
                    WriteMessage, Disconnected, Stop, IPC!Caller
<1>4. CASE Alive /\ (ModEnd \/ StopStep)
  BY <1>1, <1>4 DEF ModEnd, Stop, StopStep, Join, Disconnect, IPC!Caller
<1>5. CASE Alive /\ MainLoop
  <2>1. CASE Loop \/ GotHeader \/ GotBody \/ GotBitmap
    BY <1>1, <1>5, <2>1 DEF Loop, GotHeader, GotBody, GotBitmap, IPC!Caller
  <2>2. CASE Ask("ask header", HeaderSize, "header")
             \/ Ask("ask body", BodySize, "body")
             \/ Ask("ask bitmap", BitmapSize, "bitmap")
    BY <1>5, <2>2 DEF Ask, IPC!Caller
  <2> QED BY <1>5, <2>1, <2>2 DEF MainLoop
<1>6. CASE Alive /\ (PeerSend \/ Connection)
  BY <1>6 DEF PeerSend, Connection, IPC!Peer
<1>7. CASE UNCHANGED vars
  BY <1>1, <1>7 DEF vars
<1> QED BY <1>2, <1>3, <1>4, <1>5, <1>6, <1>7 DEF Next

LEMMA ConnectionIsProved == Spec => Proved!Spec
<1>1. [Next]_vars => [Proved!Next]_(Proved!vars)
  BY ConnectionStep, SameConnection
<1> QED BY ConnectionInitial, <1>1, PTL DEF Spec, Proved!Spec
----------------------------------------------------------------------------
(* The places in the stream.  StreamLength is recursive in the number of    *)
(* messages; that it is the function its equation describes is itself an    *)
(* invariant: there is one such function when nothing has been sent, and    *)
(* one for a stream with a message more when there is one without it.       *)

\* The n-th length, by the lengths before it.
Grown(f, s, n) ==
    IF n = 0 THEN 0
    ELSE f[n - 1] + HeaderSize + BodySize
             + (IF s[n] = "commit" THEN BitmapSize ELSE 0)

\* f gives the lengths of the messages s.
IsLength(f, s) == f = [n \in 0..Len(s) |-> Grown(f, s, n)]

\* The first of f's lengths.
Upto(f, k) == [n \in 0..k |-> f[n]]

LEMMA LengthIsChosen == StreamLength = CHOOSE f : IsLength(f, sent)
BY DEF StreamLength, IsLength, Grown

\* The lengths of s and of s with one message more.
LEMMA LengthRestricts ==
    ASSUME NEW s \in Seq(Kinds), NEW kind \in Kinds, NEW g,
           IsLength(g, Append(s, kind))
    PROVE  /\ IsLength(Upto(g, Len(s)), s)
           /\ g = Upto(g, Len(s) + 1)
           /\ g[Len(s) + 1] = g[Len(s)] + HeaderSize + BodySize
                                 + (IF kind = "commit" THEN BitmapSize ELSE 0)
           /\ g[0] = 0
<1> DEFINE t == Append(s, kind)
           f == [n \in 0..Len(s) |-> g[n]]
<1>1. /\ Len(s) \in Nat /\ Len(t) = Len(s) + 1 /\ t[Len(s) + 1] = kind
      /\ \A n \in 1..Len(s) : t[n] = s[n]
  BY AppendProperties
<1> HIDE DEF t
<1>2. g = [n \in 0..Len(t) |-> Grown(g, t, n)]
  BY DEF IsLength, t
<1>3. \A n \in 0..Len(t) : g[n] = Grown(g, t, n)
  BY <1>2
<1>4. ASSUME NEW n \in 0..Len(s) PROVE g[n] = Grown(f, s, n)
  <2>1. g[n] = Grown(g, t, n)
    BY <1>1, <1>3
  <2>2. CASE n = 0
    BY <2>1, <2>2 DEF Grown
  <2>3. CASE n # 0
    <3>1. t[n] = s[n] /\ n - 1 \in 0..Len(s)
      BY <1>1, <2>3
    <3>2. f[n - 1] = g[n - 1]
      BY <3>1
    <3> QED BY <2>1, <2>3, <3>1, <3>2 DEF Grown
  <2> QED BY <2>2, <2>3
<1>5. f = [n \in 0..Len(s) |-> Grown(f, s, n)]
  BY <1>4
<1>6. g = [n \in 0..(Len(s) + 1) |-> g[n]]
  <2>1. \A n \in 0..(Len(s) + 1) : g[n] = Grown(g, t, n)
    BY <1>1, <1>3
  <2> QED BY <1>1, <1>2, <2>1
<1>7. g[Len(s) + 1] = Grown(g, t, Len(s) + 1) /\ g[0] = Grown(g, t, 0)
  BY <1>1, <1>3
<1>8. Len(s) + 1 # 0 /\ Len(s) + 1 - 1 = Len(s)
  BY <1>1
<1>9. g[Len(s) + 1] = g[Len(s)] + HeaderSize + BodySize
                          + (IF kind = "commit" THEN BitmapSize ELSE 0)
  BY <1>1, <1>7, <1>8 DEF Grown
<1>10. g[0] = 0
  BY <1>7 DEF Grown
<1>11. IsLength(f, s)
  BY <1>5 DEF IsLength
<1>12. f = Upto(g, Len(s)) /\ g = Upto(g, Len(s) + 1)
  BY <1>6 DEF Upto
<1> HIDE DEF f
<1> QED BY <1>9, <1>10, <1>11, <1>12

LEMMA LengthExtends ==
    ASSUME NEW s \in Seq(Kinds), NEW kind \in Kinds, NEW f, IsLength(f, s)
    PROVE  \E g : IsLength(g, Append(s, kind))
<1> DEFINE t == Append(s, kind)
           g == [n \in 0..(Len(s) + 1) |->
                    IF n \in 0..Len(s) THEN f[n] ELSE Grown(f, t, n)]
<1>1. /\ Len(s) \in Nat /\ Len(t) = Len(s) + 1 /\ t[Len(s) + 1] = kind
      /\ \A n \in 1..Len(s) : t[n] = s[n]
  BY AppendProperties
<1> HIDE DEF t
<1>2. \A n \in 0..Len(s) : f[n] = Grown(f, s, n) /\ g[n] = f[n]
  <2>1. f = [n \in 0..Len(s) |-> Grown(f, s, n)]
    BY DEF IsLength
  <2>2. \A n \in 0..Len(s) : f[n] = Grown(f, s, n)
    BY <2>1
  <2>3. \A n \in 0..Len(s) : g[n] = f[n]
    BY <1>1
  <2> QED BY <2>2, <2>3
<1>3. ASSUME NEW n \in 0..Len(t) PROVE g[n] = Grown(g, t, n)
  <2>1. CASE n = 0
    <3>1. g[0] = Grown(f, s, 0)
      <4>1. 0 \in 0..Len(s)
        BY <1>1
      <4> HIDE DEF g
      <4> QED BY <1>2, <4>1
    <3> HIDE DEF g
    <3> QED BY <2>1, <3>1 DEF Grown
  <2>2. CASE n \in 1..Len(s)
    <3>1. n \in 0..Len(s) /\ n - 1 \in 0..Len(s) /\ n # 0 /\ t[n] = s[n]
      BY <1>1, <2>2
    <3>2. g[n] = Grown(f, s, n) /\ g[n - 1] = f[n - 1]
      BY <1>2, <3>1
    <3> HIDE DEF g
    <3> QED BY <3>1, <3>2 DEF Grown
  <2>3. CASE n = Len(s) + 1
    <3>1. n \notin 0..Len(s) /\ n - 1 \in 0..Len(s) /\ n # 0
          /\ n \in 0..(Len(s) + 1)
      BY <1>1, <2>3
    <3>2. g[n] = Grown(f, t, n) /\ g[n - 1] = f[n - 1]
      BY <1>2, <3>1
    <3> HIDE DEF g
    <3> QED BY <3>1, <3>2 DEF Grown
  <2> QED BY <1>1, <2>1, <2>2, <2>3
<1>4. g = [n \in 0..Len(t) |-> g[n]]
  BY <1>1
<1> HIDE DEF g
<1>5. g = [n \in 0..Len(t) |-> Grown(g, t, n)]
  BY <1>3, <1>4
<1> QED BY <1>5 DEF IsLength, t

\* No two functions give the lengths of a stream.
LEMMA LengthIsUnique ==
    ASSUME NEW s \in Seq(Kinds), NEW kind \in Kinds,
           \A f, g : IsLength(f, s) /\ IsLength(g, s) => f = g
    PROVE  \A f, g : IsLength(f, Append(s, kind)) /\ IsLength(g, Append(s, kind))
                        => f = g
<1> SUFFICES ASSUME NEW f, NEW g, IsLength(f, Append(s, kind)),
                    IsLength(g, Append(s, kind))
             PROVE  f = g
  OBVIOUS
<1>1. Len(s) \in Nat
  OBVIOUS
<1>2. Upto(f, Len(s)) = Upto(g, Len(s))
  <2>1. IsLength(Upto(f, Len(s)), s)
    BY LengthRestricts
  <2>2. IsLength(Upto(g, Len(s)), s)
    BY LengthRestricts
  <2> QED BY <2>1, <2>2
<1>3. \A n \in 0..Len(s) : f[n] = g[n]
  <2> TAKE n \in 0..Len(s)
  <2>1. Upto(f, Len(s))[n] = Upto(g, Len(s))[n]
    BY <1>2
  <2> QED BY <2>1 DEF Upto
<1>4. f[Len(s) + 1] = g[Len(s) + 1]
  <2>1. f[Len(s)] = g[Len(s)]
    BY <1>1, <1>3
  <2> DEFINE more == IF kind = "commit" THEN BitmapSize ELSE 0
  <2>2. f[Len(s) + 1] = f[Len(s)] + HeaderSize + BodySize + more
    BY LengthRestricts
  <2>3. g[Len(s) + 1] = g[Len(s)] + HeaderSize + BodySize + more
    BY LengthRestricts
  <2> QED BY <2>1, <2>2, <2>3
<1>5. \A n \in 0..(Len(s) + 1) : f[n] = g[n]
  BY <1>1, <1>3, <1>4
<1>6. f = Upto(f, Len(s) + 1) /\ g = Upto(g, Len(s) + 1)
  BY LengthRestricts
<1>7. Upto(f, Len(s) + 1) = Upto(g, Len(s) + 1)
  BY <1>5 DEF Upto
<1> QED BY <1>6, <1>7

StreamInv ==
    /\ sent \in Seq(Kinds)
    /\ \E f : IsLength(f, sent)
    /\ \A f, g : IsLength(f, sent) /\ IsLength(g, sent) => f = g
    /\ StreamLength[0] = 0
    /\ \A i \in 0..Len(sent) : StreamLength[i] \in Nat
    /\ \A i, j \in 0..Len(sent) : i < j => StreamLength[i] < StreamLength[j]

LEMMA StreamInitial == Init => StreamInv
<1> SUFFICES ASSUME Init PROVE StreamInv
  OBVIOUS
<1>1. sent = <<>> /\ sent \in Seq(Kinds) /\ Len(sent) = 0
  BY DEF Init
<1> DEFINE z == [n \in 0..0 |-> 0]
<1>2. ASSUME NEW f PROVE IsLength(f, sent) <=> f = z
  <2>1. [n \in 0..Len(sent) |-> Grown(f, sent, n)] = z
    BY <1>1 DEF Grown
  <2> QED BY <2>1 DEF IsLength
<1>3. IsLength(z, sent)
  BY <1>2
<1>4. IsLength(StreamLength, sent)
  BY <1>3, LengthIsChosen
<1>5. StreamLength = z
  BY <1>2, <1>4
<1>6. \A i \in 0..Len(sent) : i = 0 /\ StreamLength[i] = 0
  BY <1>1, <1>5
<1>7. \A f, g : IsLength(f, sent) /\ IsLength(g, sent) => f = g
  BY <1>2
<1> HIDE DEF z
<1> QED BY <1>1, <1>3, <1>6, <1>7 DEF StreamInv

\* How long a message is.
LEMMA LengthAt ==
    ASSUME StreamInv, NEW i \in 1..Len(sent)
    PROVE  StreamLength[i] = StreamLength[i - 1] + HeaderSize + BodySize
                                + (IF sent[i] = "commit" THEN BitmapSize ELSE 0)
<1>1. IsLength(StreamLength, sent)
  BY LengthIsChosen DEF StreamInv
<1>2. StreamLength = [n \in 0..Len(sent) |-> Grown(StreamLength, sent, n)]
  BY <1>1 DEF IsLength
<1>3. i \in 0..Len(sent) /\ i # 0
  BY DEF StreamInv
<1>4. StreamLength[i] = Grown(StreamLength, sent, i)
  BY <1>2, <1>3
<1> QED BY <1>3, <1>4 DEF Grown

\* A message more leaves the places of the others as they were.
LEMMA StreamGrows ==
    ASSUME StreamInv, NEW kind \in Kinds, sent' = Append(sent, kind)
    PROVE  /\ StreamInv'
           /\ Len(sent') = Len(sent) + 1 /\ Len(sent) \in Nat
           /\ \A i \in 1..Len(sent) : sent'[i] = sent[i]
           /\ \A i \in 0..Len(sent) : StreamLength'[i] = StreamLength[i]
           /\ StreamLength'[Len(sent) + 1] > StreamLength[Len(sent)]
<1> DEFINE L == StreamLength
           M == StreamLength'
           more == IF kind = "commit" THEN BitmapSize ELSE 0
<1>1. /\ sent \in Seq(Kinds) /\ sent' \in Seq(Kinds) /\ Len(sent) \in Nat
      /\ Len(sent') = Len(sent) + 1
      /\ \A i \in 1..Len(sent) : sent'[i] = sent[i]
  BY AppendProperties DEF StreamInv
<1>2. IsLength(L, sent)
  BY LengthIsChosen DEF StreamInv
<1>3. \E f : IsLength(f, sent')
  BY <1>1, <1>2, LengthExtends
<1>4. M = CHOOSE f : IsLength(f, sent')
  BY DEF StreamLength, IsLength, Grown
<1>5. IsLength(M, sent')
  BY <1>3, <1>4
<1> HIDE DEF L, M
<1>6. \A f, g : IsLength(f, sent') /\ IsLength(g, sent') => f = g
  BY <1>1, LengthIsUnique DEF StreamInv
<1>7. IsLength(M, Append(sent, kind))
  BY <1>5
<1>8. /\ IsLength(Upto(M, Len(sent)), sent)
      /\ M[Len(sent) + 1] = M[Len(sent)] + HeaderSize + BodySize + more
      /\ M[0] = 0
  BY <1>1, <1>7, LengthRestricts
<1>9. Upto(M, Len(sent)) = L
  BY <1>2, <1>8 DEF StreamInv
<1>10. \A i \in 0..Len(sent) : M[i] = L[i]
  BY <1>9 DEF Upto
<1>11. more \in Nat
  BY ClientAssumption
<1>12. M[Len(sent) + 1] \in Nat /\ M[Len(sent) + 1] > L[Len(sent)]
  <2>1. L[Len(sent)] \in Nat /\ M[Len(sent)] = L[Len(sent)]
    BY <1>1, <1>10 DEF StreamInv, L
  <2> HIDE DEF more
  <2> QED BY <1>8, <1>11, <2>1, ClientAssumption
<1>13. \A i \in 0..Len(sent') : M[i] \in Nat
  BY <1>1, <1>10, <1>12 DEF StreamInv, L
<1>14. ASSUME NEW i \in 0..Len(sent'), NEW j \in 0..Len(sent'), i < j
       PROVE  M[i] < M[j]
  <2>1. i \in 0..Len(sent)
    BY <1>1, <1>14
  <2>2. CASE j \in 0..Len(sent)
    BY <1>10, <1>14, <2>1, <2>2 DEF StreamInv, L
  <2>3. CASE j = Len(sent) + 1
    <3>1. L[i] \in Nat /\ L[Len(sent)] \in Nat /\ M[i] = L[i]
      BY <1>1, <1>10, <2>1 DEF StreamInv, L
    <3>2. L[i] <= L[Len(sent)]
      <4>1. CASE i = Len(sent)
        BY <3>1, <4>1
      <4>2. CASE i < Len(sent)
        <5>1. L[i] < L[Len(sent)]
          BY <1>1, <2>1, <4>2 DEF StreamInv, L
        <5> QED BY <3>1, <5>1
      <4> QED BY <1>1, <2>1, <4>1, <4>2
    <3> QED BY <1>12, <2>3, <3>1, <3>2
  <2> QED BY <1>1, <2>2, <2>3
<1>15. StreamInv'
  BY <1>1, <1>3, <1>6, <1>8, <1>13, <1>14 DEF StreamInv, M, IsLength, Grown
<1> QED BY <1>1, <1>10, <1>12, <1>15 DEF L, M
----------------------------------------------------------------------------
(* What mainLoop() does with the stream.  The property speaks of what has   *)
(* been handled; on the way there it is the place in the stream, known from *)
(* the reads asked for, that makes a header the header of the next message. *)

View == Proved!CallerView

\* Nothing is being read, and the reads so far end `off` bytes into the message
\* that comes after those handled.
Between(off) ==
    /\ reader = "idle"
    /\ Proved!LastByte(Len(asked)) = StreamLength[Len(handled)] + off

\* The last read asked is for the `size` bytes from that place on.
Reads(size, off) ==
    /\ Len(asked) # 0 /\ Len(answers) >= Len(asked) - 1
    /\ asked[Len(asked)] = size
    /\ Proved!LastByte(Len(asked) - 1) = StreamLength[Len(handled)] + off

\* mainLoop() has the header of the message that comes after those handled.
InMessage ==
    Len(handled) < Len(sent) /\ header = sent[Len(handled) + 1]

MainInv ==
    /\ handled \in Seq(Kinds)
    /\ arrived <= StreamLength[Len(sent)]
    /\ HandledInOrder
    /\ main \in {"none", "loop", "ask header", "gone"} => Between(0)
    /\ main = "header" => Reads(HeaderSize, 0)
    /\ main = "ask body" => InMessage /\ Between(HeaderSize)
    /\ main = "body" => InMessage /\ Reads(BodySize, HeaderSize)
    /\ main = "ask bitmap" => /\ InMessage /\ header = "commit"
                              /\ Between(HeaderSize + BodySize)
    /\ main = "bitmap" => /\ InMessage /\ header = "commit"
                          /\ Reads(BitmapSize, HeaderSize + BodySize)

LEMMA MainInitial == Init => MainInv
<1> SUFFICES ASSUME Init PROVE MainInv
  OBVIOUS
<1>1. StreamLength[0] = 0
  BY StreamInitial DEF StreamInv
<1>2. /\ Len(handled) = 0 /\ Len(sent) = 0 /\ Len(asked) = 0 /\ handled \in Seq(Kinds)
      /\ main = "none" /\ reader = "idle" /\ arrived = 0 /\ consumed = 0
  BY DEF Init, IPC!Init
<1>3. Proved!LastByte(0) = 0
  BY DEF Proved!LastByte
<1> QED BY <1>1, <1>2, <1>3 DEF MainInv, HandledInOrder, Between

\* The answer to the last read, as the connection promises it.
LEMMA AnswerToRead ==
    ASSUME View, IPC!Return, Len(asked) # 0
    PROVE  /\ Len(answers) = Len(asked)
           /\ Received = IPC!Slice(Proved!LastByte(Len(asked) - 1),
                                   asked[Len(asked)])
           /\ Proved!LastByte(Len(asked))
                  = Proved!LastByte(Len(asked) - 1) + asked[Len(asked)]
           /\ Proved!LastByte(Len(asked)) <= consumed
<1>1. /\ Len(asked) \in Nat /\ Len(answers) \in 0..Len(asked)
      /\ \A i \in 1..Len(answers) :
            /\ answers[i].promise = i
            /\ answers[i].data = Proved!Slice(Proved!LastByte(i - 1), asked[i])
            /\ Proved!LastByte(i) = Proved!LastByte(i - 1) + asked[i]
      /\ Proved!LastByte(Len(answers)) <= consumed
  BY DEF View, Proved!CallerView
<1>2. \E i \in 1..Len(answers) : answers[i].promise = Len(asked)
  BY DEF IPC!Return, IPC!Answered
<1>3. Len(answers) = Len(asked) /\ Len(asked) \in 1..Len(answers)
  BY <1>1, <1>2
<1>4. (CHOOSE i \in 1..Len(answers) : answers[i].promise = Len(asked)) = Len(asked)
  BY <1>1, <1>2
<1>5. Received = answers[Len(asked)].data
  BY <1>4 DEF Received
<1> QED BY <1>1, <1>3, <1>5 DEF IPC!Slice, Proved!Slice

\* Two stretches of the stream are the same only if they begin together.
LEMMA SliceTells ==
    ASSUME NEW a \in Nat, NEW b \in Nat,
           IPC!Slice(a, HeaderSize) = IPC!Slice(b, HeaderSize)
    PROVE  a = b
<1>1. 1 \in 1..HeaderSize
  BY ClientAssumption
<1>2. IPC!Slice(a, HeaderSize)[1] = a + 1 /\ IPC!Slice(b, HeaderSize)[1] = b + 1
  BY <1>1 DEF IPC!Slice
<1> QED BY <1>2

\* The header read at the place where a message begins is that message's.
LEMMA GotHeaderOfNext ==
    ASSUME View, StreamInv, MainInv, GotHeader
    PROVE  /\ Len(handled) < Len(sent) /\ header' = sent[Len(handled) + 1]
           /\ Proved!LastByte(Len(asked)) = StreamLength[Len(handled)] + HeaderSize
<1> DEFINE n == Len(handled)
           at == StreamLength[n]
<1>1. /\ n \in Nat /\ Len(sent) \in Nat /\ n <= Len(sent) /\ n \in 0..Len(sent)
      /\ at \in Nat /\ StreamLength[Len(sent)] \in Nat
  <2>1. handled \in Seq(Kinds) /\ sent \in Seq(Kinds) /\ n <= Len(sent)
    BY DEF MainInv, HandledInOrder, StreamInv
  <2>2. n \in Nat /\ Len(sent) \in Nat
    BY <2>1
  <2>3. n \in 0..Len(sent) /\ Len(sent) \in 0..Len(sent)
    BY <2>1, <2>2
  <2> QED BY <2>1, <2>2, <2>3 DEF StreamInv
<1>2. Reads(HeaderSize, 0) /\ IPC!Return /\ header' \in Announced(Received)
  BY DEF GotHeader, MainInv
<1>3. /\ Proved!LastByte(Len(asked) - 1) = at
      /\ asked[Len(asked)] = HeaderSize /\ Len(asked) # 0
  BY <1>1, <1>2 DEF Reads
<1>4. /\ Received = IPC!Slice(at, HeaderSize)
      /\ Proved!LastByte(Len(asked)) = at + HeaderSize
      /\ at + HeaderSize <= consumed
  BY <1>2, <1>3, AnswerToRead
<1>5. n < Len(sent)
  <2>1. /\ consumed <= arrived /\ arrived <= StreamLength[Len(sent)]
        /\ consumed \in Nat /\ arrived \in Nat
    <3>1. consumed <= arrived /\ consumed \in Nat /\ arrived \in 0..MaxArrived
      BY DEF View, Proved!CallerView
    <3>2. MaxArrived \in Nat
      BY ConnectionAssumed DEF Proved!IPCAssumption
    <3>3. arrived \in Nat
      BY <3>1, <3>2
    <3> QED BY <3>1, <3>3 DEF MainInv
  <2>2. at < StreamLength[Len(sent)]
    BY <1>1, <1>4, <2>1, ClientAssumption
  <2> QED BY <1>1, <2>2
<1>6. {i \in 1..Len(sent) : Received = IPC!Slice(StreamLength[i - 1], HeaderSize)}
          = {n + 1}
  <2>1. n + 1 \in 1..Len(sent) /\ (n + 1) - 1 = n
    BY <1>1, <1>5
  <2>2. ASSUME NEW i \in 1..Len(sent),
               Received = IPC!Slice(StreamLength[i - 1], HeaderSize)
        PROVE  i = n + 1
    <3>1. i - 1 \in 0..Len(sent) /\ StreamLength[i - 1] \in Nat
      BY <1>1 DEF StreamInv
    <3>2. StreamLength[i - 1] = at
      BY <1>1, <1>4, <2>2, <3>1, SliceTells
    <3>3. ~(i - 1 < n) /\ ~(n < i - 1)
      BY <1>1, <3>1, <3>2 DEF StreamInv
    <3> QED BY <1>1, <3>1, <3>3
  <2>3. Received = IPC!Slice(StreamLength[(n + 1) - 1], HeaderSize)
    BY <1>4, <2>1
  <2> QED BY <2>1, <2>2, <2>3
<1>7. Announced(Received) = {sent[n + 1]}
  BY <1>6 DEF Announced
<1> QED BY <1>2, <1>4, <1>5, <1>7

\* The bytes read(2) has returned are never fewer, and no answer is taken back.
LEMMA WorkerAdds ==
    ASSUME View, IPC!Worker
    PROVE  /\ UNCHANGED <<owner, reader, asked, arrived>>
           /\ consumed' >= consumed
           /\ answers' = answers \/ \E one : answers' = Append(answers, one)
<1>1. consumed \in Nat
  BY DEF View, Proved!CallerView
<1>2. UNCHANGED <<owner, reader, asked, arrived>>
  BY DEF IPC!Worker, IPC!WorkerStart, IPC!Loop, IPC!Poll, IPC!PollFails,
         IPC!WriteOk, IPC!WriteFails, IPC!WriteSkip, IPC!ReadSome, IPC!ReadEof,
         IPC!ReadError, IPC!ReadSkip, IPC!Pop, IPC!Hup, IPC!Exit,
         IPC!callerVars, IPC!socketVars
<1>3. ASSUME NEW b, NEW pos, IPC!Advance(b, pos)
      PROVE  answers' = answers \/ \E one : answers' = Append(answers, one)
  BY <1>3 DEF IPC!Advance
<1>4. CASE IPC!ReadSome
  <2>1. PICK got \in 1..IPC!Minimum(IPC!ReadForBytes, arrived - consumed) :
            /\ consumed' = consumed + got
            /\ IPC!Advance(IPC!Filled(IPC!Buffer, IPC!Pos, got), IPC!Pos + got)
    BY <1>4 DEF IPC!ReadSome
  <2> QED BY <1>1, <1>2, <1>3, <2>1
<1>5. CASE IPC!ReadEof \/ IPC!ReadError
  <2>1. consumed' = consumed
    BY <1>5 DEF IPC!ReadEof, IPC!ReadError, IPC!socketVars
  <2>2. answers' = answers \/ \E b, pos : IPC!Advance(b, pos)
    BY <1>5 DEF IPC!ReadEof, IPC!ReadError
  <2> QED BY <1>1, <1>2, <1>3, <2>1, <2>2
<1>6. CASE consumed' = consumed /\ answers' = answers
  BY <1>1, <1>2, <1>6
<1> QED BY <1>4, <1>5, <1>6
        DEF IPC!Worker, IPC!WorkerStart, IPC!Loop, IPC!Poll, IPC!PollFails,
            IPC!WriteOk, IPC!WriteFails, IPC!WriteSkip, IPC!ReadSkip, IPC!Pop,
            IPC!Hup, IPC!Exit, IPC!socketVars

\* So the reads that have been answered keep their places.
LEMMA PlacesStay ==
    ASSUME View, answers' = answers \/ \E one : answers' = Append(answers, one)
    PROVE  /\ Len(answers) \in Nat /\ Len(answers') >= Len(answers)
           /\ \A i \in 0..Len(answers) : Proved!LastByte(i)' = Proved!LastByte(i)
<1>1. answers \in Seq(Proved!Answer) /\ Len(answers) \in Nat
  BY DEF View, Proved!CallerView
<1>2. CASE answers' = answers
  BY <1>1, <1>2 DEF Proved!LastByte
<1>3. CASE \E one : answers' = Append(answers, one)
  <2>1. PICK one : answers' = Append(answers, one)
    BY <1>3
  <2>2. answers \in Seq(Proved!Answer \cup {one}) /\ one \in Proved!Answer \cup {one}
    BY <1>1
  <2>3. /\ Len(answers') = Len(answers) + 1
        /\ \A i \in 1..Len(answers) : answers'[i] = answers[i]
    BY <2>1, <2>2, AppendProperties
  <2> QED BY <1>1, <2>3 DEF Proved!LastByte
<1> QED BY <1>2, <1>3

\* A step that mainLoop() has no part in leaves it where it was.
LEMMA MainKeeps ==
    ASSUME View, MainInv, StreamInv,
           UNCHANGED <<main, header, handled, asked, reader>>,
           consumed' \in Nat, consumed' >= consumed,
           answers' = answers \/ \E one : answers' = Append(answers, one),
           Len(sent') \in Nat, Len(sent') >= Len(sent),
           \A i \in 1..Len(sent) : sent'[i] = sent[i],
           \A i \in 0..Len(sent) : StreamLength'[i] = StreamLength[i],
           arrived' <= StreamLength'[Len(sent')]
    PROVE  MainInv'
<1> DEFINE n == Len(handled)
<1>1. /\ handled \in Seq(Kinds) /\ sent \in Seq(Kinds) /\ n <= Len(sent)
      /\ \A i \in 1..n : handled[i] = sent[i]
      /\ StreamLength[n] <= consumed
  BY DEF MainInv, HandledInOrder, StreamInv
<1>2. /\ n \in Nat /\ Len(sent) \in Nat /\ n \in 0..Len(sent)
      /\ handled' = handled /\ n' = n
      /\ StreamLength'[n] = StreamLength[n] /\ StreamLength[n] \in Nat
  <2>1. n \in Nat /\ Len(sent) \in Nat
    BY <1>1
  <2> QED BY <1>1, <2>1 DEF StreamInv
<1>3. HandledInOrder'
  <2>1. consumed \in Nat
    BY DEF View, Proved!CallerView
  <2>2. \A i \in 1..n : handled'[i] = sent'[i]
    BY <1>1, <1>2
  <2> QED BY <1>1, <1>2, <2>1, <2>2 DEF HandledInOrder
<1>4. /\ Len(asked) \in Nat /\ Len(answers) <= Len(asked)
      /\ reader = "idle" => Len(answers) = Len(asked)
      /\ Len(answers) \in Nat /\ Len(answers') \in Nat
      /\ Len(answers') >= Len(answers)
      /\ \A i \in 0..Len(answers) : Proved!LastByte(i)' = Proved!LastByte(i)
  <2>1. Len(answers') \in Nat
    <3>1. answers \in Seq(Proved!Answer)
      BY DEF View, Proved!CallerView
    <3>2. CASE \E one : answers' = Append(answers, one)
      <4>1. PICK one : answers' = Append(answers, one)
        BY <3>2
      <4>2. answers \in Seq(Proved!Answer \cup {one}) /\ one \in Proved!Answer \cup {one}
        BY <3>1
      <4> QED BY <4>1, <4>2, AppendProperties
    <3> QED BY <3>1, <3>2
  <2> QED BY <2>1, PlacesStay DEF View, Proved!CallerView
<1>5. ASSUME NEW off, Between(off) PROVE Between(off)'
  <2>1. reader = "idle" /\ Proved!LastByte(Len(asked)) = StreamLength[n] + off
    BY <1>5 DEF Between
  <2>2. Proved!LastByte(Len(asked))' = Proved!LastByte(Len(asked))
    BY <1>4, <2>1
  <2> QED BY <1>2, <2>1, <2>2 DEF Between
<1>6. ASSUME NEW size, NEW off, Reads(size, off) PROVE Reads(size, off)'
  <2>1. /\ Len(asked) # 0 /\ Len(answers) >= Len(asked) - 1 /\ asked[Len(asked)] = size
        /\ Proved!LastByte(Len(asked) - 1) = StreamLength[n] + off
    BY <1>6 DEF Reads
  <2>2. Len(asked) - 1 \in 0..Len(answers) /\ asked' = asked
    BY <1>4, <2>1
  <2>3. Proved!LastByte(Len(asked) - 1)' = Proved!LastByte(Len(asked) - 1)
    BY <1>4, <2>2
  <2> QED BY <1>2, <1>4, <2>1, <2>2, <2>3 DEF Reads
<1>7. InMessage => InMessage'
  BY <1>1, <1>2 DEF InMessage
<1> HIDE DEF n
<1> QED BY <1>2, <1>3, <1>5, <1>6, <1>7 DEF MainInv

\* The stream, in a step that sends nothing of a new message.
LEMMA StreamStays ==
    ASSUME StreamInv, sent' = sent
    PROVE  StreamInv' /\ StreamLength' = StreamLength
<1>1. StreamLength' = StreamLength
  BY DEF StreamLength
<1> QED BY <1>1 DEF StreamInv, IsLength, Grown

LEMMA StreamStep == StreamInv /\ [Next]_vars => StreamInv'
<1> SUFFICES ASSUME StreamInv, [Next]_vars PROVE StreamInv'
  OBVIOUS
<1>1. CASE \E kind \in Kinds : sent' = Append(sent, kind)
  BY <1>1, StreamGrows
<1>2. CASE sent' = sent
  BY <1>2, StreamStays
<1>3. CASE PeerSend
  BY <1>1, <1>2, <1>3 DEF PeerSend
<1>4. CASE ~PeerSend
  BY <1>2, <1>4
     DEF Next, Start, StartMainLoop, WriteMessage, SendHello, Disconnected, Stop,
         SetViewport, SetOutputSuppression, HandleEvent, ModEnd, StopStep, Join,
         Disconnect, MainLoop, Loop, Ask, GotHeader, GotBody, GotBitmap,
         Connection, vars
<1> QED BY <1>3, <1>4

\* A read asked for at the place reached.
LEMMA AskReads ==
    ASSUME View, StreamInv, NEW size \in Nat, NEW off, IPC!Read(size),
           UNCHANGED <<sent, handled>>, Between(off)
    PROVE  Reads(size, off)'
<1>1. /\ asked \in Seq({HeaderSize, BodySize, BitmapSize})
      /\ Len(asked) \in Nat /\ Len(answers) = Len(asked)
      /\ Proved!LastByte(Len(asked)) = StreamLength[Len(handled)] + off
  BY DEF View, Proved!CallerView, Between
<1>2. asked' = Append(asked, size) /\ answers' = answers
  BY DEF IPC!Read
<1>3. asked \in Seq(Nat)
  BY <1>1, ClientAssumption
<1>4. Len(asked') = Len(asked) + 1 /\ asked'[Len(asked) + 1] = size
  BY <1>2, <1>3, AppendProperties
<1>5. StreamLength' = StreamLength
  BY StreamStays
<1>6. Proved!LastByte(Len(asked) - 1)' = Proved!LastByte(Len(asked))
  BY <1>1, <1>2, <1>4 DEF Proved!LastByte
<1> QED BY <1>1, <1>2, <1>4, <1>5, <1>6 DEF Reads

\* The message handled is the next one, and all of it has been read.
LEMMA HandledNext ==
    ASSUME View, StreamInv, MainInv, Handle, IPC!Return, InMessage,
           Len(asked) # 0, UNCHANGED sent,
           Proved!LastByte(Len(asked)) = StreamLength[Len(handled) + 1]
    PROVE  MainInv'
<1> DEFINE n == Len(handled)
<1>1. /\ handled \in Seq(Kinds) /\ sent \in Seq(Kinds) /\ n < Len(sent)
      /\ header = sent[n + 1] /\ \A i \in 1..n : handled[i] = sent[i]
  BY DEF MainInv, HandledInOrder, StreamInv, InMessage
<1>2. n \in Nat /\ Len(sent) \in Nat /\ n + 1 \in 1..Len(sent)
  <2>1. n \in Nat /\ Len(sent) \in Nat
    BY <1>1
  <2> QED BY <1>1, <2>1
<1>3. header \in Kinds
  BY <1>1, <1>2
<1>4. /\ handled' = Append(handled, header) /\ main' = "loop" /\ reader' = "idle"
      /\ UNCHANGED <<asked, answers, consumed, arrived>>
  BY DEF Handle, IPC!Return, IPC!socketVars
<1>5. /\ handled' \in Seq(Kinds) /\ Len(handled') = n + 1
      /\ handled'[n + 1] = header
      /\ \A i \in 1..n : handled'[i] = handled[i]
  BY <1>1, <1>3, <1>4, AppendProperties
<1>6. StreamLength' = StreamLength
  BY StreamStays
<1>7. Proved!LastByte(Len(asked)) <= consumed
  BY AnswerToRead
<1>8. HandledInOrder'
  <2>1. \A i \in 1..(n + 1) : handled'[i] = sent'[i]
    BY <1>1, <1>2, <1>5
  <2> QED BY <1>2, <1>4, <1>5, <1>6, <1>7, <2>1 DEF HandledInOrder
<1>9. Between(0)'
  <2>1. StreamLength[n + 1] \in Nat
    BY <1>2 DEF StreamInv
  <2>2. Proved!LastByte(Len(asked))' = Proved!LastByte(Len(asked))
    BY <1>4 DEF Proved!LastByte
  <2> QED BY <1>4, <1>5, <1>6, <2>1, <2>2 DEF Between
<1>10. (arrived <= StreamLength[Len(sent)])'
  BY <1>4, <1>6 DEF MainInv
<1> QED BY <1>4, <1>5, <1>8, <1>9, <1>10 DEF MainInv

\* The steps of xrdp's thread, of the worker and of the projector.
LEMMA OthersKeepMain ==
    ASSUME View, View', StreamInv, StopInv, MainInv, [Next]_vars, ~MainLoop
    PROVE  MainInv'
<1>1. /\ consumed \in Nat /\ consumed' \in Nat /\ Len(sent) \in Nat
      /\ arrived <= StreamLength[Len(sent)]
  <2>1. consumed \in Nat /\ consumed' \in Nat
    BY DEF View, Proved!CallerView
  <2>2. sent \in Seq(Kinds)
    BY DEF StreamInv
  <2>3. Len(sent) \in Nat
    BY <2>2
  <2> QED BY <2>1, <2>3 DEF MainInv
<1>2. CASE StartMainLoop
  <2>1. /\ main = "none" /\ main' = "loop"
        /\ UNCHANGED <<ipcVars, header, handled, sent>>
    BY <1>2 DEF StartMainLoop, StopInv
  <2>2. StreamLength' = StreamLength
    BY <2>1, StreamStays
  <2> QED BY <2>1, <2>2
          DEF MainInv, HandledInOrder, Between, ipcVars, Proved!LastByte
<1>3. CASE /\ UNCHANGED <<main, header, handled, asked, reader, sent, arrived>>
           /\ consumed' >= consumed
           /\ answers' = answers \/ \E one : answers' = Append(answers, one)
  <2>1. StreamLength' = StreamLength
    BY <1>3, StreamStays
  <2> QED BY <1>1, <1>3, <2>1, MainKeeps
<1>4. CASE PeerSend
  <2>1. /\ UNCHANGED <<main, header, handled, asked, reader, answers, consumed>>
        /\ arrived' = arrived + 1
    BY <1>4 DEF PeerSend, IPC!PeerSend, mainVars, IPC!callerVars
  <2>2. arrived \in Nat
    BY ConnectionAssumed DEF View, Proved!CallerView, Proved!IPCAssumption
  <2>3. StreamLength[Len(sent)] \in Nat
    BY <1>1 DEF StreamInv
  <2>4. CASE arrived < StreamLength[Len(sent)] /\ UNCHANGED sent
    <3>1. StreamLength' = StreamLength
      BY <2>4, StreamStays
    <3>2. arrived' <= StreamLength'[Len(sent')]
      BY <2>1, <2>2, <2>3, <2>4, <3>1
    <3> QED BY <1>1, <2>1, <2>4, <3>1, <3>2, MainKeeps
  <2>5. CASE arrived = StreamLength[Len(sent)]
             /\ \E kind \in Kinds : sent' = Append(sent, kind)
    <3>1. PICK kind \in Kinds : sent' = Append(sent, kind)
      BY <2>5
    <3>2. /\ StreamInv' /\ Len(sent') = Len(sent) + 1
          /\ \A i \in 1..Len(sent) : sent'[i] = sent[i]
          /\ \A i \in 0..Len(sent) : StreamLength'[i] = StreamLength[i]
          /\ StreamLength'[Len(sent) + 1] > StreamLength[Len(sent)]
      BY <3>1, StreamGrows
    <3>3. StreamLength'[Len(sent')] \in Nat
      <4>1. Len(sent') \in 0..Len(sent')
        BY <1>1, <3>2
      <4>2. (\A i \in 0..Len(sent) : StreamLength[i] \in Nat)'
        BY <3>2 DEF StreamInv
      <4> QED BY <4>1, <4>2
    <3>4. arrived' <= StreamLength'[Len(sent')]
      BY <2>1, <2>2, <2>3, <2>5, <3>2, <3>3
    <3> QED BY <1>1, <2>1, <3>2, <3>4, MainKeeps
  <2> QED BY <1>4, <2>4, <2>5 DEF PeerSend
<1>5. CASE Connection
  <2>1. CASE IPC!Worker
    BY <1>3, <1>5, <2>1, WorkerAdds DEF Connection, mainVars
  <2>2. CASE IPC!PeerCloses \/ IPC!PeerDrains
    BY <1>1, <1>3, <1>5, <2>2
       DEF Connection, IPC!PeerCloses, IPC!PeerDrains, IPC!callerVars, mainVars
  <2> QED BY <1>5, <2>1, <2>2 DEF Connection
<1>6. CASE UNCHANGED <<main, header, handled, asked, reader, sent, arrived,
                       consumed, answers>>
  BY <1>1, <1>3, <1>6
<1>7. CASE Start
  BY <1>6, <1>7 DEF Start, IPC!Connect, IPC!ConnectFails, IPC!socketVars, mainVars
<1>8. CASE SendHello \/ SetViewport \/ SetOutputSuppression \/ HandleEvent
  BY <1>6, <1>8 DEF SendHello, SetViewport, SetOutputSuppression, HandleEvent,
        WriteMessage, Disconnected, Stop, IPC!Write, IPC!socketVars, mainVars,
        ipcVars
<1>9. CASE ModEnd \/ Join \/ Disconnect
  BY <1>6, <1>9 DEF ModEnd, Stop, Join, Disconnect, IPC!DisconnectBegin,
        IPC!DisconnectEnd, IPC!socketVars, mainVars, ipcVars
<1>10. CASE UNCHANGED vars
  BY <1>6, <1>10 DEF vars, mainVars, ipcVars
<1> QED BY <1>2, <1>4, <1>5, <1>7, <1>8, <1>9, <1>10 DEF Next, StopStep

\* The steps of mainLoop() itself.
LEMMA MainStep ==
    ASSUME View, View', StreamInv, MainInv, MainLoop
    PROVE  MainInv'
<1> DEFINE n == Len(handled)
<1>1. /\ HeaderSize \in Nat /\ BodySize \in Nat /\ BitmapSize \in Nat
  BY ClientAssumption
<1>2. n \in 0..Len(sent) /\ StreamLength[n] \in Nat /\ n \in Nat /\ Len(sent) \in Nat
  <2>1. handled \in Seq(Kinds) /\ sent \in Seq(Kinds) /\ n <= Len(sent)
    BY DEF MainInv, HandledInOrder, StreamInv
  <2>2. n \in Nat /\ Len(sent) \in Nat
    BY <2>1
  <2>3. n \in 0..Len(sent)
    BY <2>1, <2>2
  <2> QED BY <2>2, <2>3 DEF StreamInv
<1>3. ASSUME UNCHANGED <<handled, sent, arrived, consumed>>
      PROVE  /\ (handled \in Seq(Kinds))' /\ HandledInOrder'
             /\ (arrived <= StreamLength[Len(sent)])'
             /\ StreamLength' = StreamLength
  <2>1. StreamLength' = StreamLength
    BY <1>3, StreamStays
  <2> QED BY <1>3, <2>1 DEF MainInv, HandledInOrder
<1>4. CASE Loop
  <2>1. /\ main = "loop" /\ main' \in {"ask header", "gone"}
        /\ UNCHANGED <<ipcVars, header, handled, sent>>
    BY <1>4 DEF Loop
  <2>2. Between(0)'
    BY <1>3, <2>1 DEF MainInv, Between, ipcVars, Proved!LastByte
  <2> QED BY <1>3, <2>1, <2>2 DEF MainInv, ipcVars
<1>5. CASE Ask("ask header", HeaderSize, "header")
  <2>1. /\ main = "ask header" /\ main' = "header" /\ IPC!Read(HeaderSize)
        /\ UNCHANGED <<header, handled, sent, arrived, consumed>>
    BY <1>5 DEF Ask, IPC!Read, IPC!socketVars
  <2>2. Reads(HeaderSize, 0)'
    BY <1>1, <2>1, AskReads DEF MainInv
  <2> QED BY <1>3, <2>1, <2>2 DEF MainInv
<1>6. CASE Ask("ask body", BodySize, "body")
  <2>1. /\ main = "ask body" /\ main' = "body" /\ IPC!Read(BodySize)
        /\ UNCHANGED <<header, handled, sent, arrived, consumed>>
    BY <1>6 DEF Ask, IPC!Read, IPC!socketVars
  <2>2. Reads(BodySize, HeaderSize)'
    BY <1>1, <2>1, AskReads DEF MainInv
  <2>3. InMessage'
    BY <2>1 DEF MainInv, InMessage
  <2> QED BY <1>3, <2>1, <2>2, <2>3 DEF MainInv
<1>7. CASE Ask("ask bitmap", BitmapSize, "bitmap")
  <2>1. /\ main = "ask bitmap" /\ main' = "bitmap" /\ IPC!Read(BitmapSize)
        /\ UNCHANGED <<header, handled, sent, arrived, consumed>>
    BY <1>7 DEF Ask, IPC!Read, IPC!socketVars
  <2>2. Reads(BitmapSize, HeaderSize + BodySize)'
    BY <1>1, <2>1, AskReads DEF MainInv
  <2>3. InMessage' /\ header' = "commit"
    BY <2>1 DEF MainInv, InMessage
  <2> QED BY <1>3, <2>1, <2>2, <2>3 DEF MainInv
<1>8. CASE GotHeader
  <2>1. /\ main = "header" /\ main' = "ask body" /\ reader' = "idle"
        /\ UNCHANGED <<handled, sent, arrived, consumed, asked, answers>>
    BY <1>8 DEF GotHeader, IPC!Return, IPC!socketVars
  <2>2. /\ n < Len(sent) /\ header' = sent[n + 1]
        /\ Proved!LastByte(Len(asked)) = StreamLength[n] + HeaderSize
    BY <1>8, GotHeaderOfNext
  <2>3. Between(HeaderSize)' /\ InMessage'
    BY <1>3, <2>1, <2>2 DEF Between, InMessage, Proved!LastByte
  <2> QED BY <1>3, <2>1, <2>3 DEF MainInv
<1>9. CASE GotBody
  <2>1. /\ main = "body" /\ IPC!Return /\ reader' = "idle"
        /\ InMessage /\ Reads(BodySize, HeaderSize)
        /\ UNCHANGED <<header, sent, arrived, consumed, asked, answers>>
    BY <1>9 DEF GotBody, IPC!Return, IPC!socketVars, MainInv
  <2>2. Len(asked) # 0
        /\ Proved!LastByte(Len(asked)) = StreamLength[n] + HeaderSize + BodySize
    BY <1>1, <1>2, <2>1, AnswerToRead DEF Reads
  <2>3. n + 1 \in 1..Len(sent) /\ (n + 1) - 1 = n /\ header = sent[n + 1]
    BY <1>2, <2>1 DEF InMessage
  <2>4. CASE /\ header = "commit" /\ main' = "ask bitmap" /\ UNCHANGED handled
    <3>1. UNCHANGED <<handled, sent, arrived, consumed, asked, answers, header>>
      BY <2>1, <2>4
    <3>2. Proved!LastByte(Len(asked)) = StreamLength[n] + (HeaderSize + BodySize)
      BY <1>1, <1>2, <2>2
    <3>3. Proved!LastByte(Len(asked))' = Proved!LastByte(Len(asked))
      BY <3>1 DEF Proved!LastByte
    <3>4. StreamLength' = StreamLength /\ n' = n
      BY <1>3, <3>1
    <3>5. Between(HeaderSize + BodySize)'
      BY <2>1, <3>2, <3>3, <3>4 DEF Between
    <3>6. InMessage'
      BY <2>1, <3>1 DEF InMessage
    <3> QED BY <1>3, <2>1, <2>4, <3>1, <3>5, <3>6 DEF MainInv
  <2>5. CASE header # "commit" /\ Handle
    <3>1. StreamLength[n + 1] = StreamLength[n] + HeaderSize + BodySize + 0
      BY <2>3, <2>5, LengthAt
    <3>2. Proved!LastByte(Len(asked)) = StreamLength[n + 1]
      BY <1>1, <1>2, <2>2, <3>1
    <3> QED BY <2>1, <2>2, <2>5, <3>2, HandledNext
  <2> QED BY <1>9, <2>4, <2>5 DEF GotBody
<1>10. CASE GotBitmap
  <2>1. /\ main = "bitmap" /\ IPC!Return /\ Handle
        /\ InMessage /\ header = "commit"
        /\ Reads(BitmapSize, HeaderSize + BodySize) /\ UNCHANGED sent
    BY <1>10 DEF GotBitmap, MainInv
  <2>2. Len(asked) # 0 /\ Proved!LastByte(Len(asked))
            = StreamLength[n] + HeaderSize + BodySize + BitmapSize
    BY <1>1, <1>2, <2>1, AnswerToRead DEF Reads
  <2>3. n + 1 \in 1..Len(sent) /\ (n + 1) - 1 = n /\ header = sent[n + 1]
    BY <1>2, <2>1 DEF InMessage
  <2>4. StreamLength[n + 1] = StreamLength[n] + HeaderSize + BodySize + BitmapSize
    BY <2>1, <2>3, LengthAt
  <2> QED BY <2>1, <2>2, <2>4, HandledNext
<1> QED BY <1>4, <1>5, <1>6, <1>7, <1>8, <1>9, <1>10 DEF MainLoop

\* Whatever the projector sends and however its bytes are cut up, the target is
\* told of its messages in their order, and of none before all of it has been
\* read - unless the projector resets the connection, when read() may hand out
\* what nobody wrote.
THEOREM MessagesAreHandledInOrder ==
    ASSUME "reset" \notin Faults
    PROVE  Spec => []HandledInOrder
<1>1. Spec => []View
  BY ConnectionIsProved, ConnectionAssumed, Proved!CallersSeeTheStream, PTL
     DEF View
<1>2. StreamInv /\ [Next]_vars => StreamInv'
  BY StreamStep
<1>3. StopInv /\ [Next]_vars => StopInv'
  BY StopStepLemma
<1>4. View /\ View' /\ StreamInv /\ StopInv /\ MainInv /\ [Next]_vars => MainInv'
  BY OthersKeepMain, MainStep
<1>5. MainInv => HandledInOrder
  BY DEF MainInv
<1> QED BY StreamInitial, StopInitial, MainInitial, <1>1, <1>2, <1>3, <1>4, <1>5,
           PTL DEF Spec
============================================================================
