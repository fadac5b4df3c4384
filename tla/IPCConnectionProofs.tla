------------------------ MODULE IPCConnectionProofs ------------------------
(***************************************************************************)
(* What holds of IPCConnection for every set of sizes, every MAX_READ_SIZE *)
(* and every bound.  Under all faults: type correctness, and that promises *)
(* are set once and in order, read(2) stays within the buffer and no       *)
(* request is lost.  As long as the peer does not reset the connection:    *)
(* the order and completeness of the reads.                                *)
(***************************************************************************)
EXTENDS IPCConnection, SequenceTheorems, TLAPS

(* Type correctness is inductive together with four facts: the kernel      *)
(* gives out only what has arrived, the task being popped is there, a      *)
(* disconnect() under way has a close(2) left to count, and there is no    *)
(* worker before connect().                                                *)
TypeInv ==
    /\ TypeOK
    /\ consumed <= arrived
    /\ worker = "pop" => readTasks # <<>>
    /\ owner = "joining" => closes < MaxCloses
    /\ owner = "new" => worker = "none"

\* Storing bytes that have arrived in a buffer keeps it a buffer of bytes.
LEMMA FilledType ==
    ASSUME NEW b \in Seq(Bytes), NEW pos \in Nat, NEW got \in Nat,
           consumed \in Nat, MaxArrived \in Nat, consumed + got <= MaxArrived
    PROVE  Filled(b, pos, got) \in Seq(Bytes) /\ Len(Filled(b, pos, got)) = Len(b)
<1> DEFINE f == Filled(b, pos, got)
<1>1. Len(b) \in Nat
  OBVIOUS
<1>2. ASSUME NEW j \in 1..Len(b) PROVE f[j] \in Bytes
  <2>1. CASE pos < j /\ j <= pos + got
    BY <1>1, <1>2, <2>1 DEF Filled, Bytes
  <2>2. CASE ~(pos < j /\ j <= pos + got)
    BY <1>1, <1>2, <2>2 DEF Filled, Bytes
  <2>3. QED BY <2>1, <2>2
<1>3. f \in [1..Len(b) -> Bytes]
  BY <1>2 DEF Filled
<1>4. f \in Seq(Bytes)
  BY <1>1, <1>3
<1>5. Len(f) = Len(b)
  BY <1>1, <1>3
<1> QED BY <1>4, <1>5

\* The buffer and the position read(2) works with are a buffer and a position.
LEMMA BufferType ==
    ASSUME TypeInv, CanRead
    PROVE  /\ Head(readTasks) \in Task
           /\ Buffer \in Seq(Bytes)
           /\ Pos \in Nat
<1>1. readTasks \in Seq(Task) /\ readTasks # <<>>
  BY DEF TypeInv, TypeOK, CanRead
<1>2. Head(readTasks) \in Task
  BY <1>1
<1>3. Head(readTasks).size \in Nat
  BY <1>2, IPCAssumption DEF Task
<1>4. Junk(Head(readTasks).size) \in Seq(Bytes)
  <2>1. 0 \in Bytes
    BY IPCAssumption DEF Bytes
  <2>2. Junk(Head(readTasks).size) \in [1..Head(readTasks).size -> Bytes]
    BY <2>1 DEF Junk
  <2> QED BY <1>3, <2>2
<1>5. Buffer \in Seq(Bytes)
  BY <1>4 DEF Buffer, TypeInv, TypeOK
<1>6. Pos \in Nat
  BY DEF Pos, TypeInv, TypeOK
<1> QED BY <1>2, <1>5, <1>6

\* However far a read got, the worker's variables keep their types.
LEMMA AdvanceType ==
    ASSUME TypeInv, CanRead, NEW b \in Seq(Bytes), NEW pos \in Nat,
           Advance(b, pos)
    PROVE  /\ worker' \in {"pop", "hup"}
           /\ readPos' \in Nat
           /\ readBuffer' \in Seq(Bytes)
           /\ answers' \in Seq(Answer)
<1>1. Head(readTasks) \in Task
  BY BufferType
<1>2. [promise |-> Head(readTasks).promise, data |-> b] \in Answer
  BY <1>1 DEF Task, Answer
<1>3. answers \in Seq(Answer)
  BY DEF TypeInv, TypeOK
<1>4. answers' \in Seq(Answer)
  BY <1>2, <1>3 DEF Advance
<1> QED BY <1>4 DEF Advance, AfterRead

LEMMA TypeInit == Init => TypeInv
<1> SUFFICES ASSUME Init PROVE TypeInv
  OBVIOUS
<1> USE DEF Init
<1>1. /\ readTasks \in Seq(Task) /\ writeTasks \in Seq(1..MaxWrites)
      /\ readBuffer \in Seq(Bytes)
      /\ asked \in Seq(Sizes) /\ answers \in Seq(Answer)
      /\ wire \in Seq([piece : 1..MaxWrites, whole : BOOLEAN])
  OBVIOUS
<1>2. /\ written \in 0..MaxWrites /\ closes \in 0..MaxCloses
      /\ arrived \in Bytes /\ consumed \in Bytes /\ consumed <= arrived
      /\ readPos \in Nat
  BY IPCAssumption DEF Bytes
<1>3. /\ isGood \in BOOLEAN /\ isWorkerTerminated \in BOOLEAN
      /\ worker \in WorkerAt /\ worker = "none" /\ revents \subseteq PollBits
      /\ owner \in {"new", "connected", "failed", "closed"}
      /\ reader \in {"idle", "waiting"}
      /\ peer \in {"open", "closed", "reset"} /\ writable \in BOOLEAN
  BY DEF WorkerAt
<1> QED BY <1>1, <1>2, <1>3 DEF TypeInv, TypeOK

LEMMA CallerType == TypeInv /\ Caller => TypeInv'
<1> SUFFICES ASSUME TypeInv, Caller PROVE TypeInv'
  OBVIOUS
<1>1. CASE Connect
  BY <1>1 DEF TypeInv, TypeOK, Connect, WorkerAt, vars, taskVars, flagVars, bufferVars, callerVars, socketVars
<1>2. CASE ConnectFails
  BY <1>2 DEF TypeInv, TypeOK, ConnectFails, taskVars, flagVars, bufferVars, socketVars
<1>3. CASE \E n \in Sizes : Read(n)
  <2> PICK n \in Sizes : Read(n)
    BY <1>3
  <2>1. ReadTask(n) \in Task
    BY IPCAssumption DEF TypeInv, TypeOK, Read, ReadTask, Task
  <2>2. readTasks \in Seq(Task) /\ readTasks' = Append(readTasks, ReadTask(n))
    BY DEF TypeInv, TypeOK, Read
  <2>3. readTasks' \in Seq(Task) /\ readTasks' # <<>>
    BY <2>1, <2>2, AppendProperties
  <2>4. asked' \in Seq(Sizes)
    BY DEF TypeInv, TypeOK, Read
  <2>5. /\ owner' = owner /\ reader' \in {"idle", "waiting"}
        /\ written' = written /\ closes' = closes
        /\ worker' = worker /\ writeTasks' = writeTasks
        /\ UNCHANGED <<flagVars, revents, bufferVars, answers, socketVars>>
    BY DEF TypeInv, TypeOK, Read
  <2> QED BY <2>3, <2>4, <2>5 DEF TypeInv, TypeOK, flagVars, bufferVars, socketVars
<1>4. CASE Return
  BY <1>4 DEF TypeInv, TypeOK, Return, taskVars, flagVars, bufferVars, socketVars
<1>5. CASE Write
  <2>1. written + 1 \in 1..MaxWrites
    BY <1>5, IPCAssumption DEF TypeInv, TypeOK, Write
  <2>2. writeTasks' \in Seq(1..MaxWrites)
    BY <1>5, <2>1 DEF TypeInv, TypeOK, Write
  <2> QED BY <1>5, <2>1, <2>2 DEF TypeInv, TypeOK, Write, flagVars, bufferVars, socketVars
<1>6. CASE DisconnectBegin
  BY <1>6 DEF TypeInv, TypeOK, DisconnectBegin, taskVars, bufferVars, socketVars
<1>7. CASE DisconnectEnd
  BY <1>7, IPCAssumption
     DEF TypeInv, TypeOK, DisconnectEnd, taskVars, flagVars, bufferVars, socketVars
<1> QED
  BY <1>1, <1>2, <1>3, <1>4, <1>5, <1>6, <1>7 DEF Caller

LEMMA WorkerType == TypeInv /\ Worker => TypeInv'
<1> SUFFICES ASSUME TypeInv, Worker PROVE TypeInv'
  OBVIOUS
<1>1. CASE WorkerStart \/ Loop \/ Poll \/ PollFails \/ Hup \/ Exit
  <2>1. worker # "none" /\ worker' \in WorkerAt \ {"pop"}
    BY <1>1 DEF TypeInv, TypeOK, WorkerStart, Loop, Poll, PollFails, Hup, Exit, WorkerAt
  <2>2. isGood' \in BOOLEAN /\ revents' \subseteq PollBits
    BY <1>1 DEF TypeInv, TypeOK, WorkerStart, Loop, Poll, PollFails, Hup, Exit, flagVars
  <2>3. UNCHANGED <<taskVars, isWorkerTerminated, bufferVars, callerVars,
                    answers, socketVars>>
    BY <1>1 DEF TypeInv, TypeOK, WorkerStart, Loop, Poll, PollFails, Hup, Exit, flagVars
  <2> QED BY <2>1, <2>2, <2>3 DEF TypeInv, TypeOK, taskVars, bufferVars, callerVars, socketVars
<1>2. CASE WriteOk
  <2>0. /\ writeTasks \in Seq(1..MaxWrites) /\ writeTasks # <<>>
        /\ writeTasks' = Tail(writeTasks)
        /\ wire \in Seq([piece : 1..MaxWrites, whole : BOOLEAN])
    BY <1>2 DEF TypeInv, TypeOK, WriteOk, CanWrite, Popped
  <2>1. /\ Head(writeTasks) \in 1..MaxWrites
        /\ writeTasks' \in Seq(1..MaxWrites)
    BY <2>0, HeadTailProperties
  <2>2. PICK whole \in BOOLEAN :
            wire' = Append(wire, [piece |-> Head(writeTasks), whole |-> whole])
    BY <1>2 DEF TypeInv, TypeOK, WriteOk
  <2>3. wire' \in Seq([piece : 1..MaxWrites, whole : BOOLEAN])
    BY <2>0, <2>1, <2>2, AppendProperties
  <2>4. writable' \in BOOLEAN
    BY <1>2 DEF TypeInv, TypeOK, WriteOk
  <2> QED BY <1>2, <2>1, <2>3, <2>4
          DEF TypeInv, TypeOK, WriteOk, WorkerAt, flagVars, bufferVars, callerVars
<1>3. CASE WriteFails
  <2>1. writeTasks' \in Seq(1..MaxWrites)
    BY <1>3 DEF TypeInv, TypeOK, WriteFails, CanWrite, Popped
  <2> QED BY <1>3, <2>1
          DEF TypeInv, TypeOK, WriteFails, WorkerAt, flagVars, bufferVars, callerVars, socketVars
<1>4. CASE WriteSkip \/ ReadSkip
  BY <1>4 DEF TypeInv, TypeOK, WriteSkip, ReadSkip, WorkerAt,
              taskVars, flagVars, bufferVars, callerVars, socketVars
<1>5. CASE ReadSome
  <2>1. PICK got \in 1..Minimum(ReadForBytes, arrived - consumed) :
            /\ consumed' = consumed + got
            /\ Advance(Filled(Buffer, Pos, got), Pos + got)
    BY <1>5 DEF ReadSome
  <2>2. /\ Buffer \in Seq(Bytes)
        /\ Pos \in Nat
        /\ Head(readTasks) \in Task
    BY <1>5, BufferType DEF ReadSome
  <2>3. Head(readTasks).size \in Nat
    BY <2>2, IPCAssumption DEF Task
  <2>4. /\ consumed \in 0..MaxArrived /\ arrived \in 0..MaxArrived
        /\ consumed <= arrived
    BY DEF TypeInv, TypeOK, Bytes
  <2>5. /\ got \in Nat
        /\ consumed + got <= arrived
    BY <2>1, <2>2, <2>3, <2>4, IPCAssumption DEF Minimum, ReadForBytes
  <2>6. consumed' \in Bytes /\ consumed' <= arrived
    BY <2>1, <2>4, <2>5, IPCAssumption DEF Bytes
  <2>7. consumed \in Nat /\ MaxArrived \in Nat /\ consumed + got <= MaxArrived
    BY <2>4, <2>5, IPCAssumption
  <2>8. Filled(Buffer, Pos, got) \in Seq(Bytes)
    BY <2>2, <2>5, <2>7, FilledType
  <2>9. Pos + got \in Nat
    BY <2>2, <2>5
  <2>10. /\ worker' \in {"pop", "hup"}
        /\ readPos' \in Nat
        /\ readBuffer' \in Seq(Bytes)
        /\ answers' \in Seq(Answer)
    BY <1>5, <2>1, <2>8, <2>9, AdvanceType DEF ReadSome
  <2> QED BY <1>5, <2>6, <2>10
          DEF TypeInv, TypeOK, ReadSome, CanRead, WorkerAt, taskVars, flagVars, callerVars
<1>6. CASE ReadEof
  <2>1. Buffer \in Seq(Bytes) /\ Pos \in Nat
    BY <1>6, BufferType DEF TypeInv, TypeOK, ReadEof
  <2>2. /\ worker' \in {"pop", "hup", "exit"}
        /\ readPos' \in Nat
        /\ readBuffer' \in Seq(Bytes)
        /\ answers' \in Seq(Answer)
    BY <1>6, <2>1, AdvanceType DEF TypeInv, TypeOK, ReadEof
  <2> QED BY <1>6, <2>2
          DEF TypeInv, TypeOK, ReadEof, CanRead, WorkerAt, taskVars, flagVars, callerVars, socketVars
<1>7. CASE ReadError
  <2>1. Buffer \in Seq(Bytes) /\ Pos \in Nat
    BY <1>7, BufferType DEF TypeInv, TypeOK, ReadError
  <2>2. (Pos + SIZE_MAX) % (SIZE_MAX + 1) \in Nat
    BY <2>1, IPCAssumption
  <2>3. /\ worker' \in {"pop", "hup"}
        /\ readPos' \in Nat
        /\ readBuffer' \in Seq(Bytes)
        /\ answers' \in Seq(Answer)
    BY <1>7, <2>1, <2>2, AdvanceType DEF TypeInv, TypeOK, ReadError
  <2> QED BY <1>7, <2>3
          DEF TypeInv, TypeOK, ReadError, CanRead, WorkerAt, taskVars, flagVars, callerVars
<1>8. CASE Pop
  <2>1. readTasks' \in Seq(Task)
    BY <1>8 DEF TypeInv, TypeOK, Pop, Remaining
  <2>2. <<>> \in Seq(Bytes)
    OBVIOUS
  <2> QED BY <1>8, <2>1, <2>2 DEF TypeInv, TypeOK, Pop, WorkerAt, flagVars, callerVars, socketVars
<1> QED
  BY <1>1, <1>2, <1>3, <1>4, <1>5, <1>6, <1>7, <1>8 DEF Worker

LEMMA PeerType == TypeInv /\ Peer => TypeInv'
<1> SUFFICES ASSUME TypeInv, Peer PROVE TypeInv'
  OBVIOUS
<1>1. CASE PeerSend
  <2>1. arrived' \in Bytes /\ consumed <= arrived'
    BY <1>1, IPCAssumption DEF TypeInv, TypeOK, PeerSend, Bytes
  <2> QED BY <1>1, <2>1
          DEF TypeInv, TypeOK, PeerSend, taskVars, flagVars, bufferVars, callerVars
<1>2. CASE PeerCloses \/ PeerDrains
  BY <1>2 DEF TypeInv, TypeOK, PeerCloses, PeerDrains, taskVars, flagVars, bufferVars, callerVars
<1> QED BY <1>1, <1>2 DEF Peer

LEMMA TypeStep == TypeInv /\ [Next]_vars => TypeInv'
<1>1. TypeInv /\ UNCHANGED vars => TypeInv'
  BY DEF TypeInv, TypeOK, vars, taskVars, flagVars, bufferVars, callerVars,
         socketVars
<1> QED BY <1>1, CallerType, WorkerType, PeerType DEF Next

\* IPCConnection is type-correct under every combination of faults, among
\* them that nothing but what arrived is ever given out.
THEOREM TypeCorrect == Spec => []TypeInv
BY TypeInit, TypeStep, PTL DEF Spec

\* The invariant TypeOK of the TLC runs, for every value of the constants.
THEOREM TypeCorrectness == Spec => []TypeOK
<1>1. TypeInv => TypeOK
  BY DEF TypeInv
<1> QED BY <1>1, TypeCorrect, PTL
-----------------------------------------------------------------------------
(* The queue of reads and the buffer, under every fault.  Neither of the   *)
(* three properties below is inductive: which promise is set next depends  *)
(* on what the head of the queue is, and the room behind readPos on the    *)
(* buffer being the head's, also after a failed read(2) wrapped readPos.   *)

\* The queue holds the last reads, in order; between set_value() and pop()
\* it still holds the one just answered.
QueueInv ==
    /\ Len(readTasks) = Len(asked) - Len(answers)
                            + (IF worker = "pop" THEN 1 ELSE 0)
    /\ worker = "pop" => answers # <<>>
    /\ \A i \in 1..Len(readTasks) :
          /\ readTasks[i].size = asked[Len(asked) - Len(readTasks) + i]
          /\ readTasks[i].promise = Len(asked) - Len(readTasks) + i

\* The buffer belongs to the head of the queue, and until the worker is about
\* to pop that there is room in it.
RoomInv ==
    readBuffer # <<>> =>
        /\ readTasks # <<>>
        /\ Len(readBuffer) = Head(readTasks).size
        /\ worker # "pop" => readPos < Len(readBuffer)

TaskInv ==
    /\ TypeInv
    /\ PromisesSetOnce
    /\ QueueInv
    /\ RoomInv
    /\ reader = "waiting" => asked # <<>>

taskInvVars == <<asked, answers, readTasks, readPos, readBuffer>>

LEMMA TaskFrame ==
    ASSUME TaskInv, UNCHANGED taskInvVars, worker' = "pop" <=> worker = "pop"
    PROVE  PromisesSetOnce' /\ QueueInv' /\ RoomInv'
<1>1. UNCHANGED <<asked, answers, readTasks, readPos, readBuffer>>
  BY DEF taskInvVars
<1>2. PromisesSetOnce'
  BY <1>1 DEF TaskInv, PromisesSetOnce
<1>3. QueueInv'
  BY <1>1 DEF TaskInv, QueueInv
<1>4. RoomInv'
  BY <1>1 DEF TaskInv, RoomInv
<1> QED BY <1>2, <1>3, <1>4

\* The head of the queue, while the worker reads, is the first read that has
\* no answer yet.
LEMMA HeadOfQueue ==
    ASSUME TaskInv, worker = "read", CanRead
    PROVE  /\ Head(readTasks).size = asked[Len(answers) + 1]
           /\ Head(readTasks).promise = Len(answers) + 1
           /\ Head(readTasks).size \in Nat \ {0}
           /\ Len(answers) + 1 <= Len(asked)
<1>1. /\ readTasks \in Seq(Task) /\ readTasks # <<>>
      /\ Len(asked) \in Nat /\ Len(answers) \in Nat
  BY DEF TaskInv, TypeInv, TypeOK, CanRead
<1>2. Len(readTasks) \in Nat \ {0} /\ Head(readTasks) = readTasks[1]
  BY <1>1
<1>3. Len(asked) - Len(readTasks) = Len(answers)
  BY <1>1, <1>2 DEF TaskInv, QueueInv
<1>4. Head(readTasks) \in Task
  BY <1>1
<1>5. Head(readTasks).size \in Nat \ {0}
  BY <1>4, IPCAssumption DEF Task
<1>6. /\ readTasks[1].size = asked[Len(asked) - Len(readTasks) + 1]
      /\ readTasks[1].promise = Len(asked) - Len(readTasks) + 1
  BY <1>2 DEF TaskInv, QueueInv
<1>7. Len(answers) + 1 <= Len(asked)
  BY <1>1, <1>2, <1>3
<1> QED BY <1>2, <1>3, <1>5, <1>6, <1>7

\* The buffer read(2) works with has the size asked for, and room behind Pos.
LEMMA RoomAtRead ==
    ASSUME TaskInv, worker = "read", CanRead
    PROVE  /\ Buffer \in Seq(Bytes) /\ Pos \in Nat
           /\ Len(Buffer) = Head(readTasks).size
           /\ Pos < Head(readTasks).size
           /\ Head(readTasks).size \in Nat \ {0}
<1>1. Buffer \in Seq(Bytes) /\ Pos \in Nat
  BY BufferType DEF TaskInv
<1>2. Head(readTasks).size \in Nat \ {0}
  BY HeadOfQueue
<1>3. CASE readBuffer = <<>>
  <2>1. Buffer = Junk(Head(readTasks).size) /\ Pos = 0
    BY <1>3 DEF Buffer, Pos
  <2>2. Len(Buffer) = Head(readTasks).size
    BY <1>2, <2>1 DEF Junk
  <2> QED BY <1>1, <1>2, <2>1, <2>2
<1>4. CASE readBuffer # <<>>
  BY <1>1, <1>2, <1>4 DEF TaskInv, RoomInv, Buffer, Pos
<1> QED BY <1>1, <1>2, <1>3, <1>4

\* Wherever a read(2) leaves readPos, the worker answers the next promise and
\* goes on to pop its task, or there is still room in the buffer.
LEMMA AdvanceTasks ==
    ASSUME TaskInv, worker = "read", CanRead,
           NEW b \in Seq(Bytes), NEW pos \in Nat,
           Len(b) = Head(readTasks).size,
           Advance(b, pos), UNCHANGED <<asked, readTasks>>
    PROVE  PromisesSetOnce' /\ QueueInv' /\ RoomInv'
<1>0. answers \in Seq(Answer) /\ readTasks # <<>> /\ Len(answers) \in Nat
  BY DEF TaskInv, TypeInv, TypeOK, CanRead
<1>1. /\ Head(readTasks).promise = Len(answers) + 1
      /\ Head(readTasks).size \in Nat \ {0}
  BY HeadOfQueue
<1>2. readPos' = pos /\ readBuffer' = b
  BY DEF Advance
<1>3. CASE pos >= Head(readTasks).size
  <2> DEFINE ans == [promise |-> Len(answers) + 1, data |-> b]
  <2>1. worker' = "pop" /\ answers' = Append(answers, ans)
    BY <1>1, <1>3 DEF Advance, AfterRead
  <2>2. /\ Len(answers') = Len(answers) + 1
        /\ \A i \in 1..Len(answers) : answers'[i] = answers[i]
        /\ answers'[Len(answers) + 1].promise = Len(answers) + 1
    BY <1>0, <2>1
  <2>3. PromisesSetOnce'
    <3>1. ASSUME NEW i \in 1..Len(answers') PROVE answers'[i].promise = i
      <4>1. i \in 1..Len(answers) \/ i = Len(answers) + 1
        BY <1>0, <2>2
      <4> QED BY <2>2, <4>1 DEF TaskInv, PromisesSetOnce
    <3> QED BY <3>1 DEF PromisesSetOnce
  <2>4. QueueInv'
    <3>1. Len(readTasks) = Len(asked) - Len(answers)
      BY DEF TaskInv, QueueInv
    <3>2. Len(asked) \in Nat /\ Len(readTasks) \in Nat
      BY DEF TaskInv, TypeInv, TypeOK
    <3>3. Len(readTasks) = Len(asked) - Len(answers') + 1
      BY <1>0, <2>2, <3>1, <3>2
    <3>4. answers' # <<>>
      BY <1>0, <2>2
    <3> QED BY <2>1, <3>3, <3>4 DEF TaskInv, QueueInv
  <2>5. RoomInv'
    BY <1>0, <1>2, <2>1 DEF RoomInv
  <2> QED BY <2>3, <2>4, <2>5
<1>4. CASE pos < Head(readTasks).size
  <2>1. worker' = "hup" /\ answers' = answers
    BY <1>1, <1>4 DEF Advance, AfterRead
  <2>2. PromisesSetOnce' /\ QueueInv'
    BY <2>1 DEF TaskInv, PromisesSetOnce, QueueInv
  <2>3. RoomInv'
    BY <1>0, <1>2, <1>4, <2>1 DEF RoomInv
  <2> QED BY <2>2, <2>3
<1> QED BY <1>1, <1>3, <1>4

LEMMA ReadCallTasks ==
    ASSUME TaskInv, NEW n \in Sizes, Read(n)
    PROVE  PromisesSetOnce' /\ QueueInv' /\ RoomInv' /\ asked' # <<>>
<1>1. /\ asked \in Seq(Sizes) /\ readTasks \in Seq(Task)
      /\ answers \in Seq(Answer)
      /\ worker = "pop" => readTasks # <<>>
  BY DEF TaskInv, TypeInv, TypeOK
<1>2. ReadTask(n) \in Task
  BY <1>1, IPCAssumption DEF Read, ReadTask, Task
<1>3. /\ asked' = Append(asked, n)
      /\ readTasks' = Append(readTasks, ReadTask(n))
      /\ UNCHANGED <<answers, worker, readPos, readBuffer>>
  BY DEF Read, bufferVars
<1>4. /\ Len(asked') = Len(asked) + 1
      /\ \A i \in 1..Len(asked) : asked'[i] = asked[i]
      /\ asked'[Len(asked) + 1] = n
  BY <1>1, <1>3
<1>5. /\ Len(readTasks') = Len(readTasks) + 1
      /\ \A i \in 1..Len(readTasks) : readTasks'[i] = readTasks[i]
      /\ readTasks'[Len(readTasks) + 1] = ReadTask(n)
  BY <1>1, <1>2, <1>3
<1>6. PromisesSetOnce'
  BY <1>3 DEF TaskInv, PromisesSetOnce
<1>7. QueueInv'
  <2>1. Len(readTasks') = Len(asked') - Len(answers')
                             + (IF worker' = "pop" THEN 1 ELSE 0)
    BY <1>1, <1>3, <1>4, <1>5 DEF TaskInv, QueueInv
  <2>2. ASSUME NEW i \in 1..Len(readTasks')
        PROVE  /\ readTasks'[i].size
                     = asked'[Len(asked') - Len(readTasks') + i]
               /\ readTasks'[i].promise = Len(asked') - Len(readTasks') + i
    <3>1. Len(asked') - Len(readTasks') + i = Len(asked) - Len(readTasks) + i
      BY <1>1, <1>4, <1>5
    <3>2. CASE i = Len(readTasks) + 1
      <4>1. Len(asked) - Len(readTasks) + i = Len(asked) + 1
        BY <1>1, <3>2
      <4> QED BY <1>4, <1>5, <3>1, <3>2, <4>1 DEF ReadTask
    <3>3. CASE i \in 1..Len(readTasks)
      <4>1. /\ readTasks[i].size = asked[Len(asked) - Len(readTasks) + i]
            /\ readTasks[i].promise = Len(asked) - Len(readTasks) + i
        BY <3>3 DEF TaskInv, QueueInv
      <4>2. Len(readTasks) <= Len(asked)
        <5>1. worker = "pop" => Len(answers) > 0
          BY <1>1, EmptySeq DEF TaskInv, QueueInv
        <5> QED BY <1>1, <5>1 DEF TaskInv, QueueInv
      <4>3. Len(asked) - Len(readTasks) + i \in 1..Len(asked)
        BY <1>1, <3>3, <4>2
      <4> QED BY <1>4, <1>5, <3>1, <3>3, <4>1, <4>3
    <3> QED BY <1>1, <1>5, <3>2, <3>3
  <2>3. worker' = "pop" => answers' # <<>>
    BY <1>3 DEF TaskInv, QueueInv
  <2> QED BY <2>1, <2>2, <2>3 DEF QueueInv
<1>8. RoomInv'
  <2>1. readTasks # <<>> => Head(readTasks') = Head(readTasks)
    BY <1>1, <1>3
  <2>2. readTasks' # <<>>
    BY <1>1, <1>5
  <2> QED BY <1>3, <2>1, <2>2 DEF TaskInv, RoomInv
<1>9. asked' # <<>>
  BY <1>1, <1>4
<1> QED BY <1>6, <1>7, <1>8, <1>9

LEMMA PopTasks ==
    ASSUME TaskInv, Pop
    PROVE  PromisesSetOnce' /\ QueueInv' /\ RoomInv'
<1>1. /\ readTasks \in Seq(Task) /\ readTasks # <<>>
      /\ Len(asked) \in Nat /\ Len(answers) \in Nat
      /\ worker = "pop"
  BY DEF TaskInv, TypeInv, TypeOK, Pop
<1>2. /\ readTasks' = Tail(readTasks) /\ readBuffer' = <<>>
      /\ worker' = "hup"
      /\ UNCHANGED <<asked, answers>>
  BY DEF Pop, Remaining, callerVars
<1>3. /\ Len(readTasks) \in Nat \ {0}
      /\ Len(readTasks') = Len(readTasks) - 1
      /\ \A i \in 1..Len(readTasks') : readTasks'[i] = readTasks[i + 1]
  BY <1>1, <1>2
<1>4. PromisesSetOnce'
  BY <1>2 DEF TaskInv, PromisesSetOnce
<1>5. QueueInv'
  <2>1. Len(readTasks) = Len(asked) - Len(answers) + 1
    BY <1>1 DEF TaskInv, QueueInv
  <2>2. Len(readTasks') = Len(asked') - Len(answers')
    BY <1>1, <1>2, <1>3, <2>1
  <2>3. ASSUME NEW i \in 1..Len(readTasks')
        PROVE  /\ readTasks'[i].size
                     = asked'[Len(asked') - Len(readTasks') + i]
               /\ readTasks'[i].promise = Len(asked') - Len(readTasks') + i
    <3>1. i + 1 \in 1..Len(readTasks)
      BY <1>3
    <3>2. Len(asked') - Len(readTasks') + i
              = Len(asked) - Len(readTasks) + (i + 1)
      BY <1>1, <1>2, <1>3
    <3>3. /\ readTasks[i + 1].size
                = asked[Len(asked) - Len(readTasks) + (i + 1)]
          /\ readTasks[i + 1].promise
                = Len(asked) - Len(readTasks) + (i + 1)
      BY <3>1 DEF TaskInv, QueueInv
    <3> QED BY <1>2, <1>3, <3>2, <3>3
  <2> QED BY <1>1, <1>2, <2>2, <2>3 DEF QueueInv
<1>6. RoomInv'
  BY <1>2 DEF RoomInv
<1> QED BY <1>4, <1>5, <1>6

\* What one read(2) does, with any number of bytes, at the end of the file or
\* with an error.
LEMMA SocketReadTasks ==
    ASSUME TaskInv, ReadSome \/ ReadEof \/ ReadError
    PROVE  PromisesSetOnce' /\ QueueInv' /\ RoomInv'
<1>1. /\ worker = "read" /\ CanRead
      /\ UNCHANGED <<asked, readTasks>>
  BY DEF ReadSome, ReadEof, ReadError, callerVars, taskVars
<1>2. /\ Buffer \in Seq(Bytes) /\ Pos \in Nat
      /\ Len(Buffer) = Head(readTasks).size
      /\ Pos < Head(readTasks).size
      /\ Head(readTasks).size \in Nat \ {0}
  BY <1>1, RoomAtRead
<1>3. CASE ReadSome
  <2>1. PICK got \in 1..Minimum(ReadForBytes, arrived - consumed) :
            Advance(Filled(Buffer, Pos, got), Pos + got)
    BY <1>3 DEF ReadSome
  <2>2. /\ consumed \in Nat /\ arrived \in Nat /\ MaxArrived \in Nat
        /\ arrived <= MaxArrived
    BY IPCAssumption DEF TaskInv, TypeInv, TypeOK, Bytes
  <2>3. got \in Nat /\ consumed + got <= MaxArrived
    BY <1>2, <2>1, <2>2, IPCAssumption DEF Minimum, ReadForBytes
  <2>4. /\ Filled(Buffer, Pos, got) \in Seq(Bytes)
        /\ Len(Filled(Buffer, Pos, got)) = Len(Buffer)
    BY <1>2, <2>2, <2>3, FilledType
  <2>5. Pos + got \in Nat
    BY <1>2, <2>3
  <2> QED BY <1>1, <1>2, <2>1, <2>4, <2>5, AdvanceTasks
<1>4. CASE ReadEof
  <2>1. CASE Advance(Buffer, Pos)
    BY <1>1, <1>2, <2>1, AdvanceTasks
  <2>2. CASE /\ worker' = "exit"
             /\ readPos' = Pos /\ readBuffer' = Buffer /\ answers' = answers
    <3>1. PromisesSetOnce' /\ QueueInv'
      BY <1>1, <2>2 DEF TaskInv, PromisesSetOnce, QueueInv
    <3>2. RoomInv'
      BY <1>1, <1>2, <2>2 DEF RoomInv, CanRead
    <3> QED BY <3>1, <3>2
  <2> QED BY <1>4, <2>1, <2>2 DEF ReadEof
<1>5. CASE ReadError
  <2>1. (Pos + SIZE_MAX) % (SIZE_MAX + 1) \in Nat
    BY <1>2, IPCAssumption
  <2> QED BY <1>1, <1>2, <1>5, <2>1, AdvanceTasks DEF ReadError
<1> QED BY <1>3, <1>4, <1>5

LEMMA TaskInit == Init => TaskInv
<1> SUFFICES ASSUME Init PROVE TaskInv
  OBVIOUS
<1>1. TypeInv
  BY TypeInit
<1>2. Len(answers) = 0 /\ Len(readTasks) = 0 /\ Len(asked) = 0
  BY DEF Init
<1>3. PromisesSetOnce /\ QueueInv
  BY <1>2 DEF Init, PromisesSetOnce, QueueInv
<1>4. RoomInv /\ reader # "waiting"
  BY DEF Init, RoomInv
<1> QED BY <1>1, <1>3, <1>4 DEF TaskInv

LEMMA TaskStep == TaskInv /\ [Next]_vars => TaskInv'
<1> SUFFICES ASSUME TaskInv, [Next]_vars PROVE TaskInv'
  OBVIOUS
<1>1. TypeInv'
  BY TypeStep DEF TaskInv
<1>2. CASE \E n \in Sizes : Read(n)
  BY <1>1, <1>2, ReadCallTasks DEF TaskInv
<1>3. CASE Pop
  BY <1>1, <1>3, PopTasks DEF TaskInv, Pop, callerVars
<1>4. CASE ReadSome \/ ReadEof \/ ReadError
  BY <1>1, <1>4, SocketReadTasks DEF TaskInv, ReadSome, ReadEof, ReadError, callerVars
<1>5. CASE UNCHANGED vars
  BY <1>1, <1>5, TaskFrame
     DEF TaskInv, vars, taskInvVars, taskVars, bufferVars, callerVars
<1>6. CASE \/ Connect \/ ConnectFails \/ Return \/ Write
           \/ DisconnectBegin \/ DisconnectEnd
  <2>1. UNCHANGED taskInvVars /\ reader' \in {reader, "idle"}
    BY <1>6 DEF Connect, ConnectFails, Return, Write, DisconnectBegin,
                DisconnectEnd, taskInvVars, taskVars, bufferVars
  <2>2. worker' = "pop" <=> worker = "pop"
    BY <1>6 DEF Connect, ConnectFails, Return, Write, DisconnectBegin,
                DisconnectEnd, TaskInv, TypeInv, TypeOK
  <2> QED BY <1>1, <2>1, <2>2, TaskFrame DEF TaskInv, taskInvVars
<1>7. CASE \/ WorkerStart \/ Loop \/ Poll \/ PollFails \/ WriteOk
           \/ WriteFails \/ WriteSkip \/ ReadSkip \/ Hup \/ Exit
  <2>1. UNCHANGED <<taskInvVars, reader>>
    BY <1>7 DEF WorkerStart, Loop, Poll, PollFails, WriteOk, WriteFails,
                WriteSkip, ReadSkip, Hup, Exit, taskInvVars, taskVars,
                bufferVars, callerVars
  <2>2. worker # "pop" /\ worker' # "pop"
    BY <1>7 DEF WorkerStart, Loop, Poll, PollFails, WriteOk, WriteFails,
                WriteSkip, ReadSkip, Hup, Exit
  <2> QED BY <1>1, <2>1, <2>2, TaskFrame DEF TaskInv, taskInvVars
<1>8. CASE Peer
  <2>1. UNCHANGED <<taskInvVars, worker, reader>>
    BY <1>8 DEF Peer, PeerSend, PeerCloses, PeerDrains, taskInvVars, taskVars,
                bufferVars, callerVars
  <2> QED BY <1>1, <2>1, TaskFrame DEF TaskInv, taskInvVars
<1> QED BY <1>2, <1>3, <1>4, <1>5, <1>6, <1>7, <1>8 DEF Next, Caller, Worker

\* The invariant of the queue and the buffer, under every combination of
\* faults, resets included.
THEOREM TasksCorrect == Spec => []TaskInv
BY TaskInit, TaskStep, PTL DEF Spec

\* No second set_value() ever throws out of the worker, and the promises are
\* kept in the order of the calls, also when read(2) fails (workerLoop).
THEOREM PromisesAreSetOnce == Spec => []PromisesSetOnce
<1>1. TaskInv => PromisesSetOnce
  BY DEF TaskInv
<1> QED BY <1>1, TasksCorrect, PTL

\* read(2) never writes behind the buffer it is given, and is never asked for
\* nothing, whatever the errors before it did to readPos.
THEOREM ReadStaysWithinBuffer == Spec => []WithinBuffer
<1>1. ASSUME TaskInv, worker = "read", CanRead
      PROVE  ReadForBytes > 0 /\ Pos + ReadForBytes <= Len(Buffer)
  <2>1. /\ Pos \in Nat /\ Head(readTasks).size \in Nat
        /\ Len(Buffer) = Head(readTasks).size
        /\ Pos < Head(readTasks).size
    BY <1>1, RoomAtRead
  <2> QED BY <2>1, IPCAssumption DEF ReadForBytes, Minimum
<1>2. TaskInv => WithinBuffer
  BY <1>1 DEF WithinBuffer
<1> QED BY <1>2, TasksCorrect, PTL

\* A thread blocked on its future is never forgotten: its answer is there or
\* its task is in the queue, in whichever order the caller and the worker run
\* between set_value() and pop().
THEOREM NoRequestIsLost == Spec => []RequestNotLost
<1>1. ASSUME TaskInv, reader = "waiting", ~Answered
      PROVE  \E i \in 1..Len(readTasks) : readTasks[i].promise = Len(asked)
  <2>1. /\ asked \in Seq(Sizes) /\ asked # <<>>
        /\ Len(answers) \in Nat /\ Len(readTasks) \in Nat
    BY <1>1 DEF TaskInv, TypeInv, TypeOK
  <2>2. Len(asked) \in Nat \ {0}
    BY <2>1
  <2>3. Len(answers) < Len(asked)
    <3>1. Len(asked) \notin 1..Len(answers)
      BY <1>1 DEF TaskInv, PromisesSetOnce, Answered
    <3> QED BY <2>1, <2>2, <3>1
  <2>4. Len(readTasks) \in 1..Len(readTasks)
    BY <1>1, <2>1, <2>2, <2>3 DEF TaskInv, QueueInv
  <2>5. readTasks[Len(readTasks)].promise
            = Len(asked) - Len(readTasks) + Len(readTasks)
    BY <1>1, <2>4 DEF TaskInv, QueueInv
  <2> QED BY <2>1, <2>2, <2>4, <2>5
<1>2. TaskInv => RequestNotLost
  BY <1>1 DEF RequestNotLost
<1> QED BY <1>2, TasksCorrect, PTL
-----------------------------------------------------------------------------
(* The order of the reads.  ReadsInOrder is not inductive: what the next   *)
(* answer will hold depends on what is in the buffer already and on what   *)
(* read(2) has returned, besides TaskInv.                                  *)

\* The first n bytes of b follow the last byte handed out.
Continues(b, n) == \A j \in 1..n : b[j] = LastByte(Len(answers)) + j

\* The first readPos bytes of the buffer are those read(2) has returned since
\* the last answer.
BufferInv ==
    /\ worker = "pop" \/ readBuffer = <<>> =>
          consumed = LastByte(Len(answers))
    /\ worker # "pop" /\ readBuffer # <<>> =>
          /\ consumed = LastByte(Len(answers)) + readPos
          /\ Continues(readBuffer, readPos)

ReadInv == TaskInv /\ peer # "reset" /\ ReadsInOrder /\ BufferInv

readVars == <<asked, answers, readPos, readBuffer, consumed>>

LEMMA ReadFrame ==
    ASSUME ReadInv, UNCHANGED readVars, worker' = "pop" <=> worker = "pop"
    PROVE  ReadsInOrder' /\ BufferInv'
<1>1. UNCHANGED <<asked, answers, readPos, readBuffer, consumed>>
  BY DEF readVars
<1>2. ReadsInOrder'
  BY <1>1 DEF ReadInv, ReadsInOrder, LastByte
<1>3. BufferInv'
  BY <1>1 DEF ReadInv, BufferInv, Continues, LastByte
<1> QED BY <1>2, <1>3

\* No more is answered than asked.
LEMMA AnswersAsked ==
    ASSUME TaskInv PROVE Len(answers) \in Nat /\ Len(answers) <= Len(asked)
<1>1. /\ Len(readTasks) \in Nat /\ (worker = "pop" => Len(readTasks) # 0)
      /\ Len(asked) \in Nat /\ Len(answers) \in Nat
  BY EmptySeq DEF TaskInv, TypeInv, TypeOK
<1>2. Len(readTasks) = Len(asked) - Len(answers)
                           + (IF worker = "pop" THEN 1 ELSE 0)
  BY DEF TaskInv, QueueInv
<1> QED BY <1>1, <1>2

\* What the bytes of an answer are, and its last one: no answer is empty.
LEMMA AnswerType ==
    ASSUME ReadInv, NEW i \in 1..Len(answers)
    PROVE  /\ asked[i] \in Nat \ {0}
           /\ Len(answers[i].data) = asked[i]
           /\ LastByte(i) \in Nat
<1>1. answers \in Seq(Answer) /\ asked \in Seq(Sizes)
  BY DEF ReadInv, TaskInv, TypeInv, TypeOK
<1>2. i \in 1..Len(asked) /\ i \in Nat \ {0}
  <2>1. /\ Len(answers) \in Nat /\ Len(asked) \in Nat
        /\ Len(answers) <= Len(asked)
    BY <1>1, AnswersAsked DEF ReadInv
  <2> QED BY <2>1
<1>3. asked[i] \in Nat \ {0}
  <2>1. asked[i] \in Sizes
    BY <1>1, <1>2
  <2> QED BY <2>1, IPCAssumption
<1>4. answers[i].data \in Seq(Bytes)
  <2>1. answers[i] \in Answer
    BY <1>1
  <2> QED BY <2>1 DEF Answer
<1>5. answers[i].data = Slice(LastByte(i - 1), asked[i])
  BY DEF ReadInv, ReadsInOrder
<1>6. Len(answers[i].data) = asked[i]
  <2>1. DOMAIN answers[i].data = 1..asked[i]
    BY <1>5 DEF Slice
  <2>2. DOMAIN answers[i].data = 1..Len(answers[i].data)
    BY <1>4
  <2> QED BY <1>3, <1>4, <2>1, <2>2
<1>7. LastByte(i) \in Bytes
  BY <1>2, <1>3, <1>4, <1>6 DEF LastByte
<1> QED BY <1>3, <1>6, <1>7, IPCAssumption DEF Bytes

LEMMA LastByteType == ASSUME ReadInv PROVE LastByte(Len(answers)) \in Nat
<1>1. Len(answers) \in Nat
  BY AnswersAsked DEF ReadInv
<1>2. CASE Len(answers) = 0
  BY <1>2 DEF LastByte
<1>3. CASE Len(answers) # 0
  <2>1. Len(answers) \in 1..Len(answers)
    BY <1>1, <1>3
  <2> QED BY <2>1, AnswerType
<1> QED BY <1>2, <1>3

\* Everything in front of Pos continues the stream.
LEMMA BufferAtRead ==
    ASSUME ReadInv, worker = "read", CanRead
    PROVE  /\ consumed = LastByte(Len(answers)) + Pos
           /\ Continues(Buffer, Pos)
<1>0. consumed \in Nat
  BY IPCAssumption DEF ReadInv, TaskInv, TypeInv, TypeOK, Bytes
<1>1. CASE readBuffer = <<>>
  <2>1. Pos = 0
    BY <1>1 DEF Pos
  <2>2. consumed = LastByte(Len(answers))
    BY <1>1 DEF ReadInv, BufferInv
  <2> QED BY <1>0, <2>1, <2>2 DEF Continues
<1>2. CASE readBuffer # <<>>
  BY <1>2 DEF ReadInv, BufferInv, Buffer, Pos
<1> QED BY <1>1, <1>2

\* The step that matters: with the first pos bytes of b continuing the
\* stream, the worker either keeps them or answers with exactly the bytes
\* that follow the previous answer.
LEMMA AdvanceReads ==
    ASSUME ReadInv, worker = "read", CanRead,
           NEW b \in Seq(Bytes), NEW pos \in Nat,
           Len(b) = Head(readTasks).size, pos <= Len(b),
           Continues(b, pos), consumed' = LastByte(Len(answers)) + pos,
           Advance(b, pos), UNCHANGED asked
    PROVE  ReadsInOrder' /\ BufferInv'
<1>0. Len(answers) \in Nat
  BY DEF ReadInv, TaskInv, TypeInv, TypeOK
<1> PICK n \in Nat : n = Len(answers)
  BY <1>0
<1> PICK size : size = Head(readTasks).size
  OBVIOUS
<1>1. /\ size = asked[n + 1]
      /\ Head(readTasks).promise = n + 1
      /\ size \in Nat \ {0}
  BY HeadOfQueue DEF ReadInv
<1>2. answers \in Seq(Answer)
  BY DEF ReadInv, TaskInv, TypeInv, TypeOK
<1>3. b # <<>> /\ readPos' = pos /\ readBuffer' = b
  BY <1>1 DEF Advance
<1>4. CASE pos = size
  <2> DEFINE ans == [promise |-> n + 1, data |-> b]
  <2>1. worker' = "pop" /\ answers' = Append(answers, ans)
    BY <1>1, <1>4 DEF Advance, AfterRead
  <2>2. /\ Len(answers') = n + 1
        /\ \A i \in 1..n : answers'[i] = answers[i]
        /\ answers'[n + 1] = ans
    BY <1>2, <2>1
  <2>3. \A i \in 0..n : LastByte(i)' = LastByte(i)
    BY <1>2, <2>2 DEF LastByte
  <2>4. b = Slice(LastByte(n), size)
    <3>1. \A j \in 1..size : b[j] = LastByte(n) + j
      BY <1>4 DEF Continues
    <3>2. b = [j \in 1..Len(b) |-> b[j]]
      OBVIOUS
    <3> QED BY <3>1, <3>2 DEF Slice
  <2>5. LastByte(n + 1)' = LastByte(n) + size
    <3>1. LastByte(n + 1)' = b[Len(b)]
      BY <1>2, <2>2 DEF LastByte
    <3>2. b[size] = LastByte(n) + size
      BY <1>1, <1>4 DEF Continues
    <3> QED BY <3>1, <3>2
  <2>6. ReadsInOrder'
    <3>1. ASSUME NEW i \in 1..n
          PROVE  /\ answers'[i].promise = i
                 /\ answers'[i].data = Slice(LastByte(i - 1)', asked'[i])
      <4>1. LastByte(i - 1)' = LastByte(i - 1)
        BY <1>2, <2>3
      <4> QED BY <2>2, <4>1 DEF ReadInv, ReadsInOrder
    <3>2. /\ answers'[n + 1].promise = n + 1
          /\ answers'[n + 1].data = Slice(LastByte(n)', asked'[n + 1])
      BY <1>1, <1>2, <2>2, <2>3, <2>4
    <3>3. ASSUME NEW i \in 1..Len(answers')
          PROVE  /\ answers'[i].promise = i
                 /\ answers'[i].data = Slice(LastByte(i - 1)', asked'[i])
      <4>1. CASE i \in 1..n
        BY <3>1, <4>1
      <4>2. CASE i = n + 1
        <5>1. i - 1 = n
          BY <4>2
        <5> QED BY <3>2, <4>2, <5>1
      <4> QED BY <2>2, <4>1, <4>2
    <3> QED BY <3>3 DEF ReadsInOrder
  <2>7. BufferInv'
    BY <1>2, <1>3, <1>4, <2>1, <2>2, <2>5 DEF BufferInv
  <2> QED BY <2>6, <2>7
<1>5. CASE pos < size
  <2>1. worker' = "hup" /\ answers' = answers
    BY <1>1, <1>5 DEF Advance, AfterRead
  <2>2. \A i : LastByte(i)' = LastByte(i)
    BY <2>1 DEF LastByte
  <2>3. ReadsInOrder'
    BY <2>1, <2>2 DEF ReadInv, ReadsInOrder
  <2>4. Continues(b, pos)'
    BY <2>1, <2>2 DEF Continues
  <2>5. BufferInv'
    BY <1>2, <1>3, <1>5, <2>1, <2>2, <2>4 DEF BufferInv
  <2> QED BY <2>3, <2>5
<1> QED BY <1>1, <1>4, <1>5

LEMMA ReadCallReads ==
    ASSUME ReadInv, NEW n \in Sizes, Read(n)
    PROVE  ReadsInOrder' /\ BufferInv'
<1>1. asked \in Seq(Sizes) /\ answers \in Seq(Answer)
  BY DEF ReadInv, TaskInv, TypeInv, TypeOK
<1>2. /\ asked' = Append(asked, n)
      /\ UNCHANGED <<answers, worker, readPos, readBuffer, consumed>>
  BY DEF Read, bufferVars, socketVars
<1>3. \A i \in 1..Len(asked) : asked'[i] = asked[i]
  BY <1>1, <1>2
<1>4. Len(answers) <= Len(asked)
  BY AnswersAsked DEF ReadInv
<1>5. \A i : LastByte(i)' = LastByte(i)
  BY <1>2 DEF LastByte
<1>6. ASSUME NEW i \in 1..Len(answers')
      PROVE  /\ answers'[i].promise = i
             /\ answers'[i].data = Slice(LastByte(i - 1)', asked'[i])
  <2>1. i \in 1..Len(answers) /\ i \in 1..Len(asked)
    BY <1>1, <1>2, <1>4
  <2> QED BY <1>2, <1>3, <1>5, <2>1 DEF ReadInv, ReadsInOrder
<1>7. BufferInv'
  BY <1>2, <1>5 DEF ReadInv, BufferInv, Continues
<1> QED BY <1>6, <1>7 DEF ReadsInOrder

LEMMA PopReads ==
    ASSUME ReadInv, Pop
    PROVE  ReadsInOrder' /\ BufferInv'
<1>1. /\ worker = "pop" /\ readBuffer' = <<>>
      /\ UNCHANGED <<asked, answers, consumed>>
  BY DEF Pop, callerVars, socketVars
<1>2. \A i : LastByte(i)' = LastByte(i)
  BY <1>1 DEF LastByte
<1>3. ReadsInOrder'
  BY <1>1, <1>2 DEF ReadInv, ReadsInOrder
<1>4. BufferInv'
  BY <1>1, <1>2 DEF ReadInv, BufferInv, Pop
<1> QED BY <1>3, <1>4

LEMMA ReadSomeReads ==
    ASSUME ReadInv, ReadSome
    PROVE  ReadsInOrder' /\ BufferInv'
<1>1. worker = "read" /\ CanRead /\ UNCHANGED asked
  BY DEF ReadSome, callerVars
<1>2. PICK got \in 1..Minimum(ReadForBytes, arrived - consumed) :
          /\ consumed' = consumed + got
          /\ Advance(Filled(Buffer, Pos, got), Pos + got)
  BY DEF ReadSome
<1>3. /\ Buffer \in Seq(Bytes) /\ Pos \in Nat
      /\ Len(Buffer) = Head(readTasks).size
      /\ Pos < Head(readTasks).size
      /\ consumed = LastByte(Len(answers)) + Pos
      /\ Continues(Buffer, Pos)
      /\ Head(readTasks).size \in Nat \ {0}
  BY <1>1, RoomAtRead, BufferAtRead DEF ReadInv
<1>4. /\ consumed \in Nat /\ arrived \in Nat /\ MaxArrived \in Nat
      /\ consumed <= arrived /\ arrived <= MaxArrived
  BY IPCAssumption DEF ReadInv, TaskInv, TypeInv, TypeOK, Bytes
<1>5. /\ got \in Nat /\ Pos + got <= Len(Buffer)
      /\ consumed + got <= MaxArrived
  BY <1>2, <1>3, <1>4, IPCAssumption DEF Minimum, ReadForBytes
<1> DEFINE b == Filled(Buffer, Pos, got)
<1>6. b \in Seq(Bytes) /\ Len(b) = Len(Buffer)
  BY <1>3, <1>4, <1>5, FilledType
<1>7. LastByte(Len(answers)) \in Nat
  BY LastByteType
<1>8. Continues(b, Pos + got)
  <2>1. ASSUME NEW j \in 1..(Pos + got)
        PROVE  b[j] = LastByte(Len(answers)) + j
    <3>1. j \in 1..Len(Buffer)
      BY <1>3, <1>5
    <3>2. CASE j <= Pos
      BY <1>3, <3>1, <3>2 DEF Continues, Filled
    <3>3. CASE Pos < j
      <4>1. b[j] = consumed + (j - Pos)
        BY <3>1, <3>3 DEF Filled
      <4> QED BY <1>3, <1>4, <1>7, <4>1
    <3> QED BY <1>3, <3>2, <3>3
  <2> QED BY <2>1 DEF Continues
<1>9. Pos + got \in Nat /\ consumed' = LastByte(Len(answers)) + (Pos + got)
  BY <1>2, <1>3, <1>5, <1>7
<1> HIDE DEF b
<1> QED BY <1>1, <1>2, <1>3, <1>5, <1>6, <1>8, <1>9, AdvanceReads DEF b

LEMMA ReadEofReads ==
    ASSUME ReadInv, ReadEof
    PROVE  ReadsInOrder' /\ BufferInv'
<1>1. worker = "read" /\ CanRead /\ UNCHANGED <<asked, consumed>>
  BY DEF ReadEof, callerVars, socketVars
<1>2. /\ Buffer \in Seq(Bytes) /\ Pos \in Nat
      /\ Len(Buffer) = Head(readTasks).size
      /\ Pos < Head(readTasks).size
      /\ consumed = LastByte(Len(answers)) + Pos
      /\ Continues(Buffer, Pos)
      /\ Head(readTasks).size \in Nat \ {0}
  BY <1>1, RoomAtRead, BufferAtRead DEF ReadInv
<1>3. CASE /\ worker' = "exit"
           /\ readPos' = Pos /\ readBuffer' = Buffer /\ answers' = answers
  <2>1. \A i : LastByte(i)' = LastByte(i)
    BY <1>3 DEF LastByte
  <2>2. ReadsInOrder'
    BY <1>1, <1>3, <2>1 DEF ReadInv, ReadsInOrder
  <2>3. Buffer # <<>>
    BY <1>2
  <2>4. Continues(readBuffer, readPos)'
    BY <1>2, <1>3, <2>1 DEF Continues
  <2>5. BufferInv'
    BY <1>1, <1>2, <1>3, <2>1, <2>3, <2>4 DEF BufferInv
  <2> QED BY <2>2, <2>5
<1>4. CASE Advance(Buffer, Pos)
  BY <1>1, <1>2, <1>4, AdvanceReads
<1> QED BY <1>3, <1>4 DEF ReadEof

LEMMA ReadInit == Init => ReadInv
<1> SUFFICES ASSUME Init PROVE ReadInv
  OBVIOUS
<1>1. TaskInv
  BY TaskInit
<1>2. Len(answers) = 0
  BY DEF Init
<1>3. ReadsInOrder
  BY <1>2 DEF ReadsInOrder
<1>4. BufferInv
  BY <1>2 DEF Init, BufferInv, LastByte
<1> QED BY <1>1, <1>3, <1>4 DEF Init, ReadInv

LEMMA ReadStep ==
    ASSUME "reset" \notin Faults, ReadInv, [Next]_vars
    PROVE  ReadInv'
<1>1. TaskInv'
  BY TaskStep DEF ReadInv
<1>2. peer' # "reset"
  <2>1. CASE UNCHANGED vars
    BY <2>1 DEF ReadInv, vars, socketVars
  <2>2. CASE Caller
    BY <2>2 DEF ReadInv, Caller, Connect, ConnectFails, Read, Return, Write,
                DisconnectBegin, DisconnectEnd, socketVars
  <2>3. CASE Worker
    BY <2>3 DEF ReadInv, Worker, WorkerStart, Loop, Poll, PollFails, WriteOk,
                WriteFails, WriteSkip, ReadSome, ReadEof, ReadError, ReadSkip,
                Pop, Hup, Exit, socketVars
  <2>4. CASE Peer
    BY <2>4 DEF ReadInv, Peer, PeerSend, PeerCloses, PeerDrains
  <2> QED BY <2>1, <2>2, <2>3, <2>4 DEF Next
<1>3. ReadsInOrder' /\ BufferInv'
  <2>1. CASE \E n \in Sizes : Read(n)
    BY <2>1, ReadCallReads
  <2>2. CASE Pop
    BY <2>2, PopReads
  <2>3. CASE ReadSome
    BY <2>3, ReadSomeReads
  <2>4. CASE ReadEof
    BY <2>4, ReadEofReads
  <2>5. CASE ReadError
    BY <2>5 DEF ReadInv, ReadError
  <2>6. CASE UNCHANGED vars
    BY <2>6, ReadFrame DEF vars, readVars, taskVars, bufferVars, callerVars,
                           socketVars
  <2>7. CASE \/ Connect \/ ConnectFails \/ Return \/ Write
             \/ DisconnectBegin \/ DisconnectEnd
    <3>1. UNCHANGED readVars
      BY <2>7 DEF Connect, ConnectFails, Return, Write, DisconnectBegin,
                  DisconnectEnd, readVars, taskVars, bufferVars, socketVars
    <3>2. worker' = "pop" <=> worker = "pop"
      BY <2>7 DEF Connect, ConnectFails, Return, Write, DisconnectBegin,
                  DisconnectEnd, ReadInv, TaskInv, TypeInv, TypeOK
    <3> QED BY <3>1, <3>2, ReadFrame
  <2>8. CASE \/ WorkerStart \/ Loop \/ Poll \/ PollFails \/ WriteOk
             \/ WriteFails \/ WriteSkip \/ ReadSkip \/ Hup \/ Exit
    <3>1. UNCHANGED readVars
      BY <2>8 DEF WorkerStart, Loop, Poll, PollFails, WriteOk, WriteFails,
                  WriteSkip, ReadSkip, Hup, Exit, readVars, taskVars,
                  bufferVars, callerVars, socketVars
    <3>2. worker # "pop" /\ worker' # "pop"
      BY <2>8 DEF WorkerStart, Loop, Poll, PollFails, WriteOk, WriteFails,
                  WriteSkip, ReadSkip, Hup, Exit
    <3> QED BY <3>1, <3>2, ReadFrame
  <2>9. CASE Peer
    <3>1. UNCHANGED readVars /\ worker' = worker
      BY <2>9 DEF Peer, PeerSend, PeerCloses, PeerDrains, readVars, taskVars,
                  bufferVars, callerVars
    <3> QED BY <3>1, ReadFrame
  <2> QED BY <2>1, <2>2, <2>3, <2>4, <2>5, <2>6, <2>7, <2>8, <2>9
          DEF Next, Caller, Worker
<1> QED BY <1>1, <1>2, <1>3 DEF ReadInv

\* Unless the peer resets the connection, every read returns exactly the
\* bytes that follow those of the read before it, in the order of the calls,
\* whatever read(2) and write(2) do and whenever the peer hangs up.
THEOREM ReadsAreTheStream ==
    ASSUME "reset" \notin Faults
    PROVE  Spec => []ReadsInOrder
<1>1. ReadInv /\ [Next]_vars => ReadInv'
  BY ReadStep
<1>2. ReadInv => ReadsInOrder
  BY DEF ReadInv
<1> QED BY ReadInit, <1>1, <1>2, PTL DEF Spec
=============================================================================
