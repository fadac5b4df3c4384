-------------------------- MODULE IPCChannelProofs --------------------------
(***************************************************************************)
(* The other half of what holds of IPCConnection for every size and bound: *)
(* when the descriptor is closed, in which order and how completely the    *)
(* pieces handed to write() leave, that the worker, its queues and its     *)
(* buffer implement a ByteChannel, and what a caller of read() may count   *)
(* on, which is the part the two clients' proofs cite.                     *)
(***************************************************************************)
EXTENDS IPCConnectionProofs

(* close(2) comes last, since the owner closes only what it has joined, and *)
(* connects only what it has never closed.                                  *)
CloseInv ==
    /\ TypeInv
    /\ ClosedLast
    /\ owner \in {"new", "connected"} => closes = 0
    /\ owner \in {"new", "failed"} => worker = "none"
    /\ owner = "closed" => worker \in {"none", "done"}

LEMMA CloseInit == Init => CloseInv
<1> SUFFICES ASSUME Init PROVE CloseInv
  OBVIOUS
<1>1. TypeInv
  BY TypeInit
<1>2. closes = 0 /\ owner = "new" /\ worker = "none"
  BY DEF Init
<1> QED BY <1>1, <1>2 DEF CloseInv, ClosedLast

LEMMA CloseStep == CloseInv /\ [Next]_vars => CloseInv'
<1> SUFFICES ASSUME CloseInv, [Next]_vars PROVE CloseInv'
  OBVIOUS
<1>1. TypeInv'
  BY TypeStep DEF CloseInv
<1>2. closes \in Nat
  BY IPCAssumption DEF CloseInv, TypeInv, TypeOK
<1>3. CASE UNCHANGED <<owner, worker, closes>>
  BY <1>1, <1>3 DEF CloseInv, ClosedLast
<1>4. CASE Connect
  BY <1>1, <1>2, <1>4 DEF CloseInv, ClosedLast, Connect
<1>5. CASE ConnectFails
  BY <1>1, <1>5 DEF CloseInv, ClosedLast, ConnectFails
<1>6. CASE DisconnectBegin
  BY <1>1, <1>6 DEF CloseInv, ClosedLast, DisconnectBegin
<1>7. CASE DisconnectEnd
  BY <1>1, <1>2, <1>7 DEF CloseInv, ClosedLast, DisconnectEnd
<1>8. CASE Worker
  <2>1. worker \notin {"none", "done"} /\ UNCHANGED <<owner, closes>>
    BY <1>8 DEF Worker, WorkerStart, Loop, Poll, PollFails, WriteOk,
                WriteFails, WriteSkip, ReadSome, ReadEof, ReadError, ReadSkip,
                Pop, Hup, Exit, callerVars
  <2> QED BY <1>1, <1>2, <2>1 DEF CloseInv, ClosedLast
<1>9. CASE Return \/ Write \/ \E n \in Sizes : Read(n)
  BY <1>3, <1>9 DEF Return, Write, Read
<1>10. CASE Peer
  BY <1>3, <1>10 DEF Peer, PeerSend, PeerCloses, PeerDrains, callerVars
<1> QED BY <1>3, <1>4, <1>5, <1>6, <1>7, <1>8, <1>9, <1>10
        DEF Next, Caller, vars, callerVars

\* Whatever fails and however often disconnect() is called, nothing uses the
\* descriptor any more once close(2) has been called on it.
THEOREM ClosesAreLast == Spec => []ClosedLast
<1>1. CloseInv => ClosedLast
  BY DEF CloseInv
<1> QED BY CloseInit, CloseStep, <1>1, PTL DEF Spec
-----------------------------------------------------------------------------
(* The pieces.  What has been written and what is queued are one sequence; *)
(* a call of write() makes it longer, and a failing write(2) takes a piece *)
(* out of its middle.                                                      *)

Sent == [i \in 1..Len(wire) |-> wire[i].piece]

OutLen == Len(wire) + Len(writeTasks)

\* The i-th piece of that sequence.
PieceAt(i) == IF i <= Len(wire) THEN wire[i].piece
                                ELSE writeTasks[i - Len(wire)]

\* It is in order, and holds no piece that was not handed to write().
PieceInv ==
    /\ \A i, j \in 1..OutLen : i < j => PieceAt(i) < PieceAt(j)
    /\ \A i \in 1..OutLen : PieceAt(i) \in 1..written

\* While the peer is there, it holds all of them.
WholeInv ==
    peer = "open" =>
        /\ \A i \in 1..Len(wire) : wire[i].whole
        /\ OutLen = written
        /\ \A i \in 1..OutLen : PieceAt(i) = i

LEMMA OutIsPieces ==
    ASSUME TypeOK
    PROVE  /\ Sent \in Seq(1..MaxWrites) /\ Len(Sent) = Len(wire)
           /\ OutLen \in Nat /\ Len(wire) \in Nat /\ Len(writeTasks) \in Nat
           /\ Sent \o writeTasks \in Seq(1..MaxWrites)
           /\ Len(Sent \o writeTasks) = OutLen
           /\ \A i \in 1..OutLen : (Sent \o writeTasks)[i] = PieceAt(i)
<1>1. /\ wire \in Seq([piece : 1..MaxWrites, whole : BOOLEAN])
      /\ writeTasks \in Seq(1..MaxWrites)
  BY DEF TypeOK
<1>2. Len(wire) \in Nat /\ Len(writeTasks) \in Nat /\ OutLen \in Nat
  BY <1>1 DEF OutLen
<1>3. \A i \in 1..Len(wire) : wire[i].piece \in 1..MaxWrites
  <2> TAKE i \in 1..Len(wire)
  <2>1. wire[i] \in [piece : 1..MaxWrites, whole : BOOLEAN]
    BY <1>1, ElementOfSeq
  <2> QED BY <2>1
<1>4. Sent \in [1..Len(wire) -> 1..MaxWrites]
  BY <1>3 DEF Sent
<1>5. Sent \in Seq(1..MaxWrites) /\ Len(Sent) = Len(wire)
  <2> DEFINE S == 1..MaxWrites
             n == Len(wire)
  <2>1. n \in Nat /\ Sent \in [1..n -> S]
    BY <1>2, <1>4
  <2> HIDE DEF S, n
  <2>2. Sent \in Seq(S)
    BY <2>1
  <2>3. Len(Sent) = n
    BY <2>1
  <2> QED BY <2>2, <2>3 DEF S, n
<1>6. /\ Sent \o writeTasks \in Seq(1..MaxWrites)
      /\ Len(Sent \o writeTasks) = OutLen
      /\ \A i \in 1..OutLen :
            (Sent \o writeTasks)[i] = IF i <= Len(wire)
                                      THEN Sent[i] ELSE writeTasks[i - Len(wire)]
  <2> DEFINE S == 1..MaxWrites
  <2>1. Sent \in Seq(S) /\ writeTasks \in Seq(S) /\ Len(Sent) = Len(wire)
    BY <1>1, <1>5
  <2> HIDE DEF S
  <2>2. /\ Sent \o writeTasks \in Seq(S)
        /\ Len(Sent \o writeTasks) = Len(Sent) + Len(writeTasks)
        /\ \A i \in 1..Len(Sent) + Len(writeTasks) :
              (Sent \o writeTasks)[i] = IF i <= Len(Sent)
                                        THEN Sent[i] ELSE writeTasks[i - Len(Sent)]
    BY <2>1, ConcatProperties
  <2> QED BY <2>1, <2>2 DEF OutLen, S
<1>7. \A i \in 1..Len(wire) : Sent[i] = wire[i].piece
  BY DEF Sent
<1>8. ASSUME NEW i \in 1..OutLen PROVE (Sent \o writeTasks)[i] = PieceAt(i)
  <2>1. i \in Nat \ {0}
    BY <1>2
  <2>2. (Sent \o writeTasks)[i] = IF i <= Len(wire)
                                  THEN Sent[i] ELSE writeTasks[i - Len(wire)]
    BY <1>6
  <2>3. i <= Len(wire) => Sent[i] = wire[i].piece
    BY <1>2, <1>7, <2>1
  <2> QED BY <2>2, <2>3 DEF PieceAt
<1> QED BY <1>2, <1>5, <1>6, <1>8

\* A call of write() puts the next number at the end.
LEMMA WritePieces ==
    ASSUME TypeOK, Write
    PROVE  /\ OutLen' = OutLen + 1
           /\ \A i \in 1..OutLen : PieceAt(i)' = PieceAt(i)
           /\ \A i : i = OutLen + 1 => PieceAt(i)' = written + 1
           /\ written' = written + 1 /\ written \in Nat /\ OutLen \in Nat
           /\ UNCHANGED <<wire, peer>>
<1>1. /\ writeTasks \in Seq(1..MaxWrites) /\ writeTasks' = Append(writeTasks, written + 1)
      /\ written' = written + 1 /\ UNCHANGED <<wire, peer>>
      /\ written \in Nat /\ written + 1 \in 1..MaxWrites
  BY IPCAssumption DEF TypeOK, Write, socketVars
<1>2. /\ Len(writeTasks') = Len(writeTasks) + 1
      /\ \A i \in 1..Len(writeTasks) : writeTasks'[i] = writeTasks[i]
      /\ writeTasks'[Len(writeTasks) + 1] = written + 1
  BY <1>1
<1>3. Len(wire) \in Nat /\ Len(writeTasks) \in Nat /\ OutLen \in Nat
  BY OutIsPieces
<1>4. OutLen' = OutLen + 1
  BY <1>1, <1>2, <1>3 DEF OutLen
<1>5. ASSUME NEW i \in 1..OutLen PROVE PieceAt(i)' = PieceAt(i)
  BY <1>1, <1>2, <1>3 DEF OutLen, PieceAt
<1>6. ASSUME NEW i, i = OutLen + 1 PROVE PieceAt(i)' = written + 1
  BY <1>1, <1>2, <1>3, <1>6 DEF OutLen, PieceAt
<1> QED BY <1>1, <1>3, <1>4, <1>5, <1>6

\* A successful write(2) only moves the border between wire and queue.
LEMMA WriteOkPieces ==
    ASSUME TypeOK, WriteOk
    PROVE  /\ OutLen' = OutLen
           /\ \A i \in 1..OutLen : PieceAt(i)' = PieceAt(i)
           /\ Len(wire') = Len(wire) + 1
           /\ wire'[Len(wire) + 1].piece = PieceAt(Len(wire) + 1)
           /\ \A i \in 1..Len(wire) : wire'[i] = wire[i]
           /\ "short" \notin Faults => wire'[Len(wire) + 1].whole
           /\ Len(wire) + 1 \in 1..OutLen
           /\ UNCHANGED <<written, peer>>
<1>1. /\ writeTasks \in Seq(1..MaxWrites) /\ writeTasks # <<>>
      /\ writeTasks' = Tail(writeTasks)
      /\ wire \in Seq([piece : 1..MaxWrites, whole : BOOLEAN])
      /\ UNCHANGED <<written, peer>>
  BY DEF TypeOK, WriteOk, CanWrite, Popped, callerVars
<1>2. PICK whole \in BOOLEAN :
          /\ wire' = Append(wire, [piece |-> Head(writeTasks), whole |-> whole])
          /\ "short" \notin Faults => whole
  BY DEF WriteOk
<1>3. /\ Head(writeTasks) = writeTasks[1]
      /\ Head(writeTasks) \in 1..MaxWrites
      /\ Len(writeTasks) \in Nat \ {0}
      /\ Len(writeTasks') = Len(writeTasks) - 1
      /\ \A i \in 1..Len(writeTasks') : writeTasks'[i] = writeTasks[i + 1]
  <2> DEFINE S == 1..MaxWrites
  <2>1. writeTasks \in Seq(S) /\ writeTasks # <<>> /\ writeTasks' = Tail(writeTasks)
    BY <1>1
  <2> HIDE DEF S
  <2>2. Len(writeTasks) \in Nat \ {0} /\ Head(writeTasks) = writeTasks[1]
    BY <2>1
  <2>3. /\ Head(writeTasks) \in S
        /\ Len(writeTasks') = Len(writeTasks) - 1
        /\ \A i \in 1..Len(writeTasks') : writeTasks'[i] = writeTasks[i + 1]
    BY <2>1, HeadTailProperties
  <2> QED BY <2>2, <2>3 DEF S
<1>4. /\ Len(wire') = Len(wire) + 1
      /\ \A i \in 1..Len(wire) : wire'[i] = wire[i]
      /\ wire'[Len(wire) + 1] = [piece |-> Head(writeTasks), whole |-> whole]
  BY <1>1, <1>2, <1>3, AppendProperties
<1>5. Len(wire) \in Nat /\ OutLen \in Nat
  BY OutIsPieces
<1>6. OutLen' = OutLen /\ Len(wire) + 1 \in 1..OutLen
  BY <1>3, <1>4, <1>5 DEF OutLen
<1>7. ASSUME NEW i \in 1..OutLen PROVE PieceAt(i)' = PieceAt(i)
  <2>1. CASE i <= Len(wire)
    BY <1>4, <1>5, <2>1 DEF PieceAt
  <2>2. CASE i = Len(wire) + 1
    BY <1>3, <1>4, <1>5, <2>2 DEF PieceAt
  <2>3. CASE i > Len(wire) + 1
    <3>1. i - Len(wire') \in 1..Len(writeTasks')
      BY <1>3, <1>4, <1>5, <2>3 DEF OutLen
    <3>2. PieceAt(i)' = writeTasks[i - Len(wire') + 1]
      BY <1>3, <1>4, <1>5, <2>3, <3>1 DEF PieceAt
    <3> QED BY <1>4, <1>5, <2>3, <3>2 DEF PieceAt
  <2>4. i \in Int /\ Len(wire) \in Int
    BY <1>5
  <2>5. i <= Len(wire) \/ i = Len(wire) + 1 \/ i > Len(wire) + 1
    BY <2>4
  <2> QED BY <2>1, <2>2, <2>3, <2>5
<1>8. wire'[Len(wire) + 1].piece = PieceAt(Len(wire) + 1)
  BY <1>3, <1>4, <1>5 DEF PieceAt
<1> QED BY <1>1, <1>2, <1>4, <1>6, <1>7, <1>8

\* A failing write(2) takes out the piece behind that border.
LEMMA WriteFailsPieces ==
    ASSUME TypeOK, WriteFails
    PROVE  /\ OutLen' = OutLen - 1 /\ OutLen \in Nat \ {0}
           /\ \A i \in 1..(OutLen - 1) :
                  PieceAt(i)' = PieceAt(IF i <= Len(wire) THEN i ELSE i + 1)
           /\ UNCHANGED <<written, wire, peer>>
<1>1. /\ writeTasks \in Seq(1..MaxWrites) /\ writeTasks # <<>>
      /\ writeTasks' = Tail(writeTasks)
      /\ UNCHANGED <<written, wire, peer>>
  BY DEF TypeOK, WriteFails, CanWrite, Popped, callerVars, socketVars
<1>2. /\ Len(writeTasks) \in Nat \ {0}
      /\ Len(writeTasks') = Len(writeTasks) - 1
      /\ \A i \in 1..Len(writeTasks') : writeTasks'[i] = writeTasks[i + 1]
  BY <1>1
<1>3. Len(wire) \in Nat /\ OutLen \in Nat
  BY OutIsPieces
<1>4. OutLen' = OutLen - 1 /\ OutLen \in Nat \ {0}
  BY <1>1, <1>2, <1>3 DEF OutLen
<1>5. ASSUME NEW i \in 1..(OutLen - 1)
      PROVE  PieceAt(i)' = PieceAt(IF i <= Len(wire) THEN i ELSE i + 1)
  <2>1. CASE i <= Len(wire)
    BY <1>1, <2>1 DEF PieceAt
  <2>2. CASE i > Len(wire)
    <3>1. i - Len(wire) \in 1..Len(writeTasks')
      BY <1>2, <1>3, <2>2 DEF OutLen
    <3>2. PieceAt(i)' = writeTasks[i - Len(wire) + 1]
      BY <1>1, <1>2, <1>3, <2>2, <3>1 DEF PieceAt
    <3> QED BY <1>3, <2>2, <3>2 DEF PieceAt
  <2> QED BY <1>3, <2>1, <2>2
<1> QED BY <1>1, <1>4, <1>5

\* Everything but those three leaves the pieces alone, and no peer comes back.
LEMMA PieceFrame ==
    ASSUME [Next]_vars, ~Write, ~WriteOk, ~WriteFails
    PROVE  /\ UNCHANGED <<wire, writeTasks, written>>
           /\ peer' = "open" => peer = "open"
<1>1. CASE UNCHANGED vars
  BY <1>1 DEF vars, taskVars, callerVars, socketVars
<1>2. CASE Caller
  BY <1>2 DEF Caller, Connect, ConnectFails, Read, Return, DisconnectBegin,
              DisconnectEnd, taskVars, socketVars
<1>3. CASE Worker
  BY <1>3 DEF Worker, WorkerStart, Loop, Poll, PollFails, WriteSkip, ReadSome,
              ReadEof, ReadError, ReadSkip, Pop, Hup, Exit, taskVars,
              callerVars, socketVars
<1>4. CASE Peer
  BY <1>4 DEF Peer, PeerSend, PeerCloses, PeerDrains, taskVars, callerVars
<1> QED BY <1>1, <1>2, <1>3, <1>4 DEF Next

LEMMA PieceInit == Init => PieceInv /\ WholeInv
<1> SUFFICES ASSUME Init PROVE PieceInv /\ WholeInv
  OBVIOUS
<1>1. Len(wire) = 0 /\ Len(writeTasks) = 0 /\ written = 0
  BY DEF Init
<1>2. OutLen = 0
  BY <1>1 DEF OutLen
<1> QED BY <1>1, <1>2 DEF PieceInv, WholeInv

LEMMA PieceStep ==
    ASSUME TypeOK, PieceInv, [Next]_vars
    PROVE  PieceInv'
<1>0. OutLen \in Nat /\ Len(wire) \in Nat
  BY OutIsPieces
<1>1. CASE Write
  <2>1. /\ OutLen' = OutLen + 1
        /\ \A i \in 1..OutLen : PieceAt(i)' = PieceAt(i)
        /\ \A i : i = OutLen + 1 => PieceAt(i)' = written + 1
        /\ written' = written + 1 /\ written \in Nat
    BY <1>1, WritePieces
  <2>2. ASSUME NEW i \in 1..OutLen'
        PROVE  /\ PieceAt(i)' \in 1..written'
               /\ i # OutLen + 1 => i \in 1..OutLen /\ PieceAt(i)' \in 1..written
    <3>1. CASE i \in 1..OutLen
      BY <2>1, <3>1 DEF PieceInv
    <3>2. CASE i = OutLen + 1
      BY <2>1, <3>2
    <3> QED BY <1>0, <2>1, <3>1, <3>2
  <2>3. ASSUME NEW i \in 1..OutLen', NEW j \in 1..OutLen', i < j
        PROVE  PieceAt(i)' < PieceAt(j)'
    <3>1. i \in 1..OutLen /\ PieceAt(i)' \in 1..written
      BY <1>0, <2>1, <2>2, <2>3
    <3>2. CASE j \in 1..OutLen
      BY <2>1, <2>3, <3>1, <3>2 DEF PieceInv
    <3>3. CASE j = OutLen + 1
      BY <2>1, <3>1, <3>3
    <3> QED BY <1>0, <2>1, <3>2, <3>3
  <2> QED BY <2>2, <2>3 DEF PieceInv
<1>2. CASE WriteOk
  <2>1. /\ OutLen' = OutLen /\ written' = written
        /\ \A i \in 1..OutLen : PieceAt(i)' = PieceAt(i)
    BY <1>2, WriteOkPieces
  <2> QED BY <2>1 DEF PieceInv
<1>3. CASE WriteFails
  <2> DEFINE Old(i) == IF i <= Len(wire) THEN i ELSE i + 1
  <2>1. /\ OutLen' = OutLen - 1 /\ OutLen \in Nat \ {0} /\ written' = written
        /\ \A i \in 1..(OutLen - 1) : PieceAt(i)' = PieceAt(Old(i))
    BY <1>3, WriteFailsPieces
  <2>2. \A i \in 1..(OutLen - 1) : Old(i) \in 1..OutLen
    BY <1>0, <2>1
  <2>3. \A i, j \in 1..(OutLen - 1) : i < j => Old(i) < Old(j)
    BY <1>0, <2>1
  <2> HIDE DEF Old
  <2> QED BY <2>1, <2>2, <2>3 DEF PieceInv
<1>4. CASE ~Write /\ ~WriteOk /\ ~WriteFails
  <2>1. UNCHANGED <<wire, writeTasks, written>>
    BY <1>4, PieceFrame
  <2> QED BY <2>1 DEF PieceInv, OutLen, PieceAt
<1> QED BY <1>1, <1>2, <1>3, <1>4

\* What is on the wire and in the queue is in order because it is what
\* PieceInv speaks of.
LEMMA PiecesAreWire ==
    ASSUME TypeOK, PieceInv PROVE WireInOrder
<1>1. Sent \o writeTasks = [i \in 1..Len(wire) |-> wire[i].piece] \o writeTasks
  BY DEF Sent
<1>2. \A i, j \in 1..OutLen : i < j =>
          (Sent \o writeTasks)[i] < (Sent \o writeTasks)[j]
  BY OutIsPieces DEF PieceInv
<1> QED BY <1>1, <1>2, OutIsPieces DEF WireInOrder

\* Under every fault the pieces leave in the order of the write() calls and
\* none of them twice, so that no body overtakes its header and no message
\* another.
THEOREM PiecesLeaveInOrder == Spec => []WireInOrder
<1> DEFINE Inv == TypeInv /\ PieceInv
<1>1. Init => Inv
  BY TypeInit, PieceInit
<1>2. Inv /\ [Next]_vars => Inv'
  BY TypeStep, PieceStep DEF TypeInv
<1>3. Inv => WireInOrder
  BY PiecesAreWire DEF TypeInv
<1> QED BY <1>1, <1>2, <1>3, PTL DEF Spec

LEMMA WholeStep ==
    ASSUME Faults \cap {"short", "again"} = {}, TypeOK, WholeInv, [Next]_vars
    PROVE  WholeInv'
<1> SUFFICES ASSUME peer' = "open"
             PROVE  /\ \A i \in 1..Len(wire') : wire'[i].whole
                    /\ OutLen' = written'
                    /\ \A i \in 1..OutLen' : PieceAt(i)' = i
  BY DEF WholeInv
<1>0. OutLen \in Nat /\ Len(wire) \in Nat
  BY OutIsPieces
<1>1. CASE Write
  <2>1. /\ OutLen' = OutLen + 1 /\ written' = written + 1
        /\ \A i \in 1..OutLen : PieceAt(i)' = PieceAt(i)
        /\ \A i : i = OutLen + 1 => PieceAt(i)' = written + 1
        /\ UNCHANGED <<wire, peer>>
    BY <1>1, WritePieces
  <2>2. /\ \A i \in 1..Len(wire) : wire[i].whole
        /\ OutLen = written
        /\ \A i \in 1..OutLen : PieceAt(i) = i
    BY <2>1 DEF WholeInv
  <2>3. ASSUME NEW i \in 1..OutLen' PROVE PieceAt(i)' = i
    <3>1. i \in 1..OutLen \/ i = OutLen + 1
      BY <1>0, <2>1
    <3> QED BY <2>1, <2>2, <3>1
  <2> QED BY <2>1, <2>2, <2>3
<1>2. CASE WriteOk
  <2>1. /\ OutLen' = OutLen /\ UNCHANGED <<written, peer>>
        /\ \A i \in 1..OutLen : PieceAt(i)' = PieceAt(i)
        /\ Len(wire') = Len(wire) + 1
        /\ \A i \in 1..Len(wire) : wire'[i] = wire[i]
        /\ wire'[Len(wire) + 1].whole
    BY <1>2, WriteOkPieces
  <2>2. /\ \A i \in 1..Len(wire) : wire[i].whole
        /\ OutLen = written
        /\ \A i \in 1..OutLen : PieceAt(i) = i
    BY <2>1 DEF WholeInv
  <2>3. ASSUME NEW i \in 1..Len(wire') PROVE wire'[i].whole
    <3>1. i \in 1..Len(wire) \/ i = Len(wire) + 1
      BY <1>0, <2>1
    <3> QED BY <2>1, <2>2, <3>1
  <2> QED BY <2>1, <2>2, <2>3
<1>3. CASE WriteFails
  BY <1>3 DEF WriteFails, socketVars
<1>4. CASE ~Write /\ ~WriteOk /\ ~WriteFails
  <2>1. UNCHANGED <<wire, writeTasks, written>> /\ peer = "open"
    BY <1>4, PieceFrame
  <2> QED BY <2>1 DEF WholeInv, OutLen, PieceAt
<1> QED BY <1>1, <1>2, <1>3, <1>4

LEMMA WholeIsNothingLost ==
    ASSUME TypeOK, WholeInv PROVE NothingLost
<1> SUFFICES ASSUME peer = "open"
             PROVE  /\ \A i \in 1..Len(wire) : wire[i].whole
                    /\ [i \in 1..Len(wire) |-> wire[i].piece] \o writeTasks
                           = [i \in 1..written |-> i]
  BY DEF NothingLost
<1>1. /\ \A i \in 1..Len(wire) : wire[i].whole
      /\ OutLen = written
      /\ \A i \in 1..OutLen : PieceAt(i) = i
  BY DEF WholeInv
<1> DEFINE out == Sent \o writeTasks
           all == [i \in 1..written |-> i]
<1>2. /\ written \in Nat /\ written <= MaxWrites /\ MaxWrites \in Nat
  BY IPCAssumption DEF TypeOK
<1>3. /\ out \in Seq(1..MaxWrites) /\ Len(out) = written
      /\ \A i \in 1..written : out[i] = i
  BY <1>1, OutIsPieces
<1>4. all \in [1..written -> 1..MaxWrites] /\ \A i \in 1..written : all[i] = i
  BY <1>2
<1>5. all \in Seq(1..MaxWrites) /\ Len(all) = written
  <2> DEFINE S == 1..MaxWrites
  <2>1. all \in [1..written -> S]
    BY <1>4
  <2> HIDE DEF S, all
  <2>2. all \in Seq(S)
    BY <1>2, <2>1
  <2>3. Len(all) = written
    BY <1>2, <2>1
  <2> QED BY <2>2, <2>3 DEF S
<1> HIDE DEF out, all
<1>6. out = all
  BY <1>3, <1>4, <1>5, SeqEqual
<1> QED BY <1>1, <1>6 DEF out, all, Sent

\* As long as write(2) takes what it is given, a full buffer only delays:
\* everything handed to write() is queued or whole on the wire while the peer
\* is there.  (Short and failing writes do lose pieces: ipc_short_write.)
THEOREM NothingIsLost ==
    ASSUME Faults \cap {"short", "again"} = {}
    PROVE  Spec => []NothingLost
<1> DEFINE Inv == TypeInv /\ WholeInv
<1>1. Init => Inv
  BY TypeInit, PieceInit
<1>2. Inv /\ [Next]_vars => Inv'
  BY TypeStep, WholeStep DEF TypeInv
<1>3. Inv => NothingLost
  BY WholeIsNothingLost DEF TypeInv
<1> QED BY <1>1, <1>2, <1>3, PTL DEF Spec
-----------------------------------------------------------------------------
(* The refinement.  What it needs besides the invariants above is that the *)
(* caller only asks when it has its answer, and that faults which lose no  *)
(* piece do not take the peer away either.                                 *)

Reliable == Faults \subseteq {"connect", "poll", "full"}

ChannelInv ==
    /\ ReadInv
    /\ PieceInv
    /\ reader = "idle" => Len(answers) = Len(asked)
    /\ Reliable => WholeInv /\ peer = "open"

\* The answers as the channel sees them.
AnswerData == [i \in 1..Len(answers) |-> answers[i].data]

LEMMA AnsweredType ==
    ASSUME TypeInv
    PROVE  /\ AnswerData \in Seq(Seq(Bytes)) /\ Len(AnswerData) = Len(answers)
           /\ \A i \in 1..Len(answers) : AnswerData[i] = answers[i].data
           /\ Channel!LastByte(AnswerData) = LastByte(Len(answers))
<1>1. answers \in Seq(Answer) /\ Len(answers) \in Nat
  BY DEF TypeInv, TypeOK
<1>2. \A i \in 1..Len(answers) : answers[i].data \in Seq(Bytes)
  <2> TAKE i \in 1..Len(answers)
  <2>1. answers[i] \in Answer
    BY <1>1
  <2> QED BY <2>1 DEF Answer
<1>3. AnswerData \in [1..Len(answers) -> Seq(Bytes)]
  BY <1>2 DEF AnswerData
<1>4. AnswerData \in Seq(Seq(Bytes)) /\ Len(AnswerData) = Len(answers)
  <2> DEFINE S == Seq(Bytes)
             n == Len(answers)
  <2>1. n \in Nat /\ AnswerData \in [1..n -> S]
    BY <1>1, <1>3
  <2> HIDE DEF S, n
  <2>2. AnswerData \in Seq(S)
    BY <2>1
  <2>3. Len(AnswerData) = n
    BY <2>1
  <2> QED BY <2>2, <2>3 DEF S, n
<1>5. \A i \in 1..Len(answers) : AnswerData[i] = answers[i].data
  BY DEF AnswerData
<1>6. Channel!LastByte(AnswerData) = LastByte(Len(answers))
  <2>1. CASE Len(answers) = 0
    BY <1>4, <2>1 DEF Channel!LastByte, LastByte
  <2>2. CASE Len(answers) # 0
    <3>1. Len(answers) \in 1..Len(answers) /\ AnswerData # <<>>
      BY <1>1, <1>4, <2>2
    <3> QED BY <1>4, <1>5, <2>2, <3>1 DEF Channel!LastByte, LastByte
  <2> QED BY <2>1, <2>2
<1> QED BY <1>4, <1>5, <1>6

\* The last piece on the wire, as the channel sees it.
LEMMA LastPieceAt ==
    ASSUME TypeOK
    PROVE  Channel!LastPiece = IF Len(wire) = 0 THEN 0 ELSE PieceAt(Len(wire))
<1>1. Sent \in Seq(1..MaxWrites) /\ Len(Sent) = Len(wire) /\ Len(wire) \in Nat
  BY OutIsPieces
<1>2. Channel!LastPiece = IF Sent = <<>> THEN 0 ELSE Sent[Len(Sent)]
  BY DEF Channel!LastPiece, Sent
<1>3. CASE Len(wire) = 0
  BY <1>1, <1>2, <1>3
<1>4. CASE Len(wire) # 0
  <2>1. Sent # <<>> /\ Len(wire) \in 1..Len(wire)
    BY <1>1, <1>4
  <2>2. Sent[Len(wire)] = PieceAt(Len(wire))
    BY <1>1, <2>1 DEF Sent, PieceAt
  <2> QED BY <1>1, <1>2, <1>4, <2>1, <2>2
<1> QED BY <1>3, <1>4

\* A promise that is set is an answer of the channel: the next stretch of
\* bytes, all of which have arrived.
LEMMA AnswerRefines ==
    ASSUME ReadInv, ReadInv', worker = "read", CanRead, worker' = "pop",
           NEW ans, answers' = Append(answers, ans),
           UNCHANGED <<asked, arrived, written, wire>>
    PROVE  Channel!Answer
<1>1. /\ answers \in Seq(Answer) /\ answers' \in Seq(Answer)
      /\ Len(answers) \in Nat /\ TypeInv /\ TypeInv'
  BY DEF ReadInv, TaskInv, TypeInv, TypeOK
<1> PICK n \in Nat : n = Len(answers)
  BY <1>1
<1>2. /\ Len(answers') = n + 1
      /\ \A i \in 1..n : answers'[i] = answers[i]
      /\ answers'[n + 1] = ans
  BY <1>1
<1>3. LastByte(n)' = LastByte(n)
  BY <1>1, <1>2 DEF LastByte
<1>4. n + 1 <= Len(asked) /\ asked[n + 1] \in Nat \ {0}
  BY HeadOfQueue DEF ReadInv
<1>5. ans.data = Slice(LastByte(n), asked[n + 1])
  <2>1. \A i \in 1..Len(answers') :
            answers'[i].data = Slice(LastByte(i - 1)', asked'[i])
    BY DEF ReadInv, ReadsInOrder
  <2>2. ans.data = Slice(LastByte(n + 1 - 1)', asked'[n + 1])
    BY <1>2, <2>1
  <2> QED BY <1>3, <2>2
<1>6. LastByte(n) + asked[n + 1] <= arrived
  <2>1. consumed' <= arrived
    BY <1>1 DEF TypeInv
  <2>2. consumed' = LastByte(n + 1)'
    BY <1>2 DEF ReadInv, BufferInv
  <2>3. Len(ans.data) = asked[n + 1]
    BY <1>4, <1>5 DEF Slice
  <2>4. LastByte(n + 1)' = ans.data[Len(ans.data)]
    BY <1>2 DEF LastByte
  <2>5. ans.data[asked[n + 1]] = LastByte(n) + asked[n + 1]
    BY <1>4, <1>5 DEF Slice
  <2> QED BY <2>1, <2>2, <2>3, <2>4, <2>5
<1>7. /\ Len(AnswerData) = n /\ Channel!LastByte(AnswerData) = LastByte(n)
      /\ AnswerData \in Seq(Seq(Bytes))
      /\ \A i \in 1..n : AnswerData[i] = answers[i].data
  BY <1>1, AnsweredType
<1>8. AnswerData' = Append(AnswerData, Slice(LastByte(n), asked[n + 1]))
  <2> DEFINE new == Append(AnswerData, ans.data)
  <2>1. AnswerData' = [i \in 1..(n + 1) |-> answers'[i].data]
    BY <1>2 DEF AnswerData
  <2>2. new = [i \in 1..(n + 1) |-> IF i = n + 1 THEN ans.data ELSE AnswerData[i]]
    BY <1>7
  <2>3. \A i \in 1..(n + 1) :
            answers'[i].data = IF i = n + 1 THEN ans.data ELSE AnswerData[i]
    BY <1>2, <1>7
  <2> QED BY <1>5, <2>1, <2>2, <2>3
<1>9. AnswerData' = Append(AnswerData, Channel!Slice(Channel!LastByte(AnswerData),
                                                   asked[Len(AnswerData) + 1]))
  BY <1>7, <1>8 DEF Channel!Slice, Slice
<1>10. /\ Len(AnswerData) < Len(asked)
       /\ Channel!LastByte(AnswerData) + asked[Len(AnswerData) + 1] <= arrived
  <2>1. Len(asked) \in Nat
    BY DEF ReadInv, TaskInv, TypeInv, TypeOK
  <2> QED BY <1>4, <1>6, <1>7, <2>1
<1>11. UNCHANGED <<asked, arrived, written, Sent>>
  BY DEF Sent
<1> QED BY <1>9, <1>10, <1>11 DEF Channel!Answer, AnswerData, Sent

\* A piece that leaves is the channel's next one: later than the last, and
\* when nothing is lost the very next.
LEMMA SendRefines ==
    ASSUME ChannelInv, WriteOk
    PROVE  \E p \in 1..written : Channel!Send(p)
<1>1. TypeOK
  BY DEF ChannelInv, ReadInv, TaskInv, TypeInv
<1>2. /\ Len(wire') = Len(wire) + 1
      /\ wire'[Len(wire) + 1].piece = PieceAt(Len(wire) + 1)
      /\ \A i \in 1..Len(wire) : wire'[i] = wire[i]
      /\ Len(wire) + 1 \in 1..OutLen
  BY <1>1, WriteOkPieces
<1>3. /\ Sent \in Seq(1..MaxWrites) /\ Len(Sent) = Len(wire)
      /\ Len(wire) \in Nat /\ OutLen \in Nat
  BY <1>1, OutIsPieces
<1>4. PieceAt(Len(wire) + 1) \in 1..written
  BY <1>2 DEF ChannelInv, PieceInv
<1> PICK p \in 1..written : p = PieceAt(Len(wire) + 1)
  BY <1>4
<1>5. p > Channel!LastPiece /\ (Reliable => p = Channel!LastPiece + 1)
  <2>1. Channel!LastPiece = IF Len(wire) = 0 THEN 0 ELSE PieceAt(Len(wire))
    BY <1>1, LastPieceAt
  <2>2. CASE Len(wire) = 0
    <3>1. Reliable => p = 1
      BY <1>2, <2>2 DEF ChannelInv, WholeInv
    <3> QED BY <1>4, <2>1, <2>2, <3>1
  <2>3. CASE Len(wire) # 0
    <3>1. Len(wire) \in 1..OutLen /\ Len(wire) < Len(wire) + 1
      BY <1>2, <1>3, <2>3
    <3>2. PieceAt(Len(wire)) < p /\ PieceAt(Len(wire)) \in 1..written
      BY <1>2, <3>1 DEF ChannelInv, PieceInv
    <3>3. Reliable => p = Len(wire) + 1 /\ PieceAt(Len(wire)) = Len(wire)
      BY <1>2, <3>1 DEF ChannelInv, WholeInv
    <3>4. p \in Int /\ PieceAt(Len(wire)) \in Int
      BY <1>4, <3>2
    <3> QED BY <1>3, <2>1, <2>3, <3>2, <3>3, <3>4
  <2> QED BY <2>2, <2>3
<1>6. Sent' = Append(Sent, p)
  <2> DEFINE n == Len(wire)
             S == 1..MaxWrites
  <2>1. Sent' = [i \in 1..(n + 1) |-> wire'[i].piece]
    BY <1>2 DEF Sent
  <2>2. \A i \in 1..(n + 1) :
            wire'[i].piece = IF i = n + 1 THEN p ELSE Sent[i]
    BY <1>2, <1>3 DEF Sent
  <2>3. Sent \in Seq(S) /\ Len(Sent) = n /\ n \in Nat /\ p \in S
    <3>1. written \in Nat /\ written <= MaxWrites
      BY <1>1, IPCAssumption DEF TypeOK
    <3>2. p \in S
      BY <3>1, IPCAssumption
    <3> QED BY <1>3, <3>2
  <2> HIDE DEF n, S
  <2>4. Append(Sent, p) = [i \in 1..(n + 1) |-> IF i = n + 1 THEN p ELSE Sent[i]]
    BY <2>3
  <2> QED BY <2>1, <2>2, <2>4
<1>7. UNCHANGED <<asked, AnswerData, arrived, written>>
  BY DEF WriteOk, callerVars, AnswerData
<1>8. Channel!Send(p)
  <2>1. Faults \subseteq {"connect", "poll", "full"} => p = Channel!LastPiece + 1
    BY <1>5 DEF Reliable
  <2>2. [i \in 1..Len(wire) |-> wire[i].piece]'
            = Append([i \in 1..Len(wire) |-> wire[i].piece], p)
    BY <1>6 DEF Sent
  <2>3. UNCHANGED <<asked, [i \in 1..Len(answers) |-> answers[i].data],
                    arrived, written>>
    BY <1>7 DEF AnswerData
  <2> QED BY <1>5, <2>1, <2>2, <2>3 DEF Channel!Send
<1> QED BY <1>8

LEMMA ChannelInit == Init => ChannelInv /\ Channel!Init
<1> SUFFICES ASSUME Init PROVE ChannelInv /\ Channel!Init
  OBVIOUS
<1>1. ReadInv /\ PieceInv /\ WholeInv
  BY ReadInit, PieceInit
<1>2. Len(answers) = Len(asked) /\ peer = "open"
  BY DEF Init
<1>3. ChannelInv
  BY <1>1, <1>2 DEF ChannelInv
<1>4. /\ [i \in 1..Len(answers) |-> answers[i].data] = <<>>
      /\ [i \in 1..Len(wire) |-> wire[i].piece] = <<>>
  BY DEF Init
<1> QED BY <1>3, <1>4 DEF Init, Channel!Init

\* The caller has its answer whenever it may ask.
LEMMA IdleStep ==
    ASSUME ChannelInv, [Next]_vars
    PROVE  (reader = "idle" => Len(answers) = Len(asked))'
<1> SUFFICES ASSUME reader' = "idle" PROVE Len(answers') = Len(asked')
  OBVIOUS
<1>0. TaskInv
  BY DEF ChannelInv, ReadInv
<1>1. CASE Return
  <2>1. PICK i \in 1..Len(answers) : answers[i].promise = Len(asked)
    BY <1>1 DEF Return, Answered
  <2>2. i = Len(asked)
    BY <1>0, <2>1 DEF TaskInv, PromisesSetOnce
  <2>3. Len(answers) \in Nat /\ Len(answers) <= Len(asked) /\ Len(asked) \in Nat
    BY <1>0, AnswersAsked DEF TaskInv, TypeInv, TypeOK
  <2> QED BY <1>1, <2>1, <2>2, <2>3 DEF Return
<1>2. CASE UNCHANGED <<answers, asked, reader>>
  BY <1>2 DEF ChannelInv
<1>3. CASE ReadSome \/ ReadEof \/ ReadError
  <2>1. worker = "read" /\ CanRead /\ reader = "idle"
    BY <1>3 DEF ReadSome, ReadEof, ReadError, callerVars
  <2>2. Len(answers) + 1 <= Len(asked)
    BY <1>0, <2>1, HeadOfQueue
  <2>3. Len(answers) = Len(asked) /\ Len(answers) \in Nat
    BY <1>0, <2>1, AnswersAsked DEF ChannelInv
  <2> QED BY <2>2, <2>3
<1>4. CASE \E n \in Sizes : Read(n)
  BY <1>4 DEF Read
<1>5. CASE Connect \/ ConnectFails \/ Write \/ DisconnectBegin \/ DisconnectEnd
  BY <1>2, <1>5 DEF Connect, ConnectFails, Write, DisconnectBegin, DisconnectEnd
<1>6. CASE \/ WorkerStart \/ Loop \/ Poll \/ PollFails \/ WriteOk
           \/ WriteFails \/ WriteSkip \/ ReadSkip \/ Pop \/ Hup \/ Exit
  BY <1>2, <1>6 DEF WorkerStart, Loop, Poll, PollFails, WriteOk, WriteFails,
                    WriteSkip, ReadSkip, Pop, Hup, Exit, callerVars
<1>7. CASE Peer
  BY <1>2, <1>7 DEF Peer, PeerSend, PeerCloses, PeerDrains, callerVars
<1>8. CASE UNCHANGED vars
  BY <1>2, <1>8 DEF vars, callerVars
<1> QED BY <1>1, <1>3, <1>4, <1>5, <1>6, <1>7, <1>8 DEF Next, Caller, Worker

LEMMA ChannelInvStep ==
    ASSUME "reset" \notin Faults, ChannelInv, [Next]_vars
    PROVE  ChannelInv'
<1>1. ReadInv'
  BY ReadStep DEF ChannelInv
<1>2. TypeOK
  BY DEF ChannelInv, ReadInv, TaskInv, TypeInv
<1>3. PieceInv'
  BY <1>2, PieceStep DEF ChannelInv
<1>4. ASSUME Reliable PROVE WholeInv' /\ peer' = "open"
  <2>1. "short" \notin Faults /\ "again" \notin Faults /\ "hangup" \notin Faults
    BY <1>4 DEF Reliable
  <2>2. Faults \cap {"short", "again"} = {}
    BY <2>1
  <2>3. WholeInv /\ peer = "open"
    BY <1>4 DEF ChannelInv
  <2>4. peer' = "open"
    <3>1. CASE UNCHANGED vars
      BY <2>3, <3>1 DEF vars, socketVars
    <3>2. CASE Caller
      BY <2>3, <3>2 DEF Caller, Connect, ConnectFails, Read, Return, Write,
                        DisconnectBegin, DisconnectEnd, socketVars
    <3>3. CASE Worker
      BY <2>3, <3>3 DEF Worker, WorkerStart, Loop, Poll, PollFails, WriteOk,
                        WriteFails, WriteSkip, ReadSome, ReadEof, ReadError,
                        ReadSkip, Pop, Hup, Exit, socketVars
    <3>4. CASE Peer
      BY <2>1, <2>3, <3>4 DEF Peer, PeerSend, PeerCloses, PeerDrains
    <3> QED BY <3>1, <3>2, <3>3, <3>4 DEF Next
  <2> QED BY <1>2, <2>2, <2>3, <2>4, WholeStep
<1>5. (reader = "idle" => Len(answers) = Len(asked))'
  BY IdleStep
<1>6. Reliable => WholeInv' /\ peer' = "open"
  BY <1>4
<1>7. Reliable' <=> Reliable
  BY DEF Reliable
<1> QED BY <1>1, <1>3, <1>5, <1>6, <1>7 DEF ChannelInv

\* Every step of the callers, the worker and the peer is one of the channel
\* or leaves it alone.
LEMMA ChannelStep ==
    ASSUME ChannelInv, ChannelInv', [Next]_vars
    PROVE  [Channel!Next]_(Channel!vars)
<1>0. TypeInv /\ Len(AnswerData) = Len(answers)
  BY AnsweredType DEF ChannelInv, ReadInv, TaskInv
<1>1. CASE UNCHANGED <<asked, answers, arrived, written, wire>>
  BY <1>1 DEF Channel!vars
<1>2. CASE \E n \in Sizes : Read(n)
  <2>1. PICK n \in Sizes : Read(n)
    BY <1>2
  <2>2. Len(AnswerData) = Len(asked)
    BY <1>0, <2>1 DEF Read, ChannelInv
  <2>3. asked' = Append(asked, n) /\ UNCHANGED <<answers, arrived, written, wire>>
    BY <2>1 DEF Read, socketVars
  <2>4. UNCHANGED <<AnswerData, Sent>>
    BY <2>3 DEF AnswerData, Sent
  <2>5. Channel!Ask(n)
    BY <2>2, <2>3, <2>4 DEF Channel!Ask, AnswerData, Sent
  <2> QED BY <2>5 DEF Channel!Next
<1>3. CASE Write
  <2>1. written' = written + 1 /\ UNCHANGED <<asked, answers, arrived, wire>>
    BY <1>3 DEF Write, socketVars
  <2>2. Channel!Put
    BY <2>1 DEF Channel!Put
  <2> QED BY <2>2 DEF Channel!Next
<1>4. CASE PeerSend
  <2>1. arrived' = arrived + 1 /\ UNCHANGED <<asked, answers, written, wire>>
    BY <1>4 DEF PeerSend, callerVars
  <2>2. Channel!PeerSend
    BY <2>1 DEF Channel!PeerSend
  <2> QED BY <2>2 DEF Channel!Next
<1>5. CASE WriteOk
  BY <1>5, SendRefines DEF Channel!Next
<1>6. CASE ReadSome \/ ReadEof
  <2>1. /\ worker = "read" /\ CanRead
        /\ UNCHANGED <<asked, arrived, written, wire>>
    BY <1>6 DEF ReadSome, ReadEof, callerVars, socketVars
  <2>2. \/ answers' = answers
        \/ worker' = "pop" /\ \E ans : answers' = Append(answers, ans)
    BY <1>6 DEF ReadSome, ReadEof, Advance
  <2>3. CASE answers' = answers
    BY <1>1, <2>1, <2>3
  <2>4. CASE worker' = "pop" /\ \E ans : answers' = Append(answers, ans)
    <3>1. Channel!Answer
      BY <2>1, <2>4, AnswerRefines DEF ChannelInv
    <3> QED BY <3>1 DEF Channel!Next
  <2> QED BY <2>2, <2>3, <2>4
<1>7. CASE ReadError
  BY <1>7 DEF ReadError, ChannelInv, ReadInv
<1>8. CASE Connect \/ ConnectFails \/ Return \/ DisconnectBegin \/ DisconnectEnd
  BY <1>1, <1>8 DEF Connect, ConnectFails, Return, DisconnectBegin,
                    DisconnectEnd, socketVars
<1>9. CASE \/ WorkerStart \/ Loop \/ Poll \/ PollFails \/ WriteFails
           \/ WriteSkip \/ ReadSkip \/ Pop \/ Hup \/ Exit
  BY <1>1, <1>9 DEF WorkerStart, Loop, Poll, PollFails, WriteFails, WriteSkip,
                    ReadSkip, Pop, Hup, Exit, callerVars, socketVars
<1>10. CASE PeerCloses \/ PeerDrains
  BY <1>1, <1>10 DEF PeerCloses, PeerDrains, callerVars
<1>11. CASE UNCHANGED vars
  BY <1>1, <1>11 DEF vars, callerVars, socketVars
<1> QED BY <1>2, <1>3, <1>4, <1>5, <1>6, <1>7, <1>8, <1>9, <1>10, <1>11
        DEF Next, Caller, Worker, Peer

\* Unless the peer resets the connection, the two queues, the buffer and the
\* worker implement a ByteChannel: an answer per question out of the peer's
\* stream, pieces in the order of the calls, and none skipped under the
\* faults that lose none.
THEOREM ConnectionImplementsChannel ==
    ASSUME "reset" \notin Faults
    PROVE  Spec => ImplementsChannel
<1>1. ChannelInv /\ [Next]_vars => ChannelInv'
  BY ChannelInvStep
<1>2. ChannelInv /\ ChannelInv' /\ [Next]_vars => [Channel!Next]_(Channel!vars)
  BY ChannelStep
<1> QED BY ChannelInit, <1>1, <1>2, PTL
        DEF Spec, ImplementsChannel, Channel!Spec
-----------------------------------------------------------------------------
(* What the callers of read() may count on, in one place: the clients'      *)
(* proofs cite it of the connection they instantiate.                       *)

\* The answers are the reads, in order and end to end, and no byte of them is
\* one that had not arrived.
CallerView ==
    /\ asked \in Seq(Sizes) /\ answers \in Seq(Answer)
    /\ Len(asked) \in Nat /\ Len(answers) \in 0..Len(asked)
    /\ reader = "idle" => Len(answers) = Len(asked)
    /\ \A i \in 1..Len(answers) :
          /\ answers[i].promise = i
          /\ answers[i].data = Slice(LastByte(i - 1), asked[i])
          /\ LastByte(i - 1) \in Nat
          /\ LastByte(i) = LastByte(i - 1) + asked[i]
    /\ LastByte(Len(answers)) <= consumed /\ consumed <= arrived
    /\ consumed \in Nat /\ arrived \in 0..MaxArrived

LEMMA AnswerEnds ==
    ASSUME ReadInv, NEW i \in 1..Len(answers)
    PROVE  /\ LastByte(i - 1) \in Nat
           /\ LastByte(i) = LastByte(i - 1) + asked[i]
<1>1. Len(answers) \in Nat /\ i \in Nat \ {0} /\ i <= Len(answers)
  BY AnswersAsked DEF ReadInv
<1>2. LastByte(i - 1) \in Nat
  <2>1. CASE i = 1
    BY <2>1 DEF LastByte
  <2>2. CASE i # 1
    <3>1. i - 1 \in 1..Len(answers)
      BY <1>1, <2>2
    <3> QED BY <3>1, AnswerType
  <2> QED BY <2>1, <2>2
<1>3. /\ asked[i] \in Nat \ {0} /\ Len(answers[i].data) = asked[i]
      /\ answers[i].data = Slice(LastByte(i - 1), asked[i])
  BY AnswerType DEF ReadInv, ReadsInOrder
<1>4. answers[i].data[asked[i]] = LastByte(i - 1) + asked[i]
  BY <1>2, <1>3 DEF Slice
<1>5. LastByte(i) = answers[i].data[asked[i]]
  BY <1>1, <1>3 DEF LastByte
<1> QED BY <1>2, <1>4, <1>5

LEMMA ViewHolds == ASSUME ChannelInv PROVE CallerView
<1>1. ReadInv /\ TaskInv /\ TypeInv /\ TypeOK
  BY DEF ChannelInv, ReadInv, TaskInv, TypeInv
<1>2. /\ Len(asked) \in Nat /\ Len(answers) \in Nat
      /\ Len(answers) <= Len(asked)
      /\ asked \in Seq(Sizes) /\ answers \in Seq(Answer)
  BY <1>1, AnswersAsked DEF TypeOK
<1>3. /\ consumed \in Nat /\ arrived \in 0..MaxArrived /\ consumed <= arrived
      /\ readPos \in Nat
  BY <1>1, IPCAssumption DEF TypeInv, TypeOK, Bytes
<1>4. LastByte(Len(answers)) <= consumed
  <2>1. LastByte(Len(answers)) \in Nat
    BY <1>1, LastByteType
  <2> QED BY <1>1, <1>3, <2>1 DEF ReadInv, BufferInv
<1>5. ASSUME NEW i \in 1..Len(answers)
      PROVE  /\ answers[i].promise = i
             /\ answers[i].data = Slice(LastByte(i - 1), asked[i])
             /\ LastByte(i - 1) \in Nat
             /\ LastByte(i) = LastByte(i - 1) + asked[i]
  BY <1>1, AnswerEnds DEF ReadInv, ReadsInOrder
<1>6. reader = "idle" => Len(answers) = Len(asked)
  BY DEF ChannelInv
<1> QED BY <1>2, <1>3, <1>4, <1>5, <1>6 DEF CallerView

\* Whatever way read(2) cuts up the stream and the threads interleave, a
\* caller of read() sees the peer's bytes in order and none twice.
THEOREM CallersSeeTheStream ==
    ASSUME "reset" \notin Faults
    PROVE  Spec => []CallerView
<1>1. ChannelInv /\ [Next]_vars => ChannelInv'
  BY ChannelInvStep
<1>2. ChannelInv => CallerView
  BY ViewHolds
<1> QED BY ChannelInit, <1>1, <1>2, PTL DEF Spec
=============================================================================
