---------------------------- MODULE ByteChannel ----------------------------
(***************************************************************************)
(* What the two ends of IPCConnection promise each other, without threads, *)
(* queues, poll events or buffers.                                         *)
(*                                                                         *)
(* Towards the program the peer's bytes form one stream, numbered from 1.  *)
(* Each read(n) is answered at most once, in the order of the calls, with  *)
(* the next n bytes of that stream.  Towards the peer the pieces handed to *)
(* write() come out in the order of the calls, each at most once; when     *)
(* Reliable, none is skipped either.                                       *)
(***************************************************************************)
EXTENDS Integers, Sequences

CONSTANTS Sizes,     \* the sizes a caller may ask for
          Reliable   \* TRUE iff no piece handed to write() may be skipped

VARIABLES asked,     \* the sizes of the read() calls made so far
          answered,  \* the answers to the first Len(answered) of them
          arrived,   \* how many bytes the peer has sent
          given,     \* how many pieces were handed to write()
          wire       \* the numbers of the pieces the socket has taken

vars == <<asked, answered, arrived, given, wire>>

\* The n bytes of the stream that follow its first `offset` bytes.
Slice(offset, n) == [j \in 1..n |-> offset + j]

\* The number of the last byte given out by a sequence of answers.
LastByte(s) == IF s = <<>> THEN 0 ELSE s[Len(s)][Len(s[Len(s)])]

Init == /\ asked = <<>>
        /\ answered = <<>>
        /\ arrived = 0
        /\ given = 0
        /\ wire = <<>>

\* One caller: it asks only when its previous question is answered.
Ask(n) == /\ Len(answered) = Len(asked)
          /\ asked' = Append(asked, n)
          /\ UNCHANGED <<answered, arrived, given, wire>>

\* An answer consists of bytes that have arrived, and follows the last one.
Answer == /\ Len(answered) < Len(asked)
          /\ LastByte(answered) + asked[Len(answered) + 1] <= arrived
          /\ answered' = Append(answered, Slice(LastByte(answered),
                                                asked[Len(answered) + 1]))
          /\ UNCHANGED <<asked, arrived, given, wire>>

PeerSend == /\ arrived' = arrived + 1
            /\ UNCHANGED <<asked, answered, given, wire>>

Put == /\ given' = given + 1
       /\ UNCHANGED <<asked, answered, arrived, wire>>

LastPiece == IF wire = <<>> THEN 0 ELSE wire[Len(wire)]

Send(p) == /\ p > LastPiece
           /\ Reliable => p = LastPiece + 1
           /\ wire' = Append(wire, p)
           /\ UNCHANGED <<asked, answered, arrived, given>>

Next == \/ \E n \in Sizes : Ask(n)
        \/ Answer
        \/ PeerSend
        \/ Put
        \/ \E p \in 1..given : Send(p)

Spec == Init /\ [][Next]_vars
=============================================================================
