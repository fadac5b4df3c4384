---------------------- MODULE XrdpUlalacaPrivateProofs ----------------------
(***************************************************************************)
(* What holds of the update pipeline for every set of cells and every      *)
(* number of commits: the updater never finds the surface taken, never     *)
(* sleeps on work, the three threads together use the surface as           *)
(* ULSurface's specification has it used, the screen never goes back to an *)
(* older image, and no change is lost on the way to it.  Since the         *)
(* pipeline implements ULSurface, the theorems of ULSurfaceProofs hold of  *)
(* it too and are cited, for the types and for flow control.               *)
(***************************************************************************)
EXTENDS XrdpUlalacaPrivate, SequenceTheorems, TLAPS

\* xrdp has not started the update thread yet.
NoUpdaterYet == {"created", "filling", "started", "refused", "failed", "hello",
                 "hello: stop", "spawning"}

\* The surface is held by whoever is between beginUpdate() and endUpdate().
HolderInv ==
    /\ xrdp \in NoUpdaterYet => updater = "none"
    /\ updateThread = IF xrdp = "filling" THEN "xrdp"
                      ELSE IF updater \in {"submitting", "ending"}
                           THEN "updater" ELSE "none"

LEMMA HolderInitial == Init => HolderInv
BY DEF Init, HolderInv, Surface!Init, Surface!SurfaceInit

LEMMA HolderStep == HolderInv /\ [Next]_vars => HolderInv'
<1> SUFFICES ASSUME HolderInv, [Next]_vars PROVE HolderInv'
  OBVIOUS
<1>1. CASE UNCHANGED vars
  BY <1>1 DEF HolderInv, vars, surfaceVars
<1>2. CASE XrdpStep
  <2>1. CASE ModStart \/ ModStartEnds
    BY <2>1 DEF HolderInv, NoUpdaterYet, ModStart, ModStartEnds,
                Surface!BeginUpdate, Surface!EndUpdate
  <2>2. CASE AttachStarts \/ ConnectFails \/ SendHello \/ SpawnUpdater
             \/ ModEnd \/ Destroy \/ Destroyed
    BY <2>2 DEF HolderInv, NoUpdaterYet, AttachStarts, ConnectFails, SendHello,
                SpawnUpdater, ModEnd, Destroy, Destroyed, surfaceVars
  <2>3. CASE ConnectionLost("hello", "hello: stop")
             \/ ConnectionLost("serving", "event: stop")
    BY <2>3 DEF HolderInv, NoUpdaterYet, ConnectionLost, surfaceVars
  <2>4. CASE Stopped("hello: stop", "spawning") \/ Stopped("event: stop", "serving")
             \/ Stopped("ending", "ended")
    BY <2>4 DEF HolderInv, NoUpdaterYet, Stopped, surfaceVars
  <2>5. CASE ConfigureSurface
    BY <2>5 DEF HolderInv, NoUpdaterYet, ConfigureSurface, Surface!SetCRectSize
  <2>6. CASE FrameAck
    BY <2>6 DEF HolderInv, NoUpdaterYet, FrameAck, Surface!SetAckFrameId
  <2> QED BY <1>2, <2>1, <2>2, <2>3, <2>4, <2>5, <2>6 DEF XrdpStep
<1>3. CASE ProjectorStep
  BY <1>3 DEF HolderInv, ProjectorStep, AddDirtyRect, CommitUpdate, Push, Notify,
              ProjectorLeaves, surfaceVars
<1>4. CASE UpdaterStep
  <2>1. CASE Loop \/ Sleep \/ Timeout \/ Take
    BY <2>1 DEF HolderInv, Loop, Sleep, Timeout, Take, TimedOut, surfaceVars
  <2>2. CASE BeginTurn
    BY <2>2 DEF HolderInv, NoUpdaterYet, BeginTurn, Surface!BeginUpdate
  <2>3. CASE SubmitTurn
    <3>1. UNCHANGED <<updateThread, xrdp>> /\ updater = "submitting"
          /\ updater' = "ending"
      BY <2>3 DEF SubmitTurn, Surface!SubmitUpdate, Surface!DropFrame,
                  Surface!DrawNothing, Surface!DrawWhole, Surface!DrawRects,
                  Surface!surfaceVars, Surface!memberVars
    <3> QED BY <3>1 DEF HolderInv
  <2>4. CASE EndTurn
    BY <2>4 DEF HolderInv, NoUpdaterYet, EndTurn, Surface!EndUpdate
  <2> QED BY <1>4, <2>1, <2>2, <2>3, <2>4 DEF UpdaterStep
<1> QED BY <1>1, <1>2, <1>3, <1>4 DEF Next

LEMMA Holder == Spec => []HolderInv
BY HolderInitial, HolderStep, PTL DEF Spec

\* beginUpdate() succeeds whenever it is called, so that no transaction is
\* lost to its exception.
THEOREM BeginSucceeds == Spec => []NeverRefused
<1>1. HolderInv => NeverRefused
  BY DEF HolderInv, NeverRefused, NoUpdaterYet
<1> QED BY Holder, <1>1, PTL

\* The update thread is asleep on a filled queue only for as long as the
\* projector thread has yet to notify it.
THEOREM WakeupsAreKept == Spec => []NoLostWakeup
<1>1. Init => NoLostWakeup
  BY DEF Init, NoLostWakeup
<1>2. HolderInv /\ NoLostWakeup /\ [Next]_vars => NoLostWakeup'
  <2> SUFFICES ASSUME HolderInv, NoLostWakeup, [Next]_vars PROVE NoLostWakeup'
    OBVIOUS
  <2>1. CASE UNCHANGED vars
    BY <2>1 DEF NoLostWakeup, vars, queueVars
  <2>2. CASE XrdpStep
    <3>1. \/ UNCHANGED <<updater, updateQueue, projector>>
          \/ updater' = "looping"
          \/ xrdp = "started" /\ updater' = updater
      BY <2>2 DEF XrdpStep, ModStart, ModStartEnds, AttachStarts, ConnectFails,
                  SendHello, ConnectionLost, Stopped, SpawnUpdater,
                  ConfigureSurface, FrameAck, ModEnd, Destroy, Destroyed,
                  queueVars
    <3> QED BY <3>1 DEF NoLostWakeup, HolderInv, NoUpdaterYet
  <2>3. CASE ProjectorStep
    BY <2>3 DEF NoLostWakeup, ProjectorStep, AddDirtyRect, CommitUpdate, Push,
                Notify, ProjectorLeaves, queueVars
  <2>4. CASE UpdaterStep
    BY <2>4 DEF NoLostWakeup, UpdaterStep, Loop, Sleep, Timeout, Take, TimedOut,
                BeginTurn, SubmitTurn, EndTurn, queueVars
  <2> QED BY <2>1, <2>2, <2>3, <2>4 DEF Next
<1> QED BY Holder, <1>1, <1>2, PTL DEF Spec
----------------------------------------------------------------------------
(* Images are numbered in the order of their commits, and handed on in it. *)

InHand == {"beginning", "submitting"}

OrderTypes ==
    /\ image \in Nat /\ commits \in 0..MaxCommits
    /\ dirtyRects \subseteq Cells
    /\ updateQueue \in Seq(Transactions)
    /\ transaction \in Seq(Transactions) /\ Len(transaction) \in {0, 1}

OrderInv ==
    /\ OrderTypes
    /\ Len(transaction) = 1 <=> updater \in InHand
    /\ Len(transaction) = 1 => transaction[1].image = image + 1
    /\ commits = image + Len(transaction) + Len(updateQueue)
    /\ \A i \in 1..Len(updateQueue) :
          updateQueue[i].image = image + Len(transaction) + i

orderVars == <<dirtyRects, updateQueue, transaction, commits, image>>

LEMMA OrderInitial == Init => OrderInv
BY PipelineAssumption
   DEF Init, OrderInv, OrderTypes, InHand, Surface!Init

\* Steps that leave the images where they are.
LEMMA OrderUntouched ==
    ASSUME OrderInv, UNCHANGED orderVars, updater' \in InHand <=> updater \in InHand
    PROVE  OrderInv'
BY DEF OrderInv, OrderTypes, orderVars

LEMMA OrderPush ==
    ASSUME OrderInv, NEW from, NEW to, Push(from, to), UNCHANGED <<image, transaction>>
    PROVE  OrderInv'
<1>1. /\ image \in Nat /\ commits \in Nat /\ MaxCommits \in Nat
      /\ dirtyRects \subseteq Cells
      /\ updateQueue \in Seq(Transactions) /\ Len(updateQueue) \in Nat
      /\ transaction \in Seq(Transactions) /\ Len(transaction) \in {0, 1}
      /\ commits = image + Len(transaction) + Len(updateQueue)
  BY PipelineAssumption DEF OrderInv, OrderTypes
<1>2. /\ commits < MaxCommits /\ commits' = commits + 1 /\ dirtyRects' = {}
      /\ updateQueue' = Append(updateQueue, NewTransaction)
      /\ UNCHANGED <<image, transaction, updater>>
  BY DEF Push, Queued
<1>3. NewTransaction \in Transactions /\ NewTransaction.image = commits + 1
  BY <1>1, <1>2 DEF NewTransaction, Transactions
<1>4. /\ updateQueue' \in Seq(Transactions)
      /\ Len(updateQueue') = Len(updateQueue) + 1
      /\ \A i \in 1..Len(updateQueue) : updateQueue'[i] = updateQueue[i]
      /\ updateQueue'[Len(updateQueue) + 1] = NewTransaction
  BY <1>1, <1>2, <1>3, AppendProperties
<1>5. ASSUME NEW i \in 1..Len(updateQueue')
      PROVE  updateQueue'[i].image = image + Len(transaction) + i
  <2>1. CASE i \in 1..Len(updateQueue)
    BY <1>4, <2>1 DEF OrderInv
  <2>2. CASE i = Len(updateQueue) + 1
    BY <1>1, <1>3, <1>4, <2>2
  <2> QED BY <1>1, <1>4, <2>1, <2>2
<1>6. OrderTypes'
  BY <1>1, <1>2, <1>4 DEF OrderTypes
<1>7. commits' = image + Len(transaction) + Len(updateQueue')
  BY <1>1, <1>2, <1>4
<1> QED BY <1>2, <1>5, <1>6, <1>7 DEF OrderInv

LEMMA OrderTake == ASSUME OrderInv, Take PROVE OrderInv'
<1>1. /\ image \in Nat /\ commits \in Nat
      /\ updateQueue \in Seq(Transactions) /\ Len(updateQueue) \in Nat
      /\ Len(transaction) = 0
      /\ commits = image + Len(updateQueue)
      /\ \A i \in 1..Len(updateQueue) : updateQueue[i].image = image + i
  <2>1. Len(transaction) = 0
    BY DEF OrderInv, OrderTypes, Take, TimedOut, InHand
  <2>2. /\ image \in Nat /\ commits \in Nat
        /\ updateQueue \in Seq(Transactions) /\ Len(updateQueue) \in Nat
    BY PipelineAssumption DEF OrderInv, OrderTypes
  <2>3. commits = image + 0 + Len(updateQueue)
    BY <2>1 DEF OrderInv
  <2>4. ASSUME NEW i \in 1..Len(updateQueue)
        PROVE  updateQueue[i].image = image + i
    <3>1. updateQueue[i].image = image + 0 + i
      BY <2>1 DEF OrderInv
    <3> QED BY <2>2, <3>1
  <2> QED BY <2>1, <2>2, <2>3, <2>4
<1>2. /\ updateQueue # <<>> /\ updater' \in InHand
      /\ transaction' = <<Head(updateQueue)>> /\ updateQueue' = Tail(updateQueue)
      /\ UNCHANGED <<image, commits, dirtyRects>>
  BY DEF Take, InHand, surfaceVars
<1>3. /\ Head(updateQueue) \in Transactions
      /\ Head(updateQueue) = updateQueue[1]
      /\ updateQueue' \in Seq(Transactions)
      /\ Len(updateQueue') = Len(updateQueue) - 1
      /\ \A i \in 1..Len(updateQueue') : updateQueue'[i] = updateQueue[i + 1]
      /\ 1 \in 1..Len(updateQueue)
  BY <1>1, <1>2, HeadTailProperties
<1>4. /\ transaction' \in Seq(Transactions) /\ Len(transaction') = 1
      /\ transaction'[1] = updateQueue[1]
  BY <1>2, <1>3
<1>5. OrderTypes'
  BY <1>2, <1>3, <1>4 DEF OrderInv, OrderTypes
<1>6. transaction'[1].image = image + 1
  BY <1>1, <1>3, <1>4
<1>7. ASSUME NEW i \in 1..Len(updateQueue')
      PROVE  updateQueue'[i].image = image + 1 + i
  <2>1. i + 1 \in 1..Len(updateQueue)
    BY <1>1, <1>3
  <2>2. updateQueue[i + 1].image = image + (i + 1)
    BY <1>1, <2>1
  <2> QED BY <1>1, <1>3, <2>2
<1>8. commits' = image + 1 + Len(updateQueue')
  BY <1>1, <1>2, <1>3
<1> QED BY <1>2, <1>4, <1>5, <1>6, <1>7, <1>8 DEF OrderInv

LEMMA OrderSubmit == ASSUME OrderInv, SubmitTurn PROVE OrderInv'
<1>1. /\ Len(transaction) = 1 /\ transaction[1].image = image + 1
      /\ image \in Nat
  BY DEF OrderInv, OrderTypes, SubmitTurn, InHand
<1>2. /\ image' = image + 1 /\ transaction' = <<>> /\ updater' \notin InHand
      /\ UNCHANGED <<dirtyRects, updateQueue, commits>>
  BY <1>1 DEF SubmitTurn, InHand, queueVars
<1>3. /\ updateQueue \in Seq(Transactions) /\ Len(updateQueue) \in Nat
      /\ commits \in 0..MaxCommits /\ dirtyRects \subseteq Cells
      /\ commits = image + 1 + Len(updateQueue)
      /\ \A i \in 1..Len(updateQueue) : updateQueue[i].image = image + 1 + i
  BY <1>1 DEF OrderInv, OrderTypes
<1>4. transaction' \in Seq(Transactions) /\ Len(transaction') = 0
  BY <1>2
<1>5. OrderTypes'
  BY <1>1, <1>2, <1>3, <1>4 DEF OrderTypes
<1>6. /\ commits' = image' + 0 + Len(updateQueue')
      /\ \A i \in 1..Len(updateQueue') : updateQueue'[i].image = image' + 0 + i
  BY <1>1, <1>2, <1>3
<1> QED BY <1>2, <1>4, <1>5, <1>6 DEF OrderInv

LEMMA OrderStep == HolderInv /\ OrderInv /\ [Next]_vars => OrderInv'
<1> SUFFICES ASSUME HolderInv, OrderInv, [Next]_vars PROVE OrderInv'
  OBVIOUS
<1>1. CASE UNCHANGED vars
  BY <1>1, OrderUntouched DEF vars, surfaceVars, queueVars, orderVars
<1>2. CASE XrdpStep
  <2>1. CASE SpawnUpdater
    <3>1. UNCHANGED orderVars
      BY <2>1 DEF SpawnUpdater, queueVars, surfaceVars, orderVars
    <3>2. updater = "none" /\ updater' = "looping"
      BY <2>1 DEF SpawnUpdater, HolderInv, NoUpdaterYet
    <3> QED BY <3>1, <3>2, OrderUntouched DEF InHand
  <2>2. CASE UNCHANGED <<image, queueVars, transaction, updater>>
    BY <2>2, OrderUntouched DEF queueVars, orderVars
  <2> QED BY <1>2, <2>1, <2>2
          DEF XrdpStep, ModStart, ModStartEnds, AttachStarts, ConnectFails,
              SendHello, ConnectionLost, Stopped, ConfigureSurface, FrameAck,
              ModEnd, Destroy, Destroyed, surfaceVars
<1>3. CASE ProjectorStep
  <2>1. CASE (\E c \in Cells : AddDirtyRect(c))
    <3>1. PICK c \in Cells : AddDirtyRect(c)
      BY <2>1
    <3>2. /\ dirtyRects' = dirtyRects \cup {c}
          /\ UNCHANGED <<updateQueue, transaction, commits, image, updater>>
      BY <3>1 DEF AddDirtyRect, surfaceVars
    <3> QED BY <3>2 DEF OrderInv, OrderTypes
  <2>2. CASE CommitUpdate
    <3>1. CASE Push("reading", "pushed")
      BY <2>2, <3>1, OrderPush DEF CommitUpdate, surfaceVars
    <3>2. CASE Notify("pushed", "reading")
      <4>1. UNCHANGED orderVars
        BY <2>2, <3>2 DEF CommitUpdate, Notify, surfaceVars, queueVars, orderVars
      <4>2. updater' \in InHand <=> updater \in InHand
        BY <3>2 DEF Notify, InHand
      <4> QED BY <4>1, <4>2, OrderUntouched
    <3> QED BY <2>2, <3>1, <3>2 DEF CommitUpdate
  <2>3. CASE ProjectorLeaves
    BY <2>3, OrderUntouched DEF ProjectorLeaves, surfaceVars, queueVars, orderVars
  <2> QED BY <1>3, <2>1, <2>2, <2>3 DEF ProjectorStep
<1>4. CASE UpdaterStep
  <2>1. CASE Loop \/ Sleep \/ Timeout \/ BeginTurn \/ EndTurn
    <3>1. UNCHANGED orderVars
      BY <2>1 DEF Loop, Sleep, Timeout, BeginTurn, EndTurn, surfaceVars,
                  queueVars, orderVars
    <3>2. updater' \in InHand <=> updater \in InHand
      BY <2>1 DEF Loop, Sleep, Timeout, TimedOut, BeginTurn, EndTurn, InHand
    <3> QED BY <3>1, <3>2, OrderUntouched
  <2>2. CASE Take
    BY <2>2, OrderTake
  <2>3. CASE SubmitTurn
    BY <2>3, OrderSubmit
  <2> QED BY <1>4, <2>1, <2>2, <2>3 DEF UpdaterStep
<1> QED BY <1>1, <1>2, <1>3, <1>4 DEF Next

LEMMA Order == Spec => []OrderInv
BY Holder, OrderInitial, OrderStep, PTL DEF Spec
----------------------------------------------------------------------------
(* The pipeline implements the surface's specification. *)

LEMMA SurfaceStep ==
    ASSUME HolderInv, OrderInv, [Next]_vars
    PROVE  [Surface!Next]_(Surface!vars)
<1> USE DEF Surface!vars, Surface!surfaceVars, Surface!memberVars,
            Surface!clientVars, Surface!historyVars
<1>1. CASE UNCHANGED vars
  BY <1>1 DEF vars, surfaceVars
<1>2. CASE XrdpStep
  <2>1. CASE ModStart
    BY <2>1 DEF ModStart, Surface!Next, Surface!Begin, Surface!Threads
  <2>2. CASE ModStartEnds
    BY <2>2 DEF ModStartEnds, Surface!Next, Surface!End
  <2>3. CASE ConfigureSurface
    <3>1. DecideCopyRectSize \in {0, 64}
      BY DEF DecideCopyRectSize, Surface!RECT_SIZE_BYPASS_CREATE
    <3> QED BY <2>3, <3>1 DEF ConfigureSurface, Surface!Next, Surface!Configure
  <2>4. CASE FrameAck
    BY <2>4 DEF FrameAck, Surface!Next, Surface!Ack
  <2>5. CASE UNCHANGED surfaceVars
    BY <2>5 DEF surfaceVars
  <2> QED BY <1>2, <2>1, <2>2, <2>3, <2>4, <2>5
          DEF XrdpStep, AttachStarts, ConnectFails, SendHello, ConnectionLost,
              Stopped, SpawnUpdater, ModEnd, Destroy, Destroyed
<1>3. CASE ProjectorStep
  <2>1. UNCHANGED surfaceVars
    BY <1>3 DEF ProjectorStep, AddDirtyRect, CommitUpdate, ProjectorLeaves
  <2> QED BY <2>1 DEF surfaceVars
<1>4. CASE UpdaterStep
  <2>1. CASE Loop \/ Sleep \/ Timeout \/ Take
    BY <2>1 DEF Loop, Sleep, Timeout, Take, surfaceVars
  <2>2. CASE BeginTurn
    BY <2>2 DEF BeginTurn, Surface!Next, Surface!Begin, Surface!Threads
  <2>3. CASE SubmitTurn
    <3>1. /\ Len(transaction) = 1 /\ transaction[1] \in Transactions
          /\ transaction[1].image = image + 1
      <4>1. Len(transaction) = 1 /\ transaction[1].image = image + 1
        BY <2>3 DEF OrderInv, SubmitTurn, InHand
      <4>2. transaction \in Seq(Transactions)
        BY DEF OrderInv, OrderTypes
      <4> QED BY <4>1, <4>2
    <3>2. transaction[1].rects \in SUBSET Cells
      BY <3>1 DEF Transactions
    <3>3. image < MaxCommits
      <4>1. transaction[1].image \in 1..MaxCommits
        BY <3>1 DEF Transactions
      <4> QED BY <3>1, <4>1, PipelineAssumption DEF OrderInv, OrderTypes
    <3>4. updateThread # "none"
      BY <2>3 DEF SubmitTurn, HolderInv
    <3>5. Surface!Submit(transaction[1].rects)
      BY <2>3, <3>1, <3>3, <3>4 DEF SubmitTurn, Surface!Submit
    <3> QED BY <3>2, <3>5 DEF Surface!Next
  <2>4. CASE EndTurn
    BY <2>4 DEF EndTurn, Surface!Next, Surface!End
  <2> QED BY <1>4, <2>1, <2>2, <2>3, <2>4 DEF UpdaterStep
<1> QED BY <1>1, <1>2, <1>3, <1>4 DEF Next

\* Every behaviour of the three threads is one of ULSurface: one holder at a
\* time, images submitted in the order of their numbers.
THEOREM PipelineImplementsSurface == Spec => ImplementsSurface
<1>1. Init => Surface!Init
  BY DEF Init
<1>2. HolderInv /\ OrderInv /\ [Next]_vars => [Surface!Next]_(Surface!vars)
  BY SurfaceStep
<1> QED BY Holder, Order, <1>1, <1>2, PTL DEF Spec, ImplementsSurface, Surface!Spec
----------------------------------------------------------------------------
(* No change is lost.  Images being consecutive, the commit that is to     *)
(* bring a cell's last change says where that change is now.               *)

\* The change of cell c that commit k brings has got where commit k has.
Tracked(c, k) ==
    /\ k \in 0..commits + 1
    /\ k = commits + 1 => c \in dirtyRects
    /\ k <= image => k <= latest[c]
    /\ Len(transaction) = 1 /\ k = image + 1 => c \in transaction[1].rects
    /\ \A i \in 1..Len(updateQueue) :
          k = image + Len(transaction) + i => c \in updateQueue[i].rects

TrackInv ==
    /\ notified \in [Cells -> Nat] /\ latest \in [Cells -> Nat]
    /\ \A c \in Cells : Tracked(c, notified[c])

LEMMA TrackInitial == Init => TrackInv
BY DEF Init, TrackInv, Tracked, Surface!Init

LEMMA TrackNotified ==
    ASSUME OrderInv, TrackInv, NEW c \in Cells, AddDirtyRect(c) PROVE TrackInv'
<1>1. /\ dirtyRects' = dirtyRects \cup {c}
      /\ notified' = [notified EXCEPT ![c] = commits + 1]
      /\ UNCHANGED <<updateQueue, transaction, commits, image, latest>>
  BY DEF AddDirtyRect, surfaceVars
<1>2. /\ commits \in Nat /\ image \in Nat /\ Len(updateQueue) \in Nat
      /\ Len(transaction) \in {0, 1}
      /\ commits = image + Len(transaction) + Len(updateQueue)
  BY PipelineAssumption DEF OrderInv, OrderTypes
<1>3. /\ notified' \in [Cells -> Nat] /\ latest' \in [Cells -> Nat]
      /\ \A d \in Cells : d # c => notified'[d] = notified[d]
      /\ notified'[c] = commits + 1
  BY <1>1, <1>2 DEF TrackInv
<1>4. ASSUME NEW d \in Cells, d # c PROVE Tracked(d, notified[d])'
  BY <1>1, <1>3, <1>4 DEF TrackInv, Tracked
<1>5. Tracked(c, notified[c])'
  BY <1>1, <1>2, <1>3 DEF Tracked
<1> QED BY <1>3, <1>4, <1>5 DEF TrackInv

LEMMA TrackPush ==
    ASSUME OrderInv, TrackInv, NEW from, NEW to, Push(from, to),
           UNCHANGED <<image, latest, transaction>>
    PROVE  TrackInv'
<1>1. /\ commits' = commits + 1
      /\ updateQueue' = Append(updateQueue, NewTransaction)
      /\ UNCHANGED <<notified, image, latest, transaction>>
  BY DEF Push, Queued
<1>2. /\ commits \in Nat /\ image \in Nat /\ Len(updateQueue) \in Nat
      /\ Len(transaction) \in {0, 1} /\ updateQueue \in Seq(Transactions)
      /\ commits = image + Len(transaction) + Len(updateQueue)
  BY PipelineAssumption DEF OrderInv, OrderTypes
<1>3. NewTransaction.rects = dirtyRects
  BY DEF NewTransaction
<1>4. /\ Len(updateQueue') = Len(updateQueue) + 1
      /\ \A i \in 1..Len(updateQueue) : updateQueue'[i] = updateQueue[i]
      /\ updateQueue'[Len(updateQueue) + 1] = NewTransaction
  BY <1>1, <1>2
<1>5. ASSUME NEW c \in Cells PROVE Tracked(c, notified[c])'
  <2>1. Tracked(c, notified[c]) /\ notified[c] \in Nat
    BY DEF TrackInv
  <2>2. ASSUME NEW i \in 1..Len(updateQueue'),
               notified[c] = image + Len(transaction) + i
        PROVE  c \in updateQueue'[i].rects
    <3>1. CASE i \in 1..Len(updateQueue)
      BY <1>4, <2>1, <2>2, <3>1 DEF Tracked
    <3>2. CASE i = Len(updateQueue) + 1
      <4>1. notified[c] = commits + 1
        BY <1>2, <2>2, <3>2
      <4> QED BY <1>3, <1>4, <2>1, <3>2, <4>1 DEF Tracked
    <3> QED BY <1>2, <1>4, <3>1, <3>2
  <2>3. notified[c] \in 0..commits' + 1 /\ notified[c] # commits' + 1
    BY <1>1, <1>2, <2>1 DEF Tracked
  <2> QED BY <1>1, <2>1, <2>2, <2>3 DEF Tracked
<1> QED BY <1>1, <1>5 DEF TrackInv

LEMMA TrackTake == ASSUME OrderInv, TrackInv, Take PROVE TrackInv'
<1>1. /\ image \in Nat /\ updateQueue \in Seq(Transactions)
      /\ Len(updateQueue) \in Nat /\ Len(transaction) = 0
  BY DEF OrderInv, OrderTypes, Take, TimedOut, InHand
<1>2. /\ updateQueue # <<>>
      /\ transaction' = <<Head(updateQueue)>> /\ updateQueue' = Tail(updateQueue)
      /\ UNCHANGED <<image, latest, commits, dirtyRects, notified>>
  BY DEF Take, surfaceVars
<1>3. /\ Head(updateQueue) = updateQueue[1]
      /\ Len(updateQueue') = Len(updateQueue) - 1
      /\ \A i \in 1..Len(updateQueue') : updateQueue'[i] = updateQueue[i + 1]
      /\ 1 \in 1..Len(updateQueue)
  BY <1>1, <1>2, HeadTailProperties
<1>4. Len(transaction') = 1 /\ transaction'[1] = updateQueue[1]
  BY <1>2, <1>3
<1>5. ASSUME NEW c \in Cells PROVE Tracked(c, notified[c])'
  <2>1. Tracked(c, notified[c]) /\ notified[c] \in Nat
    BY DEF TrackInv
  <2>2. \A i \in 1..Len(updateQueue) :
           notified[c] = image + i => c \in updateQueue[i].rects
    BY <1>1, <2>1 DEF Tracked
  <2>3. notified[c] = image + 1 => c \in transaction'[1].rects
    BY <1>3, <1>4, <2>2
  <2>4. ASSUME NEW i \in 1..Len(updateQueue'), notified[c] = image + 1 + i
        PROVE  c \in updateQueue'[i].rects
    <3>1. i + 1 \in 1..Len(updateQueue) /\ notified[c] = image + (i + 1)
      BY <1>1, <1>3, <2>4
    <3> QED BY <1>3, <2>2, <3>1
  <2> QED BY <1>2, <1>4, <2>1, <2>3, <2>4 DEF Tracked
<1> QED BY <1>2, <1>5 DEF TrackInv

LEMMA TrackSubmit == ASSUME OrderInv, TrackInv, SubmitTurn PROVE TrackInv'
<1>1. /\ Len(transaction) = 1 /\ transaction[1].image = image + 1
      /\ image \in Nat
  BY DEF OrderInv, OrderTypes, SubmitTurn, InHand
<1>2. /\ image' = image + 1 /\ transaction' = <<>>
      /\ latest' = [c \in Cells |-> IF c \in transaction[1].rects THEN image + 1
                                                                 ELSE latest[c]]
      /\ UNCHANGED <<dirtyRects, updateQueue, commits, notified>>
  BY <1>1 DEF SubmitTurn, queueVars
<1>3. latest' \in [Cells -> Nat] /\ Len(transaction') = 0
  BY <1>1, <1>2 DEF TrackInv
<1>4. ASSUME NEW c \in Cells PROVE Tracked(c, notified[c])'
  <2>1. /\ Tracked(c, notified[c]) /\ notified[c] \in Nat /\ latest[c] \in Nat
        /\ notified'[c] = notified[c]
    BY <1>2 DEF TrackInv
  <2>2. ASSUME notified[c] <= image + 1 PROVE notified[c] <= latest'[c]
    <3>1. CASE c \in transaction[1].rects
      BY <1>2, <2>2, <3>1
    <3>2. CASE c \notin transaction[1].rects
      <4>1. notified[c] # image + 1
        BY <1>1, <2>1, <3>2 DEF Tracked
      <4>2. notified[c] <= image
        BY <1>1, <2>1, <2>2, <4>1
      <4>3. notified[c] <= latest[c]
        BY <2>1, <4>2 DEF Tracked
      <4> QED BY <1>2, <3>2, <4>3
    <3> QED BY <3>1, <3>2
  <2>3. ASSUME NEW i \in 1..Len(updateQueue), notified[c] = image' + 0 + i
        PROVE  c \in updateQueue[i].rects
    <3>1. notified[c] = image + Len(transaction) + i
      BY <1>1, <1>2, <2>3
    <3> QED BY <2>1, <3>1 DEF Tracked
  <2> QED BY <1>2, <1>3, <2>1, <2>2, <2>3 DEF Tracked
<1> QED BY <1>2, <1>3, <1>4 DEF TrackInv

LEMMA TrackStep == OrderInv /\ TrackInv /\ [Next]_vars => TrackInv'
<1> SUFFICES ASSUME OrderInv, TrackInv, [Next]_vars PROVE TrackInv'
  OBVIOUS
<1>1. CASE UNCHANGED <<image, latest, queueVars, transaction>>
  BY <1>1 DEF TrackInv, Tracked, queueVars
<1>2. CASE UNCHANGED vars
  BY <1>1, <1>2 DEF vars, surfaceVars
<1>3. CASE XrdpStep
  BY <1>1, <1>3
     DEF XrdpStep, ModStart, ModStartEnds, AttachStarts, ConnectFails,
         SendHello, ConnectionLost, Stopped, SpawnUpdater, ConfigureSurface,
         FrameAck, ModEnd, Destroy, Destroyed, surfaceVars
<1>4. CASE ProjectorStep
  <2>1. CASE (\E c \in Cells : AddDirtyRect(c))
    BY <2>1, TrackNotified
  <2>2. CASE CommitUpdate
    <3>1. CASE Push("reading", "pushed")
      BY <2>2, <3>1, TrackPush DEF CommitUpdate, surfaceVars
    <3>2. CASE Notify("pushed", "reading")
      BY <1>1, <2>2, <3>2 DEF CommitUpdate, Notify, surfaceVars
    <3> QED BY <2>2, <3>1, <3>2 DEF CommitUpdate
  <2>3. CASE ProjectorLeaves
    BY <1>1, <2>3 DEF ProjectorLeaves, surfaceVars
  <2> QED BY <1>4, <2>1, <2>2, <2>3 DEF ProjectorStep
<1>5. CASE UpdaterStep
  <2>1. CASE Loop \/ Sleep \/ Timeout \/ BeginTurn \/ EndTurn
    BY <1>1, <2>1 DEF Loop, Sleep, Timeout, BeginTurn, EndTurn, surfaceVars
  <2> QED BY <1>5, <2>1, TrackTake, TrackSubmit DEF UpdaterStep
<1> QED BY <1>2, <1>3, <1>4, <1>5 DEF Next

----------------------------------------------------------------------------
(* What is on the screen: no image is newer than the last submitted, and   *)
(* where one is older than the cell's last change, the cell is pending.    *)

ShownInv ==
    /\ screen \in [Cells -> 0..image] /\ latest \in [Cells -> 0..image]
    /\ \A c \in Cells : screen[c] < latest[c] => c \in pendingRects

LEMMA ShownInitial == Init => ShownInv
BY DEF Init, ShownInv, Surface!Init, Surface!SurfaceInit

\* An image painted over all that is dirty.
LEMMA ShownPainted ==
    ASSUME ShownInv, image \in Nat, NEW rects, NEW cleaned \in SUBSET Cells,
           pendingRects \cup rects \subseteq cleaned,
           screen' = [c \in Cells |-> IF c \in cleaned THEN image + 1 ELSE screen[c]],
           latest' = [c \in Cells |-> IF c \in rects THEN image + 1 ELSE latest[c]],
           image' = image + 1
    PROVE  ShownInv' /\ \A c \in Cells : screen'[c] >= screen[c]
<1>1. /\ screen' \in [Cells -> 0..image'] /\ latest' \in [Cells -> 0..image']
  BY DEF ShownInv
<1>2. ASSUME NEW c \in Cells
      PROVE  ~(screen'[c] < latest'[c]) /\ screen'[c] >= screen[c]
  <2>1. screen[c] \in 0..image /\ latest[c] \in 0..image
    BY DEF ShownInv
  <2>2. CASE c \in cleaned
    <3>1. screen'[c] = image + 1
      BY <2>2
    <3>2. latest'[c] \in 0..(image + 1)
      BY <1>1
    <3> QED BY <2>1, <3>1, <3>2
  <2>3. CASE c \notin cleaned
    <3>1. screen'[c] = screen[c] /\ latest'[c] = latest[c]
      BY <2>3
    <3>2. ~(screen[c] < latest[c])
      BY <2>3 DEF ShownInv
    <3> QED BY <2>1, <3>1, <3>2
  <2> QED BY <2>2, <2>3
<1> QED BY <1>1, <1>2 DEF ShownInv

LEMMA ShownSubmit ==
    ASSUME OrderInv, ShownInv, SubmitTurn
    PROVE  ShownInv' /\ \A c \in Cells : screen'[c] >= screen[c]
<1> DEFINE rects == transaction[1].rects
<1>1. /\ Len(transaction) = 1 /\ transaction[1].image = image + 1
      /\ image \in Nat
  BY DEF OrderInv, OrderTypes, SubmitTurn, InHand
<1>2. /\ image' = image + 1
      /\ latest' = [c \in Cells |-> IF c \in rects THEN image + 1 ELSE latest[c]]
      /\ Surface!SubmitUpdate(rects, image + 1)
  BY <1>1 DEF SubmitTurn
<1>3. \A c \in Cells : screen[c] \in 0..image /\ latest[c] \in 0..image
  BY DEF ShownInv
<1> HIDE DEF rects
<1>4. CASE pendingRects' = pendingRects \cup rects /\ screen' = screen
  <2>1. screen' \in [Cells -> 0..image'] /\ latest' \in [Cells -> 0..image']
    BY <1>1, <1>2, <1>4 DEF ShownInv
  <2>2. ASSUME NEW c \in Cells, screen'[c] < latest'[c] PROVE c \in pendingRects'
    BY <1>2, <1>4, <2>2 DEF ShownInv
  <2>3. \A c \in Cells : screen'[c] >= screen[c]
    BY <1>1, <1>3, <1>4
  <2> QED BY <2>1, <2>2, <2>3 DEF ShownInv
<1>5. CASE Surface!DropFrame(rects)
  BY <1>4, <1>5 DEF Surface!DropFrame, Surface!KeptRects, Surface!clientVars
<1>6. CASE Surface!DrawNothing(rects)
  BY <1>4, <1>6 DEF Surface!DrawNothing, Surface!surfaceVars,
                    Surface!memberVars, Surface!clientVars
<1>7. CASE Surface!DrawWhole(rects, image + 1)
  <2>1. screen' = [c \in Cells |-> IF c \in Cells THEN image + 1 ELSE screen[c]]
    BY <1>7 DEF Surface!DrawWhole, Surface!Painted, Surface!WholeScreen
  <2>2. ShownInv'
    BY <1>1, <1>2, <2>1 DEF ShownInv
  <2>3. \A c \in Cells : screen'[c] >= screen[c]
    BY <1>1, <1>3, <2>1
  <2> QED BY <2>2, <2>3
<1>8. CASE Surface!DrawRects(rects, image + 1)
  <2>1. PICK cleaned \in SUBSET Cells :
            /\ pendingRects \cup rects \subseteq cleaned
            /\ screen' = [c \in Cells |-> IF c \in cleaned THEN image + 1 ELSE screen[c]]
    BY <1>8 DEF Surface!DrawRects, Surface!DirtyRects, Surface!Painted
  <2> QED BY <1>1, <1>2, <2>1, ShownPainted
<1> QED BY <1>2, <1>5, <1>6, <1>7, <1>8 DEF Surface!SubmitUpdate

LEMMA ShownStep ==
    ASSUME OrderInv, ShownInv, [Next]_vars
    PROVE  /\ ShownInv'
           /\ UNCHANGED screen \/ \A c \in Cells : screen'[c] >= screen[c]
<1>1. CASE UNCHANGED <<screen, latest, image, pendingRects>>
  BY <1>1 DEF ShownInv
<1>2. CASE UNCHANGED vars
  BY <1>1, <1>2 DEF vars, surfaceVars
<1>3. CASE XrdpStep
  BY <1>1, <1>3
     DEF XrdpStep, ModStart, ModStartEnds, AttachStarts, ConnectFails,
         SendHello, ConnectionLost, Stopped, SpawnUpdater, ConfigureSurface,
         FrameAck, ModEnd, Destroy, Destroyed, surfaceVars,
         Surface!BeginUpdate, Surface!EndUpdate, Surface!SetCRectSize,
         Surface!SetAckFrameId, Surface!clientVars
<1>4. CASE ProjectorStep
  BY <1>1, <1>4 DEF ProjectorStep, AddDirtyRect, CommitUpdate, ProjectorLeaves,
                    surfaceVars
<1>5. CASE UpdaterStep
  <2>1. CASE Loop \/ Sleep \/ Timeout \/ Take \/ BeginTurn \/ EndTurn
    BY <1>1, <2>1 DEF Loop, Sleep, Timeout, Take, BeginTurn, EndTurn,
                      surfaceVars, Surface!BeginUpdate, Surface!EndUpdate,
                      Surface!clientVars
  <2> QED BY <1>5, <2>1, ShownSubmit DEF UpdaterStep
<1> QED BY <1>2, <1>3, <1>4, <1>5 DEF Next

LEMMA Shown == Spec => []ShownInv
<1>1. OrderInv /\ ShownInv /\ [Next]_vars => ShownInv'
  BY ShownStep
<1> QED BY Order, ShownInitial, <1>1, PTL DEF Spec

\* Whatever the threads do in whichever order, no cell of the client's screen
\* goes back to an image older than the one it shows.
THEOREM ScreenMovesForward == Spec => NeverBackInTime
<1>1. OrderInv /\ ShownInv /\ [Next]_vars
      => [\A c \in Cells : screen'[c] >= screen[c]]_screen
  BY ShownStep
<1> QED BY Order, Shown, <1>1, PTL DEF Spec, NeverBackInTime

\* A change the projector has told of is on the screen or on its way there,
\* for every number of images and of frames dropped between them.
THEOREM ChangesAreKept == Spec => []NoChangeLost
<1>1. ASSUME OrderInv, TrackInv, ShownInv PROVE NoChangeLost
  <2> SUFFICES ASSUME NEW c \in Cells,
                      screen[c] < notified[c], c \notin dirtyRects,
                      c \notin pendingRects,
                      ~\E i \in 1..Len(updateQueue) : c \in updateQueue[i].rects
               PROVE  transaction # <<>> /\ c \in transaction[1].rects
    BY DEF NoChangeLost
  <2> DEFINE k == notified[c]
             t == Len(transaction)
             q == Len(updateQueue)
  <2>1. Tracked(c, k) /\ k \in Nat
    BY <1>1 DEF TrackInv
  <2>2. screen[c] \in Nat /\ latest[c] \in Nat /\ ~(screen[c] < latest[c])
    BY <1>1 DEF ShownInv, OrderInv, OrderTypes
  <2>3. /\ commits \in Nat /\ image \in Nat /\ q \in Nat
        /\ t \in {0, 1} /\ commits = image + t + q
    BY <1>1, PipelineAssumption DEF OrderInv, OrderTypes
  <2>4. /\ k <= commits + 1 /\ k # commits + 1
        /\ k <= image => k <= latest[c]
        /\ t = 1 /\ k = image + 1 => c \in transaction[1].rects
        /\ \A i \in 1..q : k # image + t + i
    BY <2>1 DEF Tracked
  <2>5. screen[c] < k
    OBVIOUS
  <2> HIDE DEF k, t, q
  <2>6. k > image /\ k <= commits
    BY <2>1, <2>2, <2>3, <2>4, <2>5
  <2>7. ~(k > image + t)
    <3> SUFFICES ASSUME k > image + t PROVE FALSE
      OBVIOUS
    <3>1. k - (image + t) \in 1..q
      BY <2>1, <2>3, <2>6
    <3>2. k = image + t + (k - (image + t))
      BY <2>1, <2>3
    <3> QED BY <2>4, <3>1, <3>2
  <2>8. t = 1 /\ k = image + 1
    BY <2>1, <2>3, <2>6, <2>7
  <2>9. transaction # <<>>
    <3>1. transaction = <<>> => Len(transaction) = 0
      OBVIOUS
    <3> QED BY <2>8, <3>1 DEF t
  <2> QED BY <2>4, <2>8, <2>9
<1>2. OrderInv /\ TrackInv /\ [Next]_vars => TrackInv'
  BY TrackStep
<1> QED BY <1>1, <1>2, Order, Shown, TrackInitial, PTL DEF Spec
----------------------------------------------------------------------------
(* The way from mod_start to mod_exit. *)

Threadless == {"none", "gone"}

\* Where xrdp's thread is tells which threads there may be.
LifeInv ==
    /\ xrdp \in {"created", "filling", "started", "refused", "failed"}
           => projector = "none"
    /\ xrdp \in {"created", "filling", "started"} => ~terminated
    /\ xrdp \in {"ended", "joining", "gone"} => projector \in Threadless
    /\ xrdp = "gone" => updater \in Threadless
    /\ error => terminated

LEMMA LifeInitial == Init => LifeInv
BY DEF Init, LifeInv

LEMMA LifeStep == HolderInv /\ LifeInv /\ [Next]_vars => LifeInv'
<1> SUFFICES ASSUME HolderInv, LifeInv, [Next]_vars PROVE LifeInv'
  OBVIOUS
<1> USE DEF LifeInv, Threadless
<1>1. CASE UNCHANGED vars
  BY <1>1 DEF vars, flagVars
<1>2. CASE XrdpStep
  <2>1. CASE ModStart \/ ModStartEnds \/ AttachStarts \/ ConnectFails \/ SendHello
    BY <2>1 DEF ModStart, ModStartEnds, AttachStarts, ConnectFails, SendHello,
                flagVars
  <2>2. CASE SpawnUpdater \/ ConfigureSurface \/ FrameAck
    BY <2>2 DEF SpawnUpdater, ConfigureSurface, FrameAck, flagVars
  <2>3. CASE ConnectionLost("hello", "hello: stop")
             \/ ConnectionLost("serving", "event: stop")
    BY <2>3 DEF ConnectionLost
  <2>4. CASE Stopped("hello: stop", "spawning") \/ Stopped("event: stop", "serving")
             \/ Stopped("ending", "ended")
    <3>1. /\ projector \in Threadless /\ xrdp' \in {"spawning", "serving", "ended"}
          /\ UNCHANGED <<projector, updater, error, terminated>>
      BY <2>4 DEF Stopped, flagVars
    <3> QED BY <3>1
  <2>5. CASE ModEnd \/ Destroy
    BY <2>5 DEF ModEnd, Destroy
  <2>6. CASE Destroyed
    BY <2>6 DEF Destroyed, flagVars
  <2> QED BY <1>2, <2>1, <2>2, <2>3, <2>4, <2>5, <2>6 DEF XrdpStep
<1>3. CASE ProjectorStep
  <2>1. /\ UNCHANGED <<xrdp, error, terminated>>
        /\ projector \notin Threadless
        /\ updater \in Threadless => updater' = updater
    BY <1>3 DEF ProjectorStep, AddDirtyRect, CommitUpdate, Push, Notify,
                ProjectorLeaves, flagVars
  <2> QED BY <2>1
<1>4. CASE UpdaterStep
  <2>1. UNCHANGED <<xrdp, error, terminated, projector>> /\ updater \notin Threadless
    BY <1>4 DEF UpdaterStep, Loop, Sleep, Timeout, Take, TimedOut, BeginTurn,
                SubmitTurn, EndTurn, flagVars
  <2> QED BY <2>1
<1> QED BY <1>1, <1>2, <1>3, <1>4 DEF Next

LEMMA Life == Spec => []LifeInv
BY Holder, LifeInitial, LifeStep, PTL DEF Spec

\* The module is not destroyed while one of its threads is at work.
THEOREM NoThreadSurvives == Spec => []NobodyLeftBehind
<1>1. LifeInv => NobodyLeftBehind
  BY DEF LifeInv, NobodyLeftBehind, Threadless
<1> QED BY Life, <1>1, PTL
----------------------------------------------------------------------------
\* The client inside the pipeline keeps its promise to the target, and xrdp's
\* thread never goes on from stop() while a callback may still come.
THEOREM PipelineImplementsTarget == Spec => ImplementsTarget
<1> USE DEF Target!vars
<1>1. Init => Target!Init
  BY DEF Init, Target!Init, InStop, Thread
<1>2. ASSUME LifeInv, [Next]_vars PROVE [Target!Next]_(Target!vars)
  <2>1. CASE UNCHANGED <<projector, terminated, xrdp, late, error>>
    BY <2>1 DEF InStop, Thread
  <2>2. CASE AttachStarts
    <3>1. /\ Thread = "none" /\ Thread' = "running" /\ ~terminated
          /\ UNCHANGED <<InStop, terminated, late, error>>
      BY <1>2, <2>2 DEF AttachStarts, LifeInv, InStop, Thread, queueVars, flagVars
    <3> QED BY <3>1 DEF Target!Next, Target!Begin
  <2>3. CASE ConnectionLost("hello", "hello: stop")
             \/ ConnectionLost("serving", "event: stop")
    <3>1. /\ ~InStop /\ InStop' = TRUE /\ ~terminated /\ terminated' = TRUE
          /\ ~error /\ error' = TRUE /\ UNCHANGED <<Thread, late>>
      BY <1>2, <2>3 DEF ConnectionLost, LifeInv, InStop, Thread, queueVars
    <3> QED BY <3>1 DEF Target!Next, Target!Disconnected
  <2>4. CASE Stopped("hello: stop", "spawning") \/ Stopped("event: stop", "serving")
             \/ Stopped("ending", "ended")
    <3>1. /\ xrdp \in {"hello: stop", "event: stop", "ending"}
          /\ xrdp' \in {"spawning", "serving", "ended"}
          /\ projector \in {"none", "gone"}
          /\ UNCHANGED <<projector, terminated, late, error>>
      BY <2>4 DEF Stopped, queueVars, flagVars
    <3>2. InStop /\ ~InStop'
      BY <3>1 DEF InStop
    <3> InStop' \in BOOLEAN
      BY DEF InStop
    <3>3. Thread # "running" /\ Thread' = Thread
      BY <3>1 DEF Thread
    <3> QED BY <3>1, <3>2, <3>3 DEF Target!Next, Target!Return
  <2>5. CASE ModEnd /\ xrdp # "refused"
    <3>1. /\ ~InStop /\ InStop' = TRUE /\ terminated' = TRUE
          /\ UNCHANGED <<Thread, late, error>>
      BY <2>5 DEF ModEnd, InStop, Thread, queueVars
    <3> QED BY <3>1 DEF Target!Next, Target!Stop
  <2>6. CASE ModEnd /\ xrdp = "refused"
    BY <2>6 DEF ModEnd, InStop, Thread, queueVars
  <2>7. CASE CallBack /\ UNCHANGED <<xrdp, terminated, error>>
             /\ projector \notin {"none", "gone"} /\ projector' \notin {"none", "gone"}
    <3>1. Thread = "running" /\ Thread' = "running" /\ InStop' = InStop
      BY <2>7 DEF InStop, Thread
    <3> QED BY <2>7, <3>1 DEF CallBack, Target!Next, Target!Handle
  <2>8. CASE projector \notin {"none", "gone"} /\ projector' \notin {"none", "gone"}
             /\ UNCHANGED <<xrdp, terminated, late, error>>
    BY <2>8 DEF InStop, Thread
  <2>9. CASE ProjectorLeaves
    <3>1. projector = "reading" /\ projector' = "gone"
          /\ UNCHANGED <<xrdp, terminated, late, error>>
      BY <2>9 DEF ProjectorLeaves, queueVars, flagVars
    <3>2. Thread = "running" /\ Thread' = "ended" /\ InStop' = InStop
      BY <3>1 DEF InStop, Thread
    <3> QED BY <3>1, <3>2 DEF Target!Next, Target!End
  <2>10. CASE XrdpStep
    <3>1. CASE ModStart \/ ModStartEnds \/ ConnectFails \/ SendHello \/ SpawnUpdater
               \/ ConfigureSurface \/ FrameAck \/ Destroy \/ Destroyed
      <4>1. xrdp \notin {"hello: stop", "event: stop", "ending"}
            /\ xrdp' \notin {"hello: stop", "event: stop", "ending"}
        BY <3>1 DEF ModStart, ModStartEnds, ConnectFails, SendHello, SpawnUpdater,
                    ConfigureSurface, FrameAck, Destroy, Destroyed
      <4>2. UNCHANGED <<projector, terminated, late, error>>
        BY <3>1 DEF ModStart, ModStartEnds, ConnectFails, SendHello, SpawnUpdater,
                    ConfigureSurface, FrameAck, Destroy, Destroyed, queueVars, flagVars
      <4>3. ~InStop /\ ~InStop'
        BY <4>1 DEF InStop
      <4> InStop \in BOOLEAN /\ InStop' \in BOOLEAN
        BY DEF InStop
      <4>4. Thread' = Thread
        BY <4>2 DEF Thread
      <4> QED BY <4>2, <4>3, <4>4
    <3> QED BY <2>2, <2>3, <2>4, <2>5, <2>6, <2>10, <3>1 DEF XrdpStep
  <2>11. CASE ProjectorStep
    BY <2>7, <2>8, <2>9, <2>11
       DEF ProjectorStep, AddDirtyRect, CommitUpdate, Push, Notify, queueVars, flagVars
  <2>12. CASE UpdaterStep
    BY <2>1, <2>12 DEF UpdaterStep, Loop, Sleep, Timeout, Take, BeginTurn,
                       SubmitTurn, EndTurn, queueVars, flagVars
  <2>13. CASE UNCHANGED vars
    BY <2>1, <2>13 DEF vars, queueVars, flagVars
  <2> QED BY <1>2, <2>10, <2>11, <2>12, <2>13 DEF Next
<1> QED BY Life, <1>1, <1>2, PTL DEF Spec, ImplementsTarget, Target!Spec
----------------------------------------------------------------------------
(* What is proved of the surface (module ULSurfaceProofs) holds of every   *)
(* behaviour of its specification, and so of the pipeline's.  Proved and   *)
(* Surface are the same specification under the same substitution.         *)

Proved == INSTANCE ULSurfaceProofs WITH
    CRectSizes <- {0, 64}, MaxImages <- MaxCommits

LEMMA SurfaceAssumed == Proved!SurfaceAssumption
BY PipelineAssumption DEF Proved!SurfaceAssumption

LEMMA SurfaceIsProved == Spec => Proved!Spec
<1>1. Surface!Init => Proved!Init
  BY DEF Surface!Init, Surface!SurfaceInit, Proved!Init, Proved!SurfaceInit,
         Surface!RECT_SIZE_BYPASS_CREATE, Proved!RECT_SIZE_BYPASS_CREATE
<1>2. [Surface!Next]_(Surface!vars) => [Proved!Next]_(Proved!vars)
  BY DEF Surface!Next, Surface!Begin, Surface!Submit, Surface!End,
         Surface!Configure, Surface!Ack, Surface!BeginUpdate, Surface!EndUpdate,
         Surface!SetCRectSize, Surface!SubmitUpdate, Surface!DropFrame,
         Surface!DrawNothing, Surface!DrawWhole, Surface!DrawRects,
         Surface!SetAckFrameId, Surface!KeptRects, Surface!ShouldDropFrame,
         Surface!Wrap, Surface!Abs, Surface!IntMin, Surface!NextFrameId,
         Surface!FrameNumber, Surface!Painted, Surface!WholeScreen,
         Surface!DirtyRects, Surface!Threads, Surface!MAX_FRAME_DELAY,
         Surface!vars, Surface!surfaceVars, Surface!memberVars,
         Surface!clientVars, Surface!historyVars,
         Proved!Next, Proved!Begin, Proved!Submit, Proved!End,
         Proved!Configure, Proved!Ack, Proved!BeginUpdate, Proved!EndUpdate,
         Proved!SetCRectSize, Proved!SubmitUpdate, Proved!DropFrame,
         Proved!DrawNothing, Proved!DrawWhole, Proved!DrawRects,
         Proved!SetAckFrameId, Proved!KeptRects, Proved!ShouldDropFrame,
         Proved!Wrap, Proved!Abs, Proved!IntMin, Proved!NextFrameId,
         Proved!FrameNumber, Proved!Painted, Proved!WholeScreen,
         Proved!DirtyRects, Proved!Threads, Proved!MAX_FRAME_DELAY,
         Proved!vars, Proved!surfaceVars, Proved!memberVars,
         Proved!clientVars, Proved!historyVars
<1> QED BY PipelineImplementsSurface, <1>1, <1>2, PTL
        DEF ImplementsSurface, Surface!Spec, Proved!Spec

LEMMA SurfaceTypes == Spec => []Surface!TypeOK
<1>1. Proved!TypeOK => Surface!TypeOK
  BY DEF Proved!TypeOK, Surface!TypeOK, Proved!IntMin, Surface!IntMin,
         Proved!Threads, Surface!Threads
<1> QED BY SurfaceIsProved, SurfaceAssumed, Proved!TypesAreKept, <1>1, PTL

\* In the interleaving of the three threads too, and while no frame number has
\* wrapped, the client is at most two frames behind, loses no frame unless it
\* is, and sees nothing before the whole screen (XrdpUlalacaPrivate's turns
\* and ULSurface::submitUpdate()).
THEOREM PipelineKeepsUp ==
    ASSUME MaxCommits < IntMax
    PROVE  Spec => /\ []Surface!WindowBound
                   /\ []Surface!DropsOnlyWhenBehind
                   /\ []Surface!WholeScreenFirst
<1>1. Proved!NoOverflow
  BY DEF Proved!NoOverflow
<1>2. Proved!WindowBound => Surface!WindowBound
  BY DEF Proved!WindowBound, Surface!WindowBound, Proved!MAX_FRAME_DELAY,
         Surface!MAX_FRAME_DELAY
<1>3. Proved!DropsOnlyWhenBehind => Surface!DropsOnlyWhenBehind
  BY DEF Proved!DropsOnlyWhenBehind, Surface!DropsOnlyWhenBehind,
         Proved!ShouldDropFrame, Surface!ShouldDropFrame, Proved!Wrap,
         Surface!Wrap, Proved!Abs, Surface!Abs, Proved!IntMin, Surface!IntMin,
         Proved!MAX_FRAME_DELAY, Surface!MAX_FRAME_DELAY
<1>4. Proved!WholeScreenFirst => Surface!WholeScreenFirst
  BY DEF Proved!WholeScreenFirst, Surface!WholeScreenFirst
<1> QED BY SurfaceIsProved, SurfaceAssumed, <1>1, <1>2, <1>3, <1>4,
           Proved!WindowIsBounded, Proved!NoNeedlessDrop,
           Proved!WholeScreenComesFirst, PTL
----------------------------------------------------------------------------
(* Types of the pipeline.                                                  *)

\* The variables of the pipeline itself; OrderTypes has the queue's.
Places ==
    /\ xrdp \in {"created", "filling", "started", "refused", "failed", "hello",
                 "hello: stop", "spawning", "configuring", "serving",
                 "event: stop", "ending", "ended", "joining", "gone"}
    /\ projector \in {"none", "reading", "pushed", "gone"}
    /\ updater \in {"none", "looping", "checking", "asleep", "beginning",
                    "submitting", "ending", "gone"}

FlagTypes ==
    /\ running \in BOOLEAN /\ error \in BOOLEAN /\ terminated \in BOOLEAN
    /\ late \in {0, 1} /\ (~terminated => late = 0)
    /\ notified \in [Cells -> 0..MaxCommits]

LEMMA OwnTypesInitial == Init => Places /\ FlagTypes
<1>1. Init => Places
  BY DEF Init, Places
<1>2. 0 \in 0..MaxCommits
  BY PipelineAssumption
<1>3. Init => FlagTypes
  BY <1>2 DEF Init, FlagTypes
<1> QED BY <1>1, <1>3

LEMMA PlacesStep == ASSUME Places, [Next]_vars PROVE Places'
<1>1. CASE UNCHANGED vars
  BY <1>1 DEF Places, vars
<1>2. CASE XrdpStep
  <2>1. CASE ModStart \/ ModStartEnds \/ AttachStarts \/ ConnectFails \/ SendHello
    BY <2>1 DEF Places, ModStart, ModStartEnds, AttachStarts, ConnectFails,
                SendHello
  <2>2. CASE SpawnUpdater \/ ConfigureSurface \/ FrameAck \/ ModEnd \/ Destroy
             \/ Destroyed
    BY <2>2 DEF Places, SpawnUpdater, ConfigureSurface, FrameAck, ModEnd, Destroy,
                Destroyed
  <2>3. CASE ConnectionLost("hello", "hello: stop")
             \/ ConnectionLost("serving", "event: stop")
    BY <2>3 DEF Places, ConnectionLost
  <2>4. CASE Stopped("hello: stop", "spawning") \/ Stopped("event: stop", "serving")
             \/ Stopped("ending", "ended")
    BY <2>4 DEF Places, Stopped
  <2> QED BY <1>2, <2>1, <2>2, <2>3, <2>4 DEF XrdpStep
<1>3. CASE ProjectorStep
  BY <1>3 DEF Places, ProjectorStep, AddDirtyRect, CommitUpdate, Push, Notify,
              ProjectorLeaves
<1>4. CASE UpdaterStep
  BY <1>4 DEF Places, UpdaterStep, Loop, Sleep, Timeout, Take, BeginTurn,
              SubmitTurn, EndTurn
<1> QED BY <1>1, <1>2, <1>3, <1>4 DEF Next

\* A callback is late at most once.
LEMMA CallBackTypes ==
    ASSUME FlagTypes, CallBack, UNCHANGED <<running, error, terminated>>,
           notified' \in [Cells -> 0..MaxCommits]
    PROVE  FlagTypes'
BY DEF FlagTypes, CallBack

LEMMA FlagStep == ASSUME OrderInv, FlagTypes, [Next]_vars PROVE FlagTypes'
<1>1. CASE UNCHANGED <<flagVars, late, notified>>
  BY <1>1 DEF FlagTypes, flagVars
<1>2. CASE UNCHANGED vars
  BY <1>1, <1>2 DEF vars, queueVars
<1>3. CASE XrdpStep
  <2>1. CASE SpawnUpdater \/ Destroy
    BY <2>1 DEF FlagTypes, SpawnUpdater, Destroy, queueVars
  <2>2. CASE ModEnd
    BY <2>2 DEF FlagTypes, ModEnd, queueVars
  <2>3. CASE ConnectionLost("hello", "hello: stop")
             \/ ConnectionLost("serving", "event: stop")
    BY <2>3 DEF FlagTypes, ConnectionLost, queueVars
  <2> QED BY <1>1, <1>3, <2>1, <2>2, <2>3
          DEF XrdpStep, ModStart, ModStartEnds, AttachStarts, ConnectFails,
              SendHello, Stopped, ConfigureSurface, FrameAck, Destroyed, queueVars
<1>4. CASE ProjectorStep
  <2>1. CASE (\E c \in Cells : AddDirtyRect(c))
    <3>1. PICK c \in Cells : AddDirtyRect(c)
      BY <2>1
    <3>2. /\ CallBack /\ UNCHANGED flagVars
          /\ notified' = [notified EXCEPT ![c] = commits + 1]
          /\ commits + 1 \in 0..MaxCommits
      BY <3>1, PipelineAssumption DEF AddDirtyRect, OrderInv, OrderTypes
    <3>3. notified' \in [Cells -> 0..MaxCommits]
      BY <3>2 DEF FlagTypes
    <3> QED BY <3>2, <3>3, CallBackTypes DEF flagVars
  <2>2. CASE CommitUpdate
    <3>1. CASE Push("reading", "pushed")
      BY <2>2, <3>1, CallBackTypes DEF CommitUpdate, Push, flagVars, FlagTypes
    <3>2. CASE Notify("pushed", "reading")
      BY <1>1, <2>2, <3>2 DEF CommitUpdate, Notify, queueVars
    <3> QED BY <2>2, <3>1, <3>2 DEF CommitUpdate
  <2>3. CASE ProjectorLeaves
    BY <1>1, <2>3 DEF ProjectorLeaves, queueVars
  <2> QED BY <1>4, <2>1, <2>2, <2>3 DEF ProjectorStep
<1>5. CASE UpdaterStep
  BY <1>1, <1>5 DEF UpdaterStep, Loop, Sleep, Timeout, Take, BeginTurn,
                    SubmitTurn, EndTurn, queueVars
<1> QED BY <1>2, <1>3, <1>4, <1>5 DEF Next

LEMMA TypesTogether ==
    ASSUME Surface!TypeOK, OrderInv, Places, FlagTypes
    PROVE  TypeOK
<1>1. transaction \in {<<>>} \cup {<<t>> : t \in Transactions}
  <2>1. transaction \in Seq(Transactions) /\ Len(transaction) \in {0, 1}
    BY DEF OrderInv, OrderTypes
  <2>2. CASE Len(transaction) = 0
    BY <2>1, <2>2, EmptySeq
  <2>3. CASE Len(transaction) = 1
    <3>1. transaction[1] \in Transactions
      BY <2>1, <2>3, ElementOfSeq
    <3>2. transaction = <<transaction[1]>>
      BY <2>1, <2>3, <3>1
    <3> QED BY <3>1, <3>2
  <2> QED BY <2>1, <2>2, <2>3
<1> QED BY <1>1 DEF TypeOK, OrderInv, OrderTypes, Places, FlagTypes

\* Every variable of the surface and of the pipeline keeps its type, in every
\* interleaving of the three threads; stop() lets at most one callback follow.
THEOREM TypesAreKept == Spec => []TypeOK
<1>1. Spec => [](Places /\ FlagTypes)
  <2>1. OrderInv /\ Places /\ FlagTypes /\ [Next]_vars => Places' /\ FlagTypes'
    BY PlacesStep, FlagStep
  <2> QED BY Order, OwnTypesInitial, <2>1, PTL DEF Spec
<1>2. Surface!TypeOK /\ OrderInv /\ Places /\ FlagTypes => TypeOK
  BY TypesTogether
<1> QED BY <1>1, <1>2, SurfaceTypes, Order, PTL
=============================================================================
