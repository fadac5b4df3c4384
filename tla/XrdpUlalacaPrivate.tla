------------------------- MODULE XrdpUlalacaPrivate -------------------------
(***************************************************************************)
(* src/XrdpUlalacaPrivate.{hpp,cpp,xrdpmodule.cpp} with the callbacks of    *)
(* src/ProjectorClient.cpp: how a screen update gets from the projector to *)
(* the surface, while xrdp starts the module, connects it, acknowledges    *)
(* frames and takes it down.  Three threads:                               *)
(*   xrdp       calls libMod*() and, at last, the destructor;              *)
(*   projector  ProjectorClient::mainLoop(), which calls addDirtyRect()    *)
(*              and commitUpdate();                                        *)
(*   updater    updateThreadLoop().                                        *)
(* They share the update queue, the surface (module ULSurface) and a few   *)
(* flags.  The connections are IPCConnection's matter: all that is left of *)
(* them here is that the broker may give no session, that start() may      *)
(* throw, that the connection may turn out to be lost, and that the        *)
(* projector thread may leave its loop between any two messages, and does  *)
(* so within one of being told to (ProjectionTarget, which the module      *)
(* ProjectorClient implements).                                            *)
(*                                                                         *)
(* An operator whose comment begins with "Variant:" is not part of the     *)
(* specification: it is the plausible mistake that a property is there to  *)
(* catch (PROJECT.json, "mutants").                                        *)
(***************************************************************************)
EXTENDS Integers, Sequences

CONSTANTS Cells, IntMax,  \* as in ULSurface
          RFXCodec,       \* isRFXCodec(), from the client_info xrdp has set
          MaxCommits      \* bound: images the projector commits

ASSUME PipelineAssumption ==
    /\ Cells # {}
    /\ IntMax \in Nat \ {0}
    /\ RFXCodec \in BOOLEAN
    /\ MaxCommits \in Nat

VARIABLES
    frameId, ackFrameId, pendingRects, updateThread, workaround, crectSize,
    screen, inFlight, grids, latest, image,  \* as in ULSurface
    dirtyRects,   \* _dirtyRects, as the cells it covers
    updateQueue,  \* _updateQueue: transactions, [rects, image]
    transaction,  \* the updater's local: the transaction it has taken and
                  \* not submitted, as a sequence of at most one
    running,      \* _isUpdateThreadRunning
    error,        \* _error = 1
    terminated,   \* ProjectorClient::_isTerminated
    xrdp, projector, updater,  \* where the threads are
    commits,      \* history: the number of commits
    late,         \* history: callbacks since stop() was called
    notified      \* history: for each cell, the commit that is to bring the
                  \* last change addDirtyRect() was told of

surfaceVars == <<frameId, ackFrameId, pendingRects, updateThread, workaround,
                 crectSize, screen, inFlight, grids, latest, image>>
queueVars == <<dirtyRects, updateQueue, commits, late, notified>>
flagVars == <<running, error, terminated>>
vars == <<surfaceVars, queueVars, transaction, flagVars,
          xrdp, projector, updater>>

Surface == INSTANCE ULSurface WITH CRectSizes <- {0, 64}, MaxImages <- MaxCommits

\* Variant: a negative size for "no grid".
DecideNegative == IF RFXCodec THEN 64 ELSE -1

\* decideCopyRectSize(): the RemoteFX encoder works on tiles of 64 by 64.
DecideCopyRectSize == IF RFXCodec THEN 64 ELSE Surface!RECT_SIZE_BYPASS_CREATE

Transactions == [rects : SUBSET Cells, image : 1..MaxCommits]

\* The constructor, which leaves a flag uninitialised.
Init ==
    /\ Surface!Init
    /\ dirtyRects = {} /\ updateQueue = <<>> /\ transaction = <<>>
    /\ running \in BOOLEAN /\ error = FALSE /\ terminated = FALSE
    /\ xrdp = "created" /\ projector = "none" /\ updater = "none"
    /\ commits = 0 /\ late = 0 /\ notified = [c \in Cells |-> 0]
----------------------------------------------------------------------------
(* xrdp's thread. *)

\* libModStart(): fills the screen with the background, between...
ModStart ==
    /\ xrdp = "created"
    /\ Surface!BeginUpdate("xrdp")
    /\ xrdp' = "filling"
    /\ UNCHANGED <<latest, image, queueVars, transaction, flagVars, projector,
                   updater>>

\* ... beginUpdate() and endUpdate().
ModStartEnds ==
    /\ xrdp = "filling"
    /\ Surface!EndUpdate
    /\ xrdp' = "started"
    /\ UNCHANGED <<latest, image, queueVars, transaction, flagVars, projector,
                   updater>>

\* attachToSession(): ProjectorClient::start() connects and starts mainLoop().
AttachStarts ==
    /\ xrdp = "started"
    /\ projector' = "reading"
    /\ xrdp' = "hello"
    /\ UNCHANGED <<surfaceVars, queueVars, transaction, flagVars, updater>>

\* libModConnect() returns 1: the broker gives no session, and there is no
\* projector client; or the client's start() throws, and there is one.
ConnectFails ==
    /\ xrdp = "started"
    /\ xrdp' \in {"refused", "failed"}
    /\ UNCHANGED <<surfaceVars, queueVars, transaction, flagVars, projector,
                   updater>>

SendHello ==
    /\ xrdp = "hello"
    /\ xrdp' = "spawning"
    /\ UNCHANGED <<surfaceVars, queueVars, transaction, flagVars, projector,
                   updater>>

\* sendHello() or handleEvent() on a lost connection: ipcDisconnected(), and
\* stop(), which waits for the projector thread.
ConnectionLost(from, to) ==
    /\ xrdp = from /\ ~terminated
    /\ error' = TRUE
    /\ terminated' = TRUE
    /\ xrdp' = to
    /\ UNCHANGED <<surfaceVars, queueVars, transaction, running, projector,
                   updater>>

\* Variant: stop() does not wait.
StoppedUnjoined(from, to) ==
    /\ xrdp = from
    /\ xrdp' = to
    /\ UNCHANGED <<surfaceVars, queueVars, transaction, flagVars, projector,
                   updater>>

\* The join() of ProjectorClient::stop() returns.
Stopped(from, to) ==
    /\ xrdp = from /\ projector \in {"none", "gone"}
    /\ xrdp' = to
    /\ UNCHANGED <<surfaceVars, queueVars, transaction, flagVars, projector,
                   updater>>

\* attachToSession() starts the update thread...
SpawnUpdater ==
    /\ xrdp = "spawning"
    /\ running' = TRUE
    /\ updater' = "looping"
    /\ xrdp' = "configuring"
    /\ UNCHANGED <<surfaceVars, queueVars, transaction, error, terminated,
                   projector>>

\* ... and then tells the projector to begin, and the surface its grid.
ConfigureSurface ==
    /\ xrdp = "configuring"
    /\ Surface!SetCRectSize(DecideCopyRectSize)
    /\ xrdp' = "serving"
    /\ UNCHANGED <<latest, image, queueVars, transaction, flagVars, projector,
                   updater>>

\* libModFrameAck()
FrameAck ==
    /\ xrdp = "serving"
    /\ \E k \in 1..Len(inFlight) : Surface!SetAckFrameId(k)
    /\ UNCHANGED <<latest, image, queueVars, transaction, flagVars, xrdp,
                   projector, updater>>

\* libModEnd() calls stop() if there is a projector client.  xrdp ends a
\* session when it likes, and at once when libModCheckWaitObjs() returns 1.
ModEnd ==
    /\ \/ /\ xrdp \in {"serving", "failed"}
          /\ terminated' = TRUE
          /\ xrdp' = "ending"
       \/ /\ xrdp = "refused"
          /\ xrdp' = "ended"
          /\ UNCHANGED terminated
    /\ UNCHANGED <<surfaceVars, queueVars, transaction, running, error,
                   projector, updater>>

\* Variant: the error is not reported.
CheckNothing == FALSE

\* libModCheckWaitObjs() returns 1.
CheckWaitObjs == error

\* mod_exit(), which after a failed connect needs no mod_end before: the
\* destructor clears the flag...
Destroy ==
    /\ xrdp \in {"ended", "refused", "failed"}
    /\ running' = FALSE
    /\ xrdp' = "joining"
    /\ UNCHANGED <<surfaceVars, queueVars, transaction, error, terminated,
                   projector, updater>>

\* Variant: the destructor does not join.
DestroyedUnjoined ==
    /\ xrdp = "joining"
    /\ xrdp' = "gone"
    /\ UNCHANGED <<surfaceVars, queueVars, transaction, flagVars, projector,
                   updater>>

\* ... and joins the update thread, if there is one.
Destroyed ==
    /\ xrdp = "joining" /\ updater \in {"none", "gone"}
    /\ xrdp' = "gone"
    /\ UNCHANGED <<surfaceVars, queueVars, transaction, flagVars, projector,
                   updater>>

XrdpStep ==
    \/ ModStart \/ ModStartEnds
    \/ AttachStarts \/ ConnectFails
    \/ SendHello \/ ConnectionLost("hello", "hello: stop")
    \/ Stopped("hello: stop", "spawning")
    \/ SpawnUpdater \/ ConfigureSurface
    \/ FrameAck
    \/ ConnectionLost("serving", "event: stop")
    \/ Stopped("event: stop", "serving")
    \/ ModEnd \/ Stopped("ending", "ended")
    \/ Destroy \/ Destroyed
----------------------------------------------------------------------------
(* The projector thread. *)

\* The client calls back: after stop() for one message at most.
CallBack ==
    /\ terminated => late = 0
    /\ late' = IF terminated THEN late + 1 ELSE late

\* addDirtyRect(); the change is in the next image the projector commits.
AddDirtyRect(c) ==
    /\ projector = "reading" /\ commits < MaxCommits
    /\ CallBack
    /\ dirtyRects' = dirtyRects \cup {c}
    /\ notified' = [notified EXCEPT ![c] = commits + 1]
    /\ UNCHANGED <<surfaceVars, updateQueue, commits, transaction, flagVars,
                   xrdp, projector, updater>>

\* Variant: the dirty rectangles are cleared before they are copied.
EmptyTransaction == [rects |-> {}, image |-> commits + 1]

\* The transaction commitUpdate() builds.
NewTransaction == [rects |-> dirtyRects, image |-> commits + 1]

\* Variant: in front of the others.
QueuedFirst(t) == <<t>> \o updateQueue

\* The queue with one more transaction.
Queued(t) == Append(updateQueue, t)

\* commitUpdate() up to the end of the lock, at the place where the thread is
\* `from`...
Push(from, to) ==
    /\ projector = from /\ commits < MaxCommits
    /\ CallBack
    /\ updateQueue' = Queued(NewTransaction)
    /\ dirtyRects' = {}
    /\ commits' = commits + 1
    /\ projector' = to
    /\ UNCHANGED <<notified, updater>>

\* ... and its notify_one().
Notify(from, to) ==
    /\ projector = from
    /\ updater' = IF updater = "asleep" THEN "checking" ELSE updater
    /\ projector' = to
    /\ UNCHANGED queueVars

\* Variant: notifies before there is anything to take.
NotifyThenPush ==
    /\ \/ Notify("reading", "pushed") \/ Push("pushed", "reading")
    /\ UNCHANGED <<surfaceVars, transaction, flagVars, xrdp>>

CommitUpdate ==
    /\ \/ Push("reading", "pushed") \/ Notify("pushed", "reading")
    /\ UNCHANGED <<surfaceVars, transaction, flagVars, xrdp>>

\* mainLoop() returns.
ProjectorLeaves ==
    /\ projector = "reading"
    /\ projector' = "gone"
    /\ UNCHANGED <<surfaceVars, queueVars, transaction, flagVars, xrdp,
                   updater>>

ProjectorStep == \/ \E c \in Cells : AddDirtyRect(c)
                 \/ CommitUpdate
                 \/ ProjectorLeaves
----------------------------------------------------------------------------
(* The update thread. *)

\* The condition of the loop.
Loop ==
    /\ updater = "looping"
    /\ updater' = IF running THEN "checking" ELSE "gone"
    /\ UNCHANGED <<surfaceVars, queueVars, transaction, flagVars, xrdp,
                   projector>>

\* wait_for() finds the queue empty and sleeps.
Sleep ==
    /\ updater = "checking" /\ updateQueue = <<>>
    /\ updater' = "asleep"
    /\ UNCHANGED <<surfaceVars, queueVars, transaction, flagVars, xrdp,
                   projector>>

\* Variant: wait() without a time limit.
NoTimeout == FALSE

\* After a second wait_for() gives up...
TimedOut == updater = "asleep"

\* Variant: a second without an update ends the thread.
TimeoutLeaves ==
    /\ TimedOut /\ updateQueue = <<>>
    /\ updater' = "gone"
    /\ UNCHANGED <<surfaceVars, queueVars, transaction, flagVars, xrdp,
                   projector>>

\* ... and, the queue being empty, the loop continues.
Timeout ==
    /\ TimedOut /\ updateQueue = <<>>
    /\ updater' = "looping"
    /\ UNCHANGED <<surfaceVars, queueVars, transaction, flagVars, xrdp,
                   projector>>

\* wait_for() finds a transaction, on time or at the last moment.
Take ==
    /\ updater = "checking" \/ TimedOut
    /\ updateQueue # <<>>
    /\ transaction' = <<Head(updateQueue)>>
    /\ updateQueue' = Tail(updateQueue)
    /\ updater' = "beginning"
    /\ UNCHANGED <<surfaceVars, dirtyRects, commits, late, notified, flagVars,
                   xrdp, projector>>

\* beginUpdate()
BeginTurn ==
    /\ updater = "beginning"
    /\ Surface!BeginUpdate("updater")
    /\ updater' = "submitting"
    /\ UNCHANGED <<latest, image, queueVars, transaction, flagVars, xrdp,
                   projector>>

\* submitUpdate(); the code keeps the transaction until it takes the next one
\* and makes no use of it.
SubmitTurn ==
    /\ updater = "submitting"
    /\ LET t == transaction[1] IN
          /\ Surface!SubmitUpdate(t.rects, t.image)
          /\ image' = t.image
          /\ latest' = [c \in Cells |-> IF c \in t.rects THEN t.image
                                                         ELSE latest[c]]
    /\ transaction' = <<>>
    /\ updater' = "ending"
    /\ UNCHANGED <<queueVars, flagVars, xrdp, projector>>

\* Variant: a turn that painted nothing is left without endUpdate().
EndPaintedTurn ==
    /\ updater = "ending"
    /\ IF pendingRects = {} THEN Surface!EndUpdate
       ELSE UNCHANGED <<frameId, ackFrameId, pendingRects, updateThread,
                        workaround, crectSize, screen, inFlight, grids>>
    /\ updater' = "looping"
    /\ UNCHANGED <<latest, image, queueVars, transaction, flagVars, xrdp,
                   projector>>

\* endUpdate(); the wait object xrdp sleeps on is set.
EndTurn ==
    /\ updater = "ending"
    /\ Surface!EndUpdate
    /\ updater' = "looping"
    /\ UNCHANGED <<latest, image, queueVars, transaction, flagVars, xrdp,
                   projector>>

UpdaterStep == \/ Loop \/ Sleep \/ Timeout \/ Take
               \/ BeginTurn \/ SubmitTurn \/ EndTurn

Next == XrdpStep \/ ProjectorStep \/ UpdaterStep

Spec == Init /\ [][Next]_vars

\* What xrdp and the module do on their own account once the session is to
\* end, or attachToSession() has been entered.
XrdpGoesOn ==
    \/ SendHello \/ SpawnUpdater \/ ConfigureSurface
    \/ CheckWaitObjs /\ ModEnd
    \/ Stopped("hello: stop", "spawning") \/ Stopped("event: stop", "serving")
    \/ Stopped("ending", "ended")
    \/ Destroy \/ Destroyed

\* The update thread runs when it can, and its second passes; a join() whose
\* thread has ended returns; xrdp asks libModCheckWaitObjs() in every turn of
\* its main loop, ends the session when it is told to and unloads a module it
\* has ended or could not connect.  Nothing is assumed of when the projector
\* sends, the user leaves or the client acknowledges.
FairSpec == Spec /\ WF_vars(UpdaterStep) /\ WF_vars(XrdpGoesOn)
----------------------------------------------------------------------------
(* Properties. *)

TypeOK ==
    /\ Surface!TypeOK
    /\ dirtyRects \subseteq Cells
    /\ updateQueue \in Seq(Transactions)
    /\ transaction \in {<<>>} \cup {<<t>> : t \in Transactions}
    /\ running \in BOOLEAN /\ error \in BOOLEAN /\ terminated \in BOOLEAN
    /\ xrdp \in {"created", "filling", "started", "refused",
                 "failed", "hello", "hello: stop", "spawning", "configuring", "serving",
                 "event: stop", "ending", "ended", "joining", "gone"}
    /\ projector \in {"none", "reading", "pushed", "gone"}
    /\ updater \in {"none", "looping", "checking", "asleep", "beginning",
                    "submitting", "ending", "gone"}
    /\ commits \in 0..MaxCommits /\ late \in {0, 1}
    /\ notified \in [Cells -> 0..MaxCommits]

\* A change the projector has told of is on the client's screen, or is on its
\* way there: not committed yet, in the queue, in the hands of the updater or
\* waiting in the surface for the next image.
NoChangeLost ==
    \A c \in Cells :
        screen[c] < notified[c] =>
            \/ c \in dirtyRects \cup pendingRects
            \/ \E i \in 1..Len(updateQueue) : c \in updateQueue[i].rects
            \/ transaction # <<>> /\ c \in transaction[1].rects

\* The updater does not sleep on work: when it is asleep and the queue is not
\* empty, commitUpdate() is about to wake it.
NoLostWakeup ==
    updater = "asleep" /\ updateQueue # <<>> => projector = "pushed"

\* beginUpdate() never finds the surface taken: if it did, the exception
\* would lose the transaction in the updater's hands.
NeverRefused ==
    xrdp = "created" \/ updater = "beginning" => updateThread = "none"

\* A cell never goes back to an older image.
NeverBackInTime == [][\A c \in Cells : screen'[c] >= screen[c]]_screen

\* The three threads together use the surface as ULSurface's specification
\* has it used: one holder at a time, images submitted in order.  What is
\* proved of that specification holds of this one.
ImplementsSurface == Surface!Spec

\* Every grid the encoder was given is the one decideCopyRectSize() decides on
\* (tests/test_copyrects.cpp: 64 for RemoteFX).
OneGrid == grids \subseteq {DecideCopyRectSize}

\* What is queued is submitted once the update thread has been started,
\* unless the module is taken down first.
QueueDrains ==
    updateQueue # <<>> /\ updater # "none" ~> (updateQueue = <<>> \/ ~running)

\* As a ProjectionTarget, the module is called back as ProjectorClient
\* promises; and xrdp's thread, which stops the client, does not go on before
\* the last callback has returned.
InStop == xrdp \in {"hello: stop", "event: stop", "ending"}

Thread == CASE projector = "none" -> "none"
            [] projector = "gone" -> "ended"
            [] OTHER              -> "running"

Target == INSTANCE ProjectionTarget WITH
    thread <- Thread, stopping <- terminated, inStop <- InStop, lost <- error

ImplementsTarget == Target!Spec

\* When mod_exit() has destroyed the module no thread of it is left that could
\* use what is gone, whichever way the session came to its end.
NobodyLeftBehind ==
    xrdp = "gone" => {projector, updater} \subseteq {"none", "gone"}

\* A session that is to end does end, unless the projector thread is stuck in
\* its connection: after the connection was lost, a failed connect or mod_end,
\* wherever the three threads were, the module is taken down.
Ending == error \/ xrdp \in {"refused", "failed", "ending", "ended", "joining"}

SessionEnds ==
    Ending /\ projector \in {"none", "gone"} ~> xrdp = "gone"
=============================================================================
