-------------------------- MODULE ProjectionTarget --------------------------
(***************************************************************************)
(* What a ProjectorClient promises the ProjectionTarget it calls back      *)
(* (src/ProjectionTarget.hpp), and so what the target may build on: the    *)
(* callbacks come from one thread that is started once; after stop() has   *)
(* been called the thread is done after one message more; stop() returns   *)
(* only when the thread is gone, so that no callback comes after it; and   *)
(* ipcDisconnected() is called at most once, of a client that nobody has   *)
(* stopped, which is stopped then.                                         *)
(*                                                                         *)
(* ProjectorClient implements this, and XrdpUlalacaPrivate, which is the   *)
(* target, does when it is composed with a client that does.               *)
(***************************************************************************)
EXTENDS Naturals

VARIABLES
    thread,    \* the thread that calls back
    stopping,  \* stop() has been called
    inStop,    \* and has not returned
    late,      \* messages handled since, with a callback each at most
    lost       \* ipcDisconnected() has been called

vars == <<thread, stopping, inStop, late, lost>>

Init ==
    /\ thread = "none"
    /\ stopping = FALSE /\ inStop = FALSE /\ late = 0 /\ lost = FALSE

\* start()
Begin ==
    /\ thread = "none" /\ ~stopping
    /\ thread' = "running"
    /\ UNCHANGED <<stopping, inStop, late, lost>>

\* A message: addDirtyRect(), commitUpdate() or, of another kind, nothing.
Handle ==
    /\ thread = "running"
    /\ stopping => late = 0
    /\ late' = IF stopping THEN late + 1 ELSE late
    /\ UNCHANGED <<thread, stopping, inStop, lost>>

End ==
    /\ thread = "running"
    /\ thread' = "ended"
    /\ UNCHANGED <<stopping, inStop, late, lost>>

\* stop(), which may be called again when it has returned.
Stop ==
    /\ ~inStop
    /\ stopping' = TRUE
    /\ inStop' = TRUE
    /\ UNCHANGED <<thread, late, lost>>

\* ipcDisconnected(), and stop().
Disconnected ==
    /\ ~inStop /\ ~stopping /\ ~lost
    /\ lost' = TRUE
    /\ stopping' = TRUE
    /\ inStop' = TRUE
    /\ UNCHANGED <<thread, late>>

\* stop() returns from its join().
Return ==
    /\ inStop /\ thread # "running"
    /\ inStop' = FALSE
    /\ UNCHANGED <<thread, stopping, late, lost>>

Next == Begin \/ Handle \/ End \/ Stop \/ Disconnected \/ Return

Spec == Init /\ [][Next]_vars
=============================================================================
