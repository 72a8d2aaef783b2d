---------------------------- MODULE UnixTransport ----------------------------
(***************************************************************************)
(* ListenAndServe of src/go/transport/unixsocket/server_unix.go: the       *)
(* server of UnixServer on the listener Own of UnixListener, beside the    *)
(* listeners of other processes on the same path.  The listener is closed  *)
(* by the watcher or by serve, whoever is first inside closeOnce; the      *)
(* other one waits until the socket is closed and the leaf is looked after. *)
(* UnixServer's listener closes with Own's socket.                         *)
(***************************************************************************)
EXTENDS Integers, FiniteSets

CONSTANTS
  Listeners,  \* calls of ListenStream on the path, over all processes
  Own,        \* the one of this ListenAndServe
  Streams,    \* sockets that clients connect
  None

ASSUME OwnAssumption == Own \in Listeners /\ None \notin Listeners

VARIABLES
  path, lpc, identity, accepting, unlinked,             \* UnixListener
  ctxDone, cancelled, listener, watcher, stopWatcher,   \* UnixServer
  stopping, setup, active, wg, mpc, todo, primary, pc, stream, conn,
  serving     \* has ListenStream succeeded and serve begun?

L == INSTANCE UnixListener
S == INSTANCE UnixServer

pathVars == <<path, lpc, identity, accepting, unlinked>>
serverVars == <<ctxDone, cancelled, listener, watcher, stopWatcher, stopping, setup, active, wg,
                mpc, todo, primary, pc, stream, conn>>
vars == <<pathVars, serverVars, serving>>

Init == L!Init /\ S!Init /\ serving = FALSE

\* closeOnce is done.
Closed == lpc[Own] \in {"closed", "closeErr"}

-----------------------------------------------------------------------------
(* The path                                                                *)

\* ListenStream, and the end of any Close.
PathStep(l) ==
  /\ \/ L!Inspect(l) \/ L!Bind(l) \/ L!Identify(l) \/ L!Chmod(l)
     \/ L!Check(l) \/ L!Remove(l)
  /\ UNCHANGED <<serverVars, serving>>

\* Other processes close when they like; Own after a failed Chmod.
OtherClose(l) ==
  /\ l # Own /\ L!Close(l)
  /\ UNCHANGED <<serverVars, serving>>

OtherNetClose(l) ==
  /\ l # Own \/ ~serving
  /\ L!NetClose(l)
  /\ UNCHANGED <<serverVars, serving>>

Unlink == L!Unlink /\ UNCHANGED <<serverVars, serving>>

-----------------------------------------------------------------------------
(* The server                                                              *)

ListenAndServe ==
  /\ ~serving /\ lpc[Own] = "open"
  /\ serving' = TRUE
  /\ UNCHANGED <<pathVars, serverVars>>

ContextDone ==
  /\ lpc[Own] # "failed"
  /\ S!ContextDone
  /\ UNCHANGED <<pathVars, serving>>

\* The watcher or serve enters closeOnce.
BeginClose ==
  /\ serving /\ ((watcher = "wait" /\ ctxDone) \/ mpc = "cancel")
  /\ L!Close(Own)
  /\ UNCHANGED <<serverVars, serving>>

\* Closing the listener closes Own's socket, unless the other one has.
WithSocket(step) ==
  /\ serving /\ step
  /\ IF listener' # listener THEN L!NetClose(Own) ELSE UNCHANGED pathVars
  /\ UNCHANGED serving

Watch == WithSocket(S!Watch)
Cancel == WithSocket(S!Cancel)

\* Mutant: the leaf may still be there when serve goes on.
JoinWatcher_early ==
  /\ serving
  /\ S!JoinWatcher
  /\ UNCHANGED <<pathVars, serving>>

\* Both calls of Close have returned.
JoinWatcher ==
  /\ serving /\ Closed
  /\ S!JoinWatcher
  /\ UNCHANGED <<pathVars, serving>>

Accept(x) ==
  /\ serving /\ Own \in accepting
  /\ S!Accept(x)
  /\ UNCHANGED <<pathVars, serving>>

Serving(step) == serving /\ step /\ UNCHANGED <<pathVars, serving>>

AcceptFails == Serving(S!AcceptFails)
Stop == Serving(S!Stop)
Return == Serving(S!Return)
CloseItem(x, kind) == Serving(S!CloseItem(x, kind))
NegotiateFails(x) == Serving(S!NegotiateFails(x))
Unregister(x) == Serving(S!Unregister(x))
Abandon(x) == Serving(S!Abandon(x))
Negotiate(x) == Serving(S!Negotiate(x))
promote(x) == Serving(S!promote(x))
RejectClose(x) == Serving(S!RejectClose(x))
RejectWait(x) == Serving(S!RejectWait(x))
ConnWait(x) == Serving(S!ConnWait(x))
remove(x) == Serving(S!remove(x))
ConnTerminates(x) == Serving(S!ConnTerminates(x))
ConnDown(x) == Serving(S!ConnDown(x))

Next ==
  \/ \E l \in Listeners : PathStep(l) \/ OtherClose(l) \/ OtherNetClose(l)
  \/ Unlink \/ ListenAndServe \/ ContextDone \/ BeginClose \/ Watch
  \/ AcceptFails \/ Stop \/ Cancel \/ JoinWatcher \/ Return
  \/ \E x \in Streams, kind \in {"stream", "conn"} : CloseItem(x, kind)
  \/ \E x \in Streams :
       \/ Accept(x) \/ NegotiateFails(x) \/ Unregister(x) \/ Abandon(x)
       \/ Negotiate(x) \/ promote(x) \/ RejectClose(x) \/ RejectWait(x)
       \/ ConnWait(x) \/ remove(x) \/ ConnTerminates(x) \/ ConnDown(x)

Spec == Init /\ [][Next]_vars

\* The fairness of UnixServer, and of the system calls of ListenAndServe.
Fairness ==
  /\ WF_vars(ListenAndServe) /\ WF_vars(PathStep(Own)) /\ WF_vars(OtherNetClose(Own))
  /\ WF_vars(BeginClose)
  /\ WF_vars(Watch) /\ WF_vars(listener # "open" /\ AcceptFails)
  /\ WF_vars(Stop) /\ WF_vars(Cancel) /\ WF_vars(JoinWatcher) /\ WF_vars(Return)
  /\ WF_vars(\E x \in Streams, kind \in {"stream", "conn"} : CloseItem(x, kind))
  /\ \A x \in Streams :
       /\ WF_vars(NegotiateFails(x) \/ Negotiate(x))
       /\ WF_vars(Unregister(x)) /\ WF_vars(Abandon(x))
       /\ WF_vars(promote(x)) /\ WF_vars(RejectClose(x)) /\ WF_vars(RejectWait(x))
       /\ WF_vars(ConnWait(x)) /\ WF_vars(remove(x)) /\ WF_vars(ConnDown(x))
       /\ WF_vars((S!serveCtxDone \/ stream[x] = "closed") /\ ConnTerminates(x))

FairSpec == Spec /\ Fairness

-----------------------------------------------------------------------------
(* Properties                                                              *)

\* While no other program removes a leaf, at most one listener at a time owns
\* the path, clients that dial it reach the listener that is open, and a Close
\* that is about to remove the leaf removes its own; and at no time does a
\* Close that reported no error leave a stale leaf behind, which would keep
\* the next listener from starting.
PathOwnership ==
  /\ L!TypeOK /\ L!PathReachesOpen /\ L!NoStaleLeaf
  /\ serving /\ listener = "open" => Own \in accepting

\* Every goroutine of a stream is found by exactly the map that fits its phase,
\* so stop's snapshot misses no open socket; and when ListenAndServe returns,
\* no goroutine, socket, connection or listener of it is left, its socket file
\* is gone unless removing it failed, and another process may start.
ServeDrains ==
  /\ S!TypeOK /\ S!Registered /\ S!ServeDrains
  /\ mpc = "returned" => /\ Closed /\ Own \notin accepting
                         /\ lpc[Own] = "closed" => path # Own

\* ListenAndServe returns after its context is done, whatever clients and
\* other processes do to the path.
ServeEnds == ctxDone ~> (mpc = "returned" \/ lpc[Own] = "failed" \/ (~serving /\ Closed))

\* The WaitGroup counts the goroutines of streams, neither more nor less.
Counted == IsFiniteSet(S!InFlight) /\ wg = Cardinality(S!InFlight)

ServerInv == S!TypeOK /\ S!Registered /\ Counted /\ S!Owned /\ S!Stopped

\* The inductive invariant behind PathOwnership and ServeDrains: those of the
\* two parts, and how the server's view of its listener follows the socket.
TransportInv ==
  /\ L!PathInv /\ ServerInv
  /\ serving /\ listener = "open" => lpc[Own] \in {"open", "netClose"}
  /\ mpc \in {"closing", "returned"} => Closed
=============================================================================
