----------------------------- MODULE UnixServer -----------------------------
(***************************************************************************)
(* serve of src/go/transport/unixsocket/server_unix.go: the accept loop,   *)
(* the watcher that closes the listener when the context is done, and one  *)
(* goroutine per accepted stream.  Closing the listener is one step here:  *)
(* UnixListener has its system calls, and UnixTransport joins the two (the *)
(* error of Close, which serve adds to its own, is Own's "closeErr" there). *)
(* A connection is "live", then "terminal" and then "down" when its Wait   *)
(* returns with the stream closed.                                         *)
(* The accept loop is the only caller of addSetup and calls stop after its *)
(* last addSetup, so addSetup never meets a stopping state.                *)
(***************************************************************************)
EXTENDS Integers

CONSTANT Streams    \* sockets that clients connect

StreamPC == {"idle", "negotiate", "unregister", "promote", "reject", "rejectWait", "wait",
             "remove", "abandon", "done"}

VARIABLES
  ctxDone,    \* is the serving context done?
  cancelled,  \* has serve called cancel, ending serveCtx?
  listener,   \* "open", or who closed it: "watcher" or "serve"
  watcher,    \* "wait" or "done"
  stopWatcher,\* is stopWatcher closed?
  stopping,   \* serverState.stopping
  setup,      \* serverState.setup
  active,     \* serverState.active
  wg,         \* the WaitGroup's counter
  mpc,        \* control of serve
  todo,       \* <<stream, kind>> items of stop's snapshot still to close
  primary,    \* the error serve returns
  pc,         \* control of each stream's goroutine
  stream,     \* "none", "open" or "closed"
  conn        \* "none", "live", "terminal" or "down"

stateVars == <<stopping, setup, active, wg>>
mainVars == <<mpc, todo, primary, cancelled, stopWatcher>>
streamVars == <<pc, stream, conn>>
vars == <<ctxDone, listener, watcher, stateVars, mainVars, streamVars>>

Init ==
  /\ ctxDone = FALSE /\ cancelled = FALSE
  /\ listener = "open" /\ watcher = "wait" /\ stopWatcher = FALSE
  /\ stopping = FALSE /\ setup = {} /\ active = {} /\ wg = 0
  /\ mpc = "accept" /\ todo = {} /\ primary = "none"
  /\ pc = [x \in Streams |-> "idle"]
  /\ stream = [x \in Streams |-> "none"]
  /\ conn = [x \in Streams |-> "none"]

Goto(x, label) == pc' = [pc EXCEPT ![x] = label]
CloseStream(x) == stream' = [stream EXCEPT ![x] = IF @ = "open" THEN "closed" ELSE @]
CloseConn(x) == conn' = [conn EXCEPT ![x] = IF @ = "live" THEN "terminal" ELSE @]
CloseListener(who) == listener' = IF listener = "open" THEN who ELSE listener
\* serveCtx, the context of negotiations and connections.
serveCtxDone == ctxDone \/ cancelled

-----------------------------------------------------------------------------
(* The context and its watcher                                             *)

ContextDone ==
  /\ ~ctxDone /\ mpc # "returned"
  /\ ctxDone' = TRUE
  /\ UNCHANGED <<listener, watcher, stateVars, mainVars, streamVars>>

\* Mutant: the watcher leaves the listener open.
Watch_forgetsClose ==
  /\ watcher = "wait" /\ (ctxDone \/ stopWatcher)
  /\ watcher' = "done"
  /\ UNCHANGED <<ctxDone, listener, stateVars, mainVars, streamVars>>

Watch ==
  /\ watcher = "wait"
  /\ \/ ctxDone /\ CloseListener("watcher")
     \/ stopWatcher /\ UNCHANGED listener
  /\ watcher' = "done"
  /\ UNCHANGED <<ctxDone, stateVars, mainVars, streamVars>>

-----------------------------------------------------------------------------
(* serve                                                                   *)

\* AcceptStream, addSetup and the start of the stream's goroutine.
Accept(x) ==
  /\ mpc = "accept" /\ listener = "open" /\ pc[x] = "idle"
  /\ stream' = [stream EXCEPT ![x] = "open"]
  /\ setup' = setup \cup {x} /\ wg' = wg + 1
  /\ Goto(x, "negotiate")
  /\ UNCHANGED <<ctxDone, listener, watcher, stopping, active, mainVars, conn>>

\* AcceptStream fails: the watcher closed the listener, or accept(2) failed.
AcceptFails ==
  /\ mpc = "accept"
  /\ primary' = IF ctxDone THEN "ErrServerClosed" ELSE "acceptErr"
  /\ mpc' = "stop"
  /\ UNCHANGED <<ctxDone, listener, watcher, stateVars, todo, cancelled, stopWatcher,
                 streamVars>>

\* stop: the flag and the snapshot of both maps in one critical section.
Stop ==
  /\ mpc = "stop"
  /\ stopping' = TRUE
  /\ todo' = (setup \X {"stream"}) \cup (active \X {"conn"})
  /\ mpc' = "cancel"
  /\ UNCHANGED <<ctxDone, listener, watcher, setup, active, wg, primary, cancelled,
                 stopWatcher, streamVars>>

\* cancel, listener.Close and close(stopWatcher).
Cancel ==
  /\ mpc = "cancel"
  /\ cancelled' = TRUE
  /\ CloseListener("serve")
  /\ stopWatcher' = TRUE
  /\ mpc' = "join"
  /\ UNCHANGED <<ctxDone, watcher, stateVars, todo, primary, streamVars>>

JoinWatcher ==
  /\ mpc = "join" /\ watcher = "done"
  /\ mpc' = "closing"
  /\ UNCHANGED <<ctxDone, listener, watcher, stateVars, todo, primary, cancelled,
                 stopWatcher, streamVars>>

CloseItem(x, kind) ==
  /\ mpc = "closing" /\ <<x, kind>> \in todo
  /\ todo' = todo \ {<<x, kind>>}
  /\ \/ kind = "stream" /\ CloseStream(x) /\ UNCHANGED conn
     \/ kind = "conn" /\ CloseConn(x) /\ UNCHANGED stream
  /\ UNCHANGED <<ctxDone, listener, watcher, stateVars, mpc, primary, cancelled,
                 stopWatcher, pc>>

\* state.wg.Wait, then the primary error.
Return ==
  /\ mpc = "closing" /\ todo = {} /\ wg = 0
  /\ mpc' = "returned"
  /\ UNCHANGED <<ctxDone, listener, watcher, stateVars, todo, primary, cancelled,
                 stopWatcher, streamVars>>

-----------------------------------------------------------------------------
(* The goroutine of one stream                                             *)

\* NewNegotiatedServerConnection fails.  It leaves the stream closed, except
\* when it finds serveCtx done at its start.
NegotiateFails(x) ==
  /\ pc[x] = "negotiate"
  /\ \/ CloseStream(x)
     \/ serveCtxDone /\ UNCHANGED stream
  /\ Goto(x, "unregister")
  /\ UNCHANGED <<ctxDone, listener, watcher, stateVars, mainVars, conn>>

\* remove(owner, nil).
Unregister(x) ==
  /\ pc[x] = "unregister"
  /\ setup' = setup \ {x}
  /\ Goto(x, "abandon")
  /\ UNCHANGED <<ctxDone, listener, watcher, stopping, active, wg, mainVars, stream, conn>>

\* owner.Close and wg.Done.
Abandon(x) ==
  /\ pc[x] = "abandon"
  /\ CloseStream(x) /\ wg' = wg - 1
  /\ Goto(x, "done")
  /\ UNCHANGED <<ctxDone, listener, watcher, stopping, setup, active, mainVars, conn>>

Negotiate(x) ==
  /\ pc[x] = "negotiate" /\ ~serveCtxDone /\ stream[x] = "open"
  /\ conn' = [conn EXCEPT ![x] = "live"]
  /\ Goto(x, "promote")
  /\ UNCHANGED <<ctxDone, listener, watcher, stateVars, mainVars, stream>>

promote(x) ==
  /\ pc[x] = "promote"
  /\ setup' = setup \ {x}
  /\ IF stopping THEN Goto(x, "reject") /\ UNCHANGED active
     ELSE active' = active \cup {x} /\ Goto(x, "wait")
  /\ UNCHANGED <<ctxDone, listener, watcher, stopping, wg, mainVars, stream, conn>>

RejectClose(x) ==
  /\ pc[x] = "reject"
  /\ CloseConn(x)
  /\ Goto(x, "rejectWait")
  /\ UNCHANGED <<ctxDone, listener, watcher, stateVars, mainVars, stream>>

RejectWait(x) ==
  /\ pc[x] = "rejectWait" /\ conn[x] = "down"
  /\ wg' = wg - 1
  /\ Goto(x, "done")
  /\ UNCHANGED <<ctxDone, listener, watcher, stopping, setup, active, mainVars, stream, conn>>

\* conn.Wait returned.
ConnWait(x) ==
  /\ pc[x] = "wait" /\ conn[x] = "down"
  /\ Goto(x, "remove")
  /\ UNCHANGED <<ctxDone, listener, watcher, stateVars, mainVars, stream, conn>>

\* remove(owner, conn) and wg.Done.
remove(x) ==
  /\ pc[x] = "remove"
  /\ active' = active \ {x} /\ wg' = wg - 1
  /\ Goto(x, "done")
  /\ UNCHANGED <<ctxDone, listener, watcher, stopping, setup, mainVars, stream, conn>>

\* Any terminal event of the connection, serveCtx and a closed stream included.
ConnTerminates(x) ==
  /\ conn[x] = "live"
  /\ conn' = [conn EXCEPT ![x] = "terminal"]
  /\ UNCHANGED <<ctxDone, listener, watcher, stateVars, mainVars, pc, stream>>

ConnDown(x) ==
  /\ conn[x] = "terminal"
  /\ conn' = [conn EXCEPT ![x] = "down"]
  /\ CloseStream(x)
  /\ UNCHANGED <<ctxDone, listener, watcher, stateVars, mainVars, pc>>

Next ==
  \/ ContextDone \/ Watch \/ AcceptFails \/ Stop \/ Cancel \/ JoinWatcher \/ Return
  \/ \E x \in Streams, kind \in {"stream", "conn"} : CloseItem(x, kind)
  \/ \E x \in Streams :
       \/ Accept(x) \/ NegotiateFails(x) \/ Unregister(x) \/ Abandon(x)
       \/ Negotiate(x) \/ promote(x) \/ RejectClose(x) \/ RejectWait(x)
       \/ ConnWait(x) \/ remove(x) \/ ConnTerminates(x) \/ ConnDown(x)

Spec == Init /\ [][Next]_vars

-----------------------------------------------------------------------------
(* Properties                                                              *)

\* Types; the WaitGroup in particular never drops below zero (Go panics then).
TypeOK ==
  /\ ctxDone \in BOOLEAN /\ cancelled \in BOOLEAN /\ stopWatcher \in BOOLEAN
  /\ listener \in {"open", "watcher", "serve"}
  /\ watcher \in {"wait", "done"}
  /\ stopping \in BOOLEAN /\ setup \subseteq Streams /\ active \subseteq Streams
  /\ wg \in Nat
  /\ mpc \in {"accept", "stop", "cancel", "join", "closing", "returned"}
  /\ todo \subseteq Streams \X {"stream", "conn"}
  /\ primary \in {"none", "acceptErr", "ErrServerClosed"}
  /\ pc \in [Streams -> StreamPC]
  /\ stream \in [Streams -> {"none", "open", "closed"}]
  /\ conn \in [Streams -> {"none", "live", "terminal", "down"}]

\* When ListenAndServe returns, no goroutine, socket, connection or listener of
\* it is left.
ServeDrains ==
  mpc = "returned" =>
    /\ setup = {} /\ active = {} /\ listener # "open" /\ watcher = "done"
    /\ \A x \in Streams : /\ pc[x] \in {"idle", "done"} /\ stream[x] # "open"
                          /\ conn[x] \in {"none", "down"}

\* Every goroutine is found by exactly the map that fits its phase, so the
\* snapshot of stop sees every open socket that is not already being rejected.
Registered ==
  \A x \in Streams :
    /\ x \in setup <=> pc[x] \in {"negotiate", "unregister", "promote"}
    /\ x \in active <=> pc[x] \in {"wait", "remove"}

-----------------------------------------------------------------------------
(* The inductive invariant behind them, beside the count of UnixTransport  *)

\* Streams whose goroutine runs.
InFlight == {x \in Streams : pc[x] \notin {"idle", "done"}}

\* What the goroutine of a stream owns at each point.
Owned ==
  \A x \in Streams :
    /\ pc[x] = "idle" => stream[x] = "none"
    /\ pc[x] \in {"idle", "negotiate", "unregister", "abandon"} => conn[x] = "none"
    /\ conn[x] = "down" => stream[x] # "open"
    /\ pc[x] = "remove" => conn[x] = "down"
    /\ pc[x] = "done" => stream[x] # "open" /\ conn[x] \in {"none", "down"}

\* How far serve has come in stopping.
Stopped ==
  /\ mpc \in {"join", "closing", "returned"} => listener # "open"
  /\ mpc \in {"closing", "returned"} => watcher = "done"
  /\ mpc = "returned" => InFlight = {}
=============================================================================
