--------------------------- MODULE WebSocketServer ---------------------------
(***************************************************************************)
(* The WebSocket Handler and the convenience server around it              *)
(* (src/go/transport/websocket/handler.go, server.go): one goroutine per   *)
(* upgraded request, any number of Shutdown calls, and the serve function  *)
(* of ListenAndServe, which makes one of them.                             *)
(*   - A critical section of h.mu is one step.                             *)
(*   - A connection is "live", then "terminal" once a cause is selected,   *)
(*     then "down" when its Wait returns with the stream closed; that this *)
(*     follows from Close, from its context and from a closed stream is    *)
(*     what GoConnection shows.                                            *)
(***************************************************************************)
EXTENDS Integers, FiniteSets

CONSTANTS
  Requests,   \* HTTP requests that reach the handler
  Shutdowns,  \* calls of Handler.Shutdown
  Serve       \* the one of them that serve makes, with context.Background()

ASSUME ServeAssumption == Serve \in Shutdowns

RequestPC == {"idle", "accept", "register", "negotiate", "unregister", "promote", "reject",
              "rejectWait", "wait", "remove", "abandon", "refused", "done"}
Kinds == {"stream", "conn"}
ShutdownPC == {"idle", "closing", "waiting", "returned"}

VARIABLES
  closed,     \* Handler.closed
  setup,      \* requests whose stream is in Handler.setup
  active,     \* requests whose connection is in Handler.active
  wg,         \* the WaitGroup's counter
  pc,         \* control of ServeHTTP per request
  cancelled,  \* requests whose connCtx is cancelled
  stream,     \* "none", "open" or "closed"
  conn,       \* "none", "live", "terminal" or "down"
  spc,        \* control of each Shutdown
  todo,       \* snapshot items <<request, kind>> a Shutdown has still to close
  sret,       \* what Shutdown returned: "none", "nil" or "ctx.Err"
  srvPC,      \* control of serve
  srvCtx,     \* is the context of serve done?
  listening,  \* is server.Serve running?
  primary     \* the error serve will return

reqVars == <<pc, cancelled, stream, conn>>
downVars == <<spc, todo, sret>>
srvVars == <<srvPC, srvCtx, listening, primary>>
vars == <<closed, setup, active, wg, reqVars, downVars, srvVars>>

Init ==
  /\ closed = FALSE /\ setup = {} /\ active = {} /\ wg = 0
  /\ pc = [r \in Requests |-> "idle"]
  /\ cancelled = {}
  /\ stream = [r \in Requests |-> "none"]
  /\ conn = [r \in Requests |-> "none"]
  /\ spc = [s \in Shutdowns |-> "idle"]
  /\ todo = [s \in Shutdowns |-> {}]
  /\ sret = [s \in Shutdowns |-> "none"]
  /\ srvPC = "select" /\ srvCtx = FALSE /\ listening = TRUE /\ primary = "none"

Goto(r, label) == pc' = [pc EXCEPT ![r] = label]
CloseStream(r) == stream' = [stream EXCEPT ![r] = IF @ = "open" THEN "closed" ELSE @]
CloseConn(r) == conn' = [conn EXCEPT ![r] = IF @ = "live" THEN "terminal" ELSE @]
\* cancel(), then the deferred h.wg.Done().
Finish(r) == /\ cancelled' = cancelled \cup {r}
             /\ wg' = wg - 1
             /\ Goto(r, "done")

-----------------------------------------------------------------------------
(* ServeHTTP                                                               *)
\* begin: refused with 503 once closed, counted in the WaitGroup otherwise.
Begin(r) ==
  /\ pc[r] = "idle"
  /\ IF closed THEN Goto(r, "refused") /\ UNCHANGED wg
     ELSE wg' = wg + 1 /\ Goto(r, "accept")
  /\ UNCHANGED <<closed, setup, active, cancelled, stream, conn, downVars, srvVars>>

\* Invalid bindings (500) or a failed upgrade.
AcceptFails(r) ==
  /\ pc[r] = "accept"
  /\ Finish(r)
  /\ UNCHANGED <<closed, setup, active, stream, conn, downVars, srvVars>>

AcceptStream(r) ==
  /\ pc[r] = "accept"
  /\ stream' = [stream EXCEPT ![r] = "open"]
  /\ Goto(r, "register")
  /\ UNCHANGED <<closed, setup, active, wg, cancelled, conn, downVars, srvVars>>
\* Mutants: a stream is registered although the handler is closed; a refused
\* stream is left open.
registerSetup_afterClose(r) ==
  /\ pc[r] = "register"
  /\ setup' = setup \cup {r} /\ Goto(r, "negotiate")
  /\ UNCHANGED <<closed, active, wg, cancelled, stream, conn, downVars, srvVars>>

registerSetup_leaks(r) ==
  /\ pc[r] = "register"
  /\ \/ closed /\ Finish(r) /\ UNCHANGED setup
     \/ /\ ~closed
        /\ setup' = setup \cup {r} /\ Goto(r, "negotiate")
        /\ UNCHANGED <<wg, cancelled>>
  /\ UNCHANGED <<closed, active, stream, conn, downVars, srvVars>>

\* registerSetup; a refused stream is closed by Abandon.
registerSetup(r) ==
  /\ pc[r] = "register"
  /\ \/ closed /\ Goto(r, "abandon") /\ UNCHANGED setup
     \/ ~closed /\ setup' = setup \cup {r} /\ Goto(r, "negotiate")
  /\ UNCHANGED <<closed, active, wg, cancelled, stream, conn, downVars, srvVars>>

\* NewNegotiatedServerConnection fails: mismatch, I/O, its deadline, connCtx or
\* a stream closed by Shutdown.  It returns with the stream closed, except that
\* it does not touch the stream when it finds connCtx done at its start.
NegotiateFails(r) ==
  /\ pc[r] = "negotiate"
  /\ \/ CloseStream(r)
     \/ r \in cancelled /\ UNCHANGED stream
  /\ Goto(r, "unregister")
  /\ UNCHANGED <<closed, setup, active, wg, cancelled, conn, downVars, srvVars>>

\* remove(stream, nil).
Unregister(r) ==
  /\ pc[r] = "unregister"
  /\ setup' = setup \ {r}
  /\ Goto(r, "abandon")
  /\ UNCHANGED <<closed, active, wg, cancelled, stream, conn, downVars, srvVars>>

\* cancel and stream.Close on the two early returns that have a stream.
Abandon(r) ==
  /\ pc[r] = "abandon"
  /\ CloseStream(r) /\ Finish(r)
  /\ UNCHANGED <<closed, setup, active, conn, downVars, srvVars>>

Negotiate(r) ==
  /\ pc[r] = "negotiate" /\ r \notin cancelled /\ stream[r] = "open"
  /\ conn' = [conn EXCEPT ![r] = "live"]
  /\ Goto(r, "promote")
  /\ UNCHANGED <<closed, setup, active, wg, cancelled, stream, downVars, srvVars>>

promote(r) ==
  /\ pc[r] = "promote"
  /\ setup' = setup \ {r}
  /\ IF closed THEN Goto(r, "reject") /\ UNCHANGED active
     ELSE active' = active \cup {r} /\ Goto(r, "wait")
  /\ UNCHANGED <<closed, wg, cancelled, stream, conn, downVars, srvVars>>

\* Not promoted: conn.Close, conn.Wait, cancel.
RejectClose(r) ==
  /\ pc[r] = "reject"
  /\ CloseConn(r)
  /\ Goto(r, "rejectWait")
  /\ UNCHANGED <<closed, setup, active, wg, cancelled, stream, downVars, srvVars>>

RejectWait(r) ==
  /\ pc[r] = "rejectWait" /\ conn[r] = "down"
  /\ Finish(r)
  /\ UNCHANGED <<closed, setup, active, stream, conn, downVars, srvVars>>

ConnWait(r) ==
  /\ pc[r] = "wait" /\ conn[r] = "down"
  /\ Goto(r, "remove")
  /\ UNCHANGED <<closed, setup, active, wg, cancelled, stream, conn, downVars, srvVars>>

remove(r) ==
  /\ pc[r] = "remove"
  /\ active' = active \ {r}
  /\ Finish(r)
  /\ UNCHANGED <<closed, setup, stream, conn, downVars, srvVars>>

-----------------------------------------------------------------------------
(* The stream and the connection of a request                              *)

\* The AfterFunc callback that newStream puts on connCtx.
StreamCallback(r) ==
  /\ r \in cancelled /\ stream[r] = "open"
  /\ CloseStream(r)
  /\ UNCHANGED <<closed, setup, active, wg, pc, cancelled, conn, downVars, srvVars>>

\* Any terminal event, at any time; connCtx or a closed stream in particular.
ConnTerminates(r) ==
  /\ conn[r] = "live"
  /\ conn' = [conn EXCEPT ![r] = "terminal"]
  /\ UNCHANGED <<closed, setup, active, wg, pc, cancelled, stream, downVars, srvVars>>

ConnDown(r) ==
  /\ conn[r] = "terminal"
  /\ conn' = [conn EXCEPT ![r] = "down"]
  /\ CloseStream(r)
  /\ UNCHANGED <<closed, setup, active, wg, pc, cancelled, downVars, srvVars>>

-----------------------------------------------------------------------------
(* Shutdown                                                                *)

\* Mutant: the snapshot has the streams in setup only.
ShutdownBegin_setupOnly(s) ==
  /\ closed' = TRUE
  /\ todo' = [todo EXCEPT ![s] = setup \X {"stream"}]
  /\ spc' = [spc EXCEPT ![s] = "closing"]

\* closed and the snapshot of both maps, in one critical section.
ShutdownBegin(s) ==
  /\ closed' = TRUE
  /\ todo' = [todo EXCEPT ![s] = (setup \X {"stream"}) \cup (active \X {"conn"})]
  /\ spc' = [spc EXCEPT ![s] = "closing"]

Shutdown(s) ==
  /\ s # Serve /\ spc[s] = "idle"
  /\ ShutdownBegin(s)
  /\ UNCHANGED <<setup, active, wg, reqVars, sret, srvVars>>

\* One item of the snapshot: cancel, then Close of its stream or connection.
ShutdownItem(s, r, kind) ==
  /\ spc[s] = "closing" /\ <<r, kind>> \in todo[s]
  /\ todo' = [todo EXCEPT ![s] = @ \ {<<r, kind>>}]
  /\ cancelled' = cancelled \cup {r}
  /\ \/ kind = "stream" /\ CloseStream(r) /\ UNCHANGED conn
     \/ kind = "conn" /\ CloseConn(r) /\ UNCHANGED stream
  /\ UNCHANGED <<closed, setup, active, wg, pc, spc, sret, srvVars>>

ShutdownWait(s) ==
  /\ spc[s] = "closing" /\ todo[s] = {}
  /\ spc' = [spc EXCEPT ![s] = "waiting"]
  /\ UNCHANGED <<closed, setup, active, wg, reqVars, todo, sret, srvVars>>
\* wg.Wait returned.
ShutdownDone(s) ==
  /\ spc[s] = "waiting" /\ wg = 0
  /\ spc' = [spc EXCEPT ![s] = "returned"]
  /\ sret' = [sret EXCEPT ![s] = "nil"]
  /\ UNCHANGED <<closed, setup, active, wg, reqVars, todo, srvVars>>

\* The context of Shutdown expired first; serve's never does.
ShutdownExpires(s) ==
  /\ spc[s] = "waiting" /\ s # Serve
  /\ spc' = [spc EXCEPT ![s] = "returned"]
  /\ sret' = [sret EXCEPT ![s] = "ctx.Err"]
  /\ UNCHANGED <<closed, setup, active, wg, reqVars, todo, srvVars>>

-----------------------------------------------------------------------------
(* serve                                                                   *)

ServeContextDone ==
  /\ ~srvCtx /\ srvPC # "returned"
  /\ srvCtx' = TRUE
  /\ UNCHANGED <<closed, setup, active, wg, reqVars, downVars, srvPC, listening, primary>>

\* server.Serve returns: the listener failed, or server.Close was called.
ServeStops ==
  /\ listening
  /\ listening' = FALSE
  /\ UNCHANGED <<closed, setup, active, wg, reqVars, downVars, srvPC, srvCtx, primary>>

\* The select of serve; either case ends up in handler.Shutdown(Background).
ServeSelect ==
  /\ srvPC = "select"
  /\ \/ ~listening /\ primary' = IF srvCtx THEN "ErrServerClosed" ELSE "serveErr"
     \/ srvCtx /\ primary' = "ErrServerClosed"
  /\ srvPC' = "shutdown"
  /\ ShutdownBegin(Serve)
  /\ UNCHANGED <<setup, active, wg, reqVars, sret, srvCtx, listening>>

\* Both serveDone and the Shutdown have reported.
ServeReturns ==
  /\ srvPC = "shutdown" /\ ~listening /\ spc[Serve] = "returned"
  /\ srvPC' = "returned"
  /\ UNCHANGED <<closed, setup, active, wg, reqVars, downVars, srvCtx, listening, primary>>

-----------------------------------------------------------------------------
RequestStep(r) ==
  \/ Begin(r) \/ AcceptFails(r) \/ AcceptStream(r) \/ registerSetup(r)
  \/ NegotiateFails(r) \/ Unregister(r) \/ Abandon(r) \/ Negotiate(r) \/ promote(r)
  \/ RejectClose(r) \/ RejectWait(r) \/ ConnWait(r) \/ remove(r)
  \/ StreamCallback(r) \/ ConnTerminates(r) \/ ConnDown(r)

ShutdownStep(s) == Shutdown(s) \/ ShutdownWait(s) \/ ShutdownDone(s) \/ ShutdownExpires(s)

ServeStep == ServeContextDone \/ ServeStops \/ ServeSelect \/ ServeReturns

Next ==
  \/ \E r \in Requests : RequestStep(r)
  \/ \E s \in Shutdowns : ShutdownStep(s)
  \/ \E s \in Shutdowns, r \in Requests, kind \in Kinds : ShutdownItem(s, r, kind)
  \/ ServeStep

Spec == Init /\ [][Next]_vars

\* Goroutines that can run are run; the HTTP upgrade returns; negotiation
\* returns within its deadline (GoNegotiation) and a connection comes down
\* once its context or its stream is gone (GoConnection); server.Serve
\* returns after server.Close.  Nothing is assumed of peers.
Fairness ==
  /\ \A r \in Requests :
       /\ WF_vars(AcceptFails(r) \/ AcceptStream(r)) /\ WF_vars(registerSetup(r))
       /\ WF_vars(NegotiateFails(r) \/ Negotiate(r))
       /\ WF_vars(Unregister(r)) /\ WF_vars(Abandon(r))
       /\ WF_vars(promote(r)) /\ WF_vars(RejectClose(r)) /\ WF_vars(RejectWait(r))
       /\ WF_vars(ConnWait(r)) /\ WF_vars(remove(r))
       /\ WF_vars((r \in cancelled \/ stream[r] = "closed") /\ ConnTerminates(r))
       /\ WF_vars(ConnDown(r)) /\ WF_vars(StreamCallback(r))
  /\ \A s \in Shutdowns :
       /\ WF_vars(\E r \in Requests, kind \in Kinds : ShutdownItem(s, r, kind))
       /\ WF_vars(ShutdownWait(s)) /\ WF_vars(ShutdownDone(s))
  /\ WF_vars(ServeSelect) /\ WF_vars(srvPC = "shutdown" /\ ServeStops)
  /\ WF_vars(ServeReturns)

FairSpec == Spec /\ Fairness

-----------------------------------------------------------------------------
(* Properties                                                              *)

InFlight == {r \in Requests : pc[r] \notin {"idle", "refused", "done"}}

\* Types; the WaitGroup in particular never drops below zero (Go panics then).
TypeOK ==
  /\ closed \in BOOLEAN /\ setup \subseteq Requests /\ active \subseteq Requests
  /\ wg \in Nat
  /\ pc \in [Requests -> RequestPC]
  /\ cancelled \subseteq Requests
  /\ stream \in [Requests -> {"none", "open", "closed"}]
  /\ conn \in [Requests -> {"none", "live", "terminal", "down"}]
  /\ spc \in [Shutdowns -> ShutdownPC]
  /\ todo \in [Shutdowns -> SUBSET (Requests \X Kinds)]
  /\ sret \in [Shutdowns -> {"none", "nil", "ctx.Err"}]
  /\ srvPC \in {"select", "shutdown", "returned"}
  /\ srvCtx \in BOOLEAN /\ listening \in BOOLEAN
  /\ primary \in {"none", "serveErr", "ErrServerClosed"}

\* Once closed is set, whatever is registered was closed by a Shutdown or is in
\* the snapshot of one.
Snapshot ==
  closed => \A r \in setup \cup active :
    \/ r \in cancelled
    \/ \E s \in Shutdowns, kind \in Kinds : <<r, kind>> \in todo[s]

\* A Shutdown that returns nil, and a serve that returns, leave nothing
\* behind: no handler execution, no open stream, no live connection, no entry.
\* On the way there, whatever is registered once closed is set was closed by a
\* Shutdown or still is in the snapshot of one: nothing slips between a
\* registration or a promotion and the snapshot.
ShutdownDrains ==
  /\ srvPC = "returned" \/ (\E s \in Shutdowns : sret[s] = "nil") =>
       /\ InFlight = {} /\ setup = {} /\ active = {}
       /\ \A r \in Requests : stream[r] # "open" /\ conn[r] \in {"none", "down"}
  /\ Snapshot

\* An execution that has ended left its stream closed and itself unregistered,
\* and the state keeps its types, the WaitGroup its lower bound in particular.
NoLeak ==
  /\ TypeOK
  /\ \A r \in Requests : pc[r] \in {"done", "refused"} =>
       /\ stream[r] # "open" /\ conn[r] \in {"none", "down"}
       /\ r \notin setup \cup active

\* Every Shutdown returns, and serve returns once its context is done.
ShutdownReturns ==
  /\ \A s \in Shutdowns : (spc[s] = "closing") ~> (spc[s] = "returned")
  /\ srvCtx ~> (srvPC = "returned")

-----------------------------------------------------------------------------
(* The inductive invariant behind ShutdownDrains and NoLeak                *)

\* The WaitGroup counts the executions in flight, neither more nor less.
Counted == IsFiniteSet(InFlight) /\ wg = Cardinality(InFlight)

\* The two maps hold exactly the executions between the critical section that
\* adds them and the one that takes them out.
Registered ==
  \A r \in Requests :
    /\ r \in setup <=> pc[r] \in {"negotiate", "unregister", "promote"}
    /\ r \in active <=> pc[r] \in {"wait", "remove"}

\* What an execution owns at each point of ServeHTTP.
Owned ==
  \A r \in Requests :
    /\ pc[r] \in {"idle", "accept", "refused"} => stream[r] = "none"
    /\ pc[r] \in {"idle", "accept", "register", "negotiate", "unregister", "abandon", "refused"} =>
         conn[r] = "none"
    /\ conn[r] = "down" => stream[r] # "open"
    /\ pc[r] = "remove" => conn[r] = "down"
    /\ pc[r] = "done" => stream[r] # "open" /\ conn[r] \in {"none", "down"}

\* A Shutdown that has started closed the handler, one that returned nil left
\* it empty, and serve's cannot return anything else.
Closed ==
  /\ \A s \in Shutdowns : spc[s] # "idle" => closed
  /\ \A s \in Shutdowns : sret[s] = "nil" => closed /\ InFlight = {}
  /\ spc[Serve] = "returned" => sret[Serve] = "nil"
  /\ srvPC = "returned" => spc[Serve] = "returned"

HandlerInv == TypeOK /\ Counted /\ Registered /\ Owned /\ Closed /\ Snapshot
=============================================================================
