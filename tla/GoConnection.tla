---------------------------- MODULE GoConnection ----------------------------
(***************************************************************************)
(* One Connection of the Go runtime (src/go): terminal selection and       *)
(* teardown (connection.go), outgoing calls (call.go), the receive loop    *)
(* and the incoming handlers (receive.go) and the write gate (write.go).   *)
(* The goroutines are                                                      *)
(*   - one per outgoing Call and one per incoming request (pc);            *)
(*   - the receive loop (recvPC), the context observer (observer), the     *)
(*     cleanup owner started by terminal selection (teardown), and a       *)
(*     caller of Wait (waiter).                                            *)
(* A critical section of c.mu is one step.  The peer and the ByteStream    *)
(* are the environment: any frame may arrive, any write may be short, be   *)
(* accepted or fail, and both fail once the stream is closed.              *)
(* A payload is abstracted to the outcome of its encoder or decoder.       *)
(***************************************************************************)
EXTENDS Integers, FiniteSets

CONSTANTS
  Calls,           \* invocations of Connection.Call
  Requests,        \* request frames the peer may send
  WireIDs,         \* request IDs the peer picks from
  MaxID,           \* idMask: the last outgoing request ID
  None

IDs == 0 .. MaxID
Procs == Calls \cup Requests

ASSUME MaxIDAssumption == MaxID \in Nat
ASSUME ProcsAssumption ==
  /\ Calls \cap Requests = {}
  /\ None \notin Procs \cup WireIDs
  /\ Calls \cap Int = {} /\ Requests \cap Int = {} /\ None \notin Int

\* Causes the code can select; "ErrDuplicate" and "ErrResponse" both wrap
\* ErrProtocol, "ErrRead" is any readFrame failure, "ErrWrite" any writeFull one.
Causes == {"ErrClosed", "ErrDuplicate", "ErrResponse", "ErrRead", "ErrWrite", "ctx.Err"}
\* "ErrArgument" stands for ErrInvalidArgument and ErrBindingMismatch.
LocalErrors == {"ErrArgument", "ErrEncode", "ErrRequestIDsExhausted", "callCtx.Err"}
Results == Causes \cup LocalErrors \cup {"ok"}

CallPC == {"idle", "encode", "gate", "admit", "write", "accepted", "failed",
           "wait", "returned"}
RequestPC == {"unsent", "buffered", "deferred", "dispatch", "gate", "admit",
              "write", "accepted", "failed", "settle", "exit", "dropped"}

VARIABLES
  cause,     \* the permanent terminal cause, "nil" while active
  claims,    \* pending calls transferred to the cleanup owner
  teardown,  \* runTeardown: "off", "complete", "cancel" or "done"
  closes,    \* number of stream.Close calls
  hcancel,   \* has cancelHandlers run?
  nextID,    \* next outgoing request ID
  pending,   \* request ID -> its call, None when there is no entry
  incoming,  \* wire ID -> [state, deferred]
  gate,      \* holder of the one-token write gate, or None
  pc,        \* control of every call and every incoming request
  callID,    \* the ID allocated to a call, or None
  callCtx,   \* is the call's context done?
  completed, \* number of pendingCall.complete calls per call
  result,    \* pendingCall.result, "nil" until completed
  ret,       \* what Call returned, "nil" until it returns
  reqID,     \* wire ID of a request frame, None before it is read
  recvPC,    \* control of the receive loop
  recvArg,   \* the frame or claimed call the receive loop works on
  ctxDone,   \* is the construction context done?
  observer,  \* "wait" or "exit"
  waiter,    \* what Wait returned, "nil" until it returns
  midFrame,  \* writers whose frame the stream holds only a prefix of
  accepted   \* writers whose complete frame the stream accepted

connVars == <<cause, claims, teardown, pending, incoming>>
callVars == <<callID, completed, result, ret>>
recvVars == <<recvPC, recvArg>>
lifeVars == <<closes, hcancel, ctxDone, observer, waiter>>
wireVars == <<midFrame, accepted>>
vars == <<connVars, nextID, gate, pc, callVars, callCtx, reqID, recvVars,
          lifeVars, wireVars>>

Free == [state |-> "free", deferred |-> None]
Active == [state |-> "active", deferred |-> None]
IncomingCall == [state : {"free", "active", "writing"}, deferred : Requests \cup {None}]

Goto(p, label) == pc' = [pc EXCEPT ![p] = label]

-----------------------------------------------------------------------------
(* NewConnection: every map is empty, the gate is free and the observer    *)
(* and the receive loop have been started.  nextID starts at 0; a larger   *)
(* value is the same connection after that many calls have returned, so    *)
(* that the last IDs are within reach.                                     *)
Init ==
  /\ cause = "nil" /\ claims = {} /\ teardown = "off"
  /\ closes = 0 /\ hcancel = FALSE
  /\ nextID \in IDs
  /\ pending = [i \in IDs |-> None]
  /\ incoming = [i \in WireIDs |-> Free]
  /\ gate = None
  /\ pc = [p \in Procs |-> IF p \in Calls THEN "idle" ELSE "unsent"]
  /\ callID = [c \in Calls |-> None]
  /\ callCtx = [c \in Calls |-> FALSE]
  /\ completed = [c \in Calls |-> 0]
  /\ result = [c \in Calls |-> "nil"]
  /\ ret = [c \in Calls |-> "nil"]
  /\ reqID = [r \in Requests |-> None]
  /\ recvPC = "read" /\ recvArg = None
  /\ ctxDone = FALSE /\ observer = "wait" /\ waiter = "nil"
  /\ midFrame = {} /\ accepted = {}

-----------------------------------------------------------------------------
(* Terminal selection and teardown (connection.go)                         *)

\* The first selector publishes the cause, takes every pending entry, clears
\* the incoming map and starts the cleanup owner; later selectors do nothing.
selectTerminal(e) ==
  IF cause # "nil"
  THEN UNCHANGED connVars
  ELSE /\ cause' = e
       /\ claims' = {pending[i] : i \in IDs} \ {None}
       /\ pending' = [i \in IDs |-> None]
       /\ incoming' = [i \in WireIDs |-> Free]
       /\ teardown' = "complete"

\* pendingCall.complete: closes done, which panics the second time.
complete(c, res) ==
  /\ completed' = [completed EXCEPT ![c] = @ + 1]
  /\ result' = [result EXCEPT ![c] = res]
  /\ UNCHANGED <<callID, ret>>

Close ==
  /\ selectTerminal("ErrClosed")
  /\ UNCHANGED <<nextID, gate, pc, callVars, callCtx, reqID, recvVars, lifeVars, wireVars>>

\* runTeardown, one step per transferred call, then Close, cancel and close(teardown).
TeardownComplete(c) ==
  /\ teardown = "complete" /\ c \in claims
  /\ complete(c, cause)
  /\ claims' = claims \ {c}
  /\ UNCHANGED <<cause, teardown, pending, incoming, nextID, gate, pc, callCtx,
                 reqID, recvVars, lifeVars, wireVars>>
\* Mutant: the stream is not closed.
TeardownClose_forgetsClose ==
  /\ teardown = "complete" /\ claims = {}
  /\ teardown' = "cancel"
  /\ UNCHANGED <<cause, claims, pending, incoming, nextID, gate, pc, callVars, callCtx,
                 reqID, recvVars, lifeVars, wireVars>>

TeardownClose ==
  /\ teardown = "complete" /\ claims = {}
  /\ closes' = closes + 1
  /\ teardown' = "cancel"
  /\ UNCHANGED <<cause, claims, pending, incoming, nextID, gate, pc, callVars, callCtx,
                 reqID, recvVars, hcancel, ctxDone, observer, waiter, wireVars>>

TeardownCancel ==
  /\ teardown = "cancel"
  /\ hcancel' = TRUE
  /\ teardown' = "done"
  /\ UNCHANGED <<cause, claims, pending, incoming, nextID, gate, pc, callVars, callCtx,
                 reqID, recvVars, closes, ctxDone, observer, waiter, wireVars>>

\* Only the observer watches the context; after it exited the event is moot.
ContextDone ==
  /\ ~ctxDone /\ observer = "wait"
  /\ ctxDone' = TRUE
  /\ UNCHANGED <<connVars, nextID, gate, pc, callVars, callCtx, reqID, recvVars,
                 closes, hcancel, observer, waiter, wireVars>>

\* observeContext: a select between ctx.Done() and terminal; when both are
\* ready either case runs, and a lost selection changes nothing.
ObserveContext ==
  /\ observer = "wait"
  /\ \/ ctxDone /\ selectTerminal("ctx.Err")
     \/ cause # "nil" /\ UNCHANGED connVars
  /\ observer' = "exit"
  /\ UNCHANGED <<nextID, gate, pc, callVars, callCtx, reqID, recvVars,
                 closes, hcancel, ctxDone, waiter, wireVars>>
\* Mutant: teardown is not awaited.
Wait_skipsTeardown ==
  /\ waiter = "nil" /\ cause # "nil"
  /\ recvPC = "exit" /\ observer = "exit"
  /\ waiter' = cause
  /\ UNCHANGED <<connVars, nextID, gate, pc, callVars, callCtx, reqID, recvVars,
                 closes, hcancel, ctxDone, observer, wireVars>>

Wait ==
  /\ waiter = "nil"
  /\ teardown = "done" /\ recvPC = "exit" /\ observer = "exit"
  /\ waiter' = cause
  /\ UNCHANGED <<connVars, nextID, gate, pc, callVars, callCtx, reqID, recvVars,
                 closes, hcancel, ctxDone, observer, wireVars>>

-----------------------------------------------------------------------------
(* The write gate and the frame write (write.go)                           *)
\* acquireWriteGate succeeds: the token is free.  select is free to pick this
\* case although terminal or ctx.Done() is ready too.
AcquireGate(p) ==
  /\ pc[p] = "gate" /\ gate = None
  /\ gate' = p
  /\ Goto(p, "admit")
  /\ UNCHANGED <<connVars, nextID, callVars, callCtx, reqID, recvVars, lifeVars, wireVars>>

\* writeFull: a short write leaves a prefix of the frame on the stream.
WritePrefix(p) ==
  /\ pc[p] = "write" /\ closes = 0
  /\ midFrame' = midFrame \cup {p}
  /\ UNCHANGED <<connVars, nextID, gate, pc, callVars, callCtx, reqID, recvVars,
                 lifeVars, accepted>>

\* writeFull: the stream took the last byte; the peer may already see the frame.
WriteAccept(p) ==
  /\ pc[p] = "write" /\ closes = 0
  /\ midFrame' = midFrame \ {p}
  /\ accepted' = accepted \cup {p}
  /\ Goto(p, "accepted")
  /\ UNCHANGED <<connVars, nextID, gate, callVars, callCtx, reqID, recvVars, lifeVars>>

\* writeFull returns nil, then releaseWriteGate.
WriteReturn(p) ==
  /\ pc[p] = "accepted"
  /\ gate' = None
  /\ Goto(p, IF p \in Calls THEN "wait" ELSE "settle")
  /\ UNCHANGED <<connVars, nextID, callVars, callCtx, reqID, recvVars, lifeVars, wireVars>>

\* writeFull returns an error (after zero, some or all bytes), then
\* releaseWriteGate; selectTerminal comes only afterwards, in WriteFailed.
WriteError(p) ==
  /\ pc[p] \in {"write", "accepted"}
  /\ gate' = None
  /\ Goto(p, "failed")
  /\ UNCHANGED <<connVars, nextID, callVars, callCtx, reqID, recvVars, lifeVars, wireVars>>

WriteFailed(p) ==
  /\ pc[p] = "failed"
  /\ selectTerminal("ErrWrite")
  /\ Goto(p, IF p \in Calls THEN "wait" ELSE "exit")
  /\ UNCHANGED <<nextID, gate, callVars, callCtx, reqID, recvVars, lifeVars, wireVars>>

-----------------------------------------------------------------------------
(* Outgoing calls (call.go)                                                *)

Return(c, res) ==
  /\ Goto(c, "returned")
  /\ ret' = [ret EXCEPT ![c] = res]

\* callReadyLocked: the terminal cause wins over the call's context error.
callReady(c) == IF cause # "nil" THEN cause
                ELSE IF callCtx[c] THEN "callCtx.Err" ELSE "nil"

\* The call's context fires at any time before Call returns.
CallContextDone(c) ==
  /\ ~callCtx[c] /\ pc[c] # "returned"
  /\ callCtx' = [callCtx EXCEPT ![c] = TRUE]
  /\ UNCHANGED <<connVars, nextID, gate, pc, callVars, reqID, recvVars, lifeVars, wireVars>>

\* Step 1: a bad argument or binding, before any look at the connection.
CallReject(c) ==
  /\ pc[c] = "idle"
  /\ Return(c, "ErrArgument")
  /\ UNCHANGED <<connVars, nextID, gate, callID, completed, result, callCtx, reqID,
                 recvVars, lifeVars, wireVars>>

\* Step 2: the first callReady.
CallStart(c) ==
  /\ pc[c] = "idle"
  /\ IF callReady(c) = "nil" THEN Goto(c, "encode") /\ UNCHANGED ret
     ELSE Return(c, callReady(c))
  /\ UNCHANGED <<connVars, nextID, gate, callID, completed, result, callCtx, reqID,
                 recvVars, lifeVars, wireVars>>

\* Steps 3 to 5: the encoder, its exact error, then the second callReady.
CallEncode(c) ==
  /\ pc[c] = "encode"
  /\ \/ Return(c, "ErrEncode")
     \/ callReady(c) = "nil" /\ Goto(c, "gate") /\ UNCHANGED ret
     \/ callReady(c) # "nil" /\ Return(c, callReady(c))
  /\ UNCHANGED <<connVars, nextID, gate, callID, completed, result, callCtx, reqID,
                 recvVars, lifeVars, wireVars>>
\* Mutant: the gate wait does not watch the call's context.
CallGateLost_ignoresContext(c) ==
  /\ pc[c] = "gate"
  /\ cause # "nil" /\ Return(c, cause)
  /\ UNCHANGED <<connVars, nextID, gate, callID, completed, result, callCtx, reqID,
                 recvVars, lifeVars, wireVars>>

\* acquireWriteGate fails: terminal selection or the call's context won.
CallGateLost(c) ==
  /\ pc[c] = "gate"
  /\ \/ cause # "nil" /\ Return(c, cause)
     \/ callCtx[c] /\ Return(c, "callCtx.Err")
  /\ UNCHANGED <<connVars, nextID, gate, callID, completed, result, callCtx, reqID,
                 recvVars, lifeVars, wireVars>>

\* Step 6, refused: the recheck failed or no ID is left; the gate is released.
CallRefuse(c) ==
  /\ pc[c] = "admit"
  /\ \/ callReady(c) # "nil" /\ Return(c, callReady(c))
     \/ callReady(c) = "nil" /\ nextID > MaxID /\ Return(c, "ErrRequestIDsExhausted")
  /\ gate' = None
  /\ UNCHANGED <<connVars, nextID, callID, completed, result, callCtx, reqID, recvVars,
                 lifeVars, wireVars>>

\* Mutants: no recheck under the lock; the exhaustion check is off by one.
Admitting(c, guard) ==
  /\ pc[c] = "admit" /\ guard
  /\ nextID' = nextID + 1
  /\ callID' = [callID EXCEPT ![c] = nextID]
  /\ pending' = [pending EXCEPT ![nextID] = c]
  /\ Goto(c, "write")
  /\ UNCHANGED <<cause, claims, teardown, incoming, gate, completed, result, ret, callCtx,
                 reqID, recvVars, lifeVars, wireVars>>

CallAdmit_noRecheck(c) == Admitting(c, nextID <= MaxID)

CallAdmit_offByOne(c) == Admitting(c, callReady(c) = "nil" /\ nextID <= MaxID + 1)

\* Step 6, admitted: allocate the next ID and insert the pending entry.
CallAdmit(c) ==
  /\ pc[c] = "admit" /\ callReady(c) = "nil" /\ nextID <= MaxID
  /\ nextID' = nextID + 1
  /\ callID' = [callID EXCEPT ![c] = nextID]
  /\ pending' = [pending EXCEPT ![nextID] = c]
  /\ Goto(c, "write")
  /\ UNCHANGED <<cause, claims, teardown, incoming, gate, completed, result, ret, callCtx,
                 reqID, recvVars, lifeVars, wireVars>>

\* Step 8: done is closed and the recorded result is returned.
CallDone(c) ==
  /\ pc[c] = "wait" /\ completed[c] > 0
  /\ Return(c, result[c])
  /\ UNCHANGED <<connVars, nextID, gate, callID, completed, result, callCtx, reqID,
                 recvVars, lifeVars, wireVars>>
\* Mutant: the context error is returned although another owner has the call.
CallCancel_withoutClaim(c) ==
  /\ pc[c] = "wait" /\ callCtx[c]
  /\ pending' = [pending EXCEPT ![callID[c]] = None]
  /\ Return(c, "callCtx.Err")
  /\ UNCHANGED <<cause, claims, teardown, incoming, nextID, gate, callID, completed, result,
                 callCtx, reqID, recvVars, lifeVars, wireVars>>

\* Step 8: ctx.Done() fired and claimCancel removed the entry.  When it finds
\* none the call goes on waiting for done.
CallCancel(c) ==
  /\ pc[c] = "wait" /\ callCtx[c] /\ pending[callID[c]] # None
  /\ pending' = [pending EXCEPT ![callID[c]] = None]
  /\ completed' = [completed EXCEPT ![c] = @ + 1]
  /\ result' = [result EXCEPT ![c] = "callCtx.Err"]
  /\ Return(c, "callCtx.Err")
  /\ UNCHANGED <<cause, claims, teardown, incoming, nextID, gate, callID, callCtx, reqID,
                 recvVars, lifeVars, wireVars>>

-----------------------------------------------------------------------------
(* The receive loop (receive.go, claimResponse in call.go)                 *)

Receive(label, arg) == recvPC' = label /\ recvArg' = arg

\* readFrame returns a response frame with any ID.
ReadResponse(i) ==
  /\ recvPC = "read" /\ closes = 0
  /\ Receive("response", i)
  /\ UNCHANGED <<connVars, nextID, gate, pc, callVars, callCtx, reqID, lifeVars, wireVars>>

\* readFrame returns a request frame.
ReadRequest(r, i) ==
  /\ recvPC = "read" /\ closes = 0
  /\ pc[r] = "unsent"
  /\ reqID' = [reqID EXCEPT ![r] = i]
  /\ Goto(r, "buffered")
  /\ Receive("request", r)
  /\ UNCHANGED <<connVars, nextID, gate, callVars, callCtx, lifeVars, wireVars>>

\* readFrame fails: EOF, transport failure, malformed or oversized frame.
ReadError ==
  /\ recvPC = "read"
  /\ selectTerminal("ErrRead")
  /\ Receive("exit", None)
  /\ UNCHANGED <<nextID, gate, pc, callVars, callCtx, reqID, lifeVars, wireVars>>
\* Mutant: the matched entry stays in the map.
claimResponse_keepsEntry ==
  /\ recvPC = "response"
  /\ IF pending[recvArg] = None THEN Receive("read", None) ELSE Receive("decode", pending[recvArg])
  /\ UNCHANGED <<connVars, nextID, gate, pc, callVars, callCtx, reqID, lifeVars, wireVars>>

\* claimResponse: a matched entry is removed and decoded next; an unmatched
\* response stays opaque.
claimResponse ==
  /\ recvPC = "response"
  /\ IF pending[recvArg] = None
     THEN Receive("read", None) /\ UNCHANGED pending
     ELSE /\ Receive("decode", pending[recvArg])
          /\ pending' = [pending EXCEPT ![recvArg] = None]
  /\ UNCHANGED <<cause, claims, teardown, incoming, nextID, gate, pc, callVars, callCtx,
                 reqID, lifeVars, wireVars>>

DecodeOk ==
  /\ recvPC = "decode"
  /\ complete(recvArg, "ok")
  /\ Receive("read", None)
  /\ UNCHANGED <<connVars, nextID, gate, pc, callCtx, reqID, lifeVars, wireVars>>

\* The decoder failed or panicked: select ErrProtocol, then complete the
\* claimed call with whatever cause is permanent.
DecodeError ==
  /\ recvPC = "decode"
  /\ selectTerminal("ErrResponse")
  /\ Receive("decodeFailed", recvArg)
  /\ UNCHANGED <<nextID, gate, pc, callVars, callCtx, reqID, lifeVars, wireVars>>

DecodeFailed ==
  /\ recvPC = "decodeFailed"
  /\ complete(recvArg, cause)
  /\ Receive("read", None)
  /\ UNCHANGED <<connVars, nextID, gate, pc, callCtx, reqID, lifeVars, wireVars>>

\* admitIncoming, by the state of the ID.
AdmitDiscard(r) ==
  /\ cause # "nil"
  /\ Goto(r, "dropped") /\ Receive("exit", None)
  /\ UNCHANGED incoming
\* Mutant: a buffered request is admitted after terminal selection.
AdmitDispatch_afterTerminal(r) ==
  /\ incoming[reqID[r]].state = "free"
  /\ incoming' = [incoming EXCEPT ![reqID[r]] = Active]
  /\ Goto(r, "dispatch") /\ Receive("read", None)

AdmitDispatch(r) ==
  /\ cause = "nil" /\ incoming[reqID[r]].state = "free"
  /\ incoming' = [incoming EXCEPT ![reqID[r]] = Active]
  /\ Goto(r, "dispatch") /\ Receive("read", None)

AdmitDeferred(r) ==
  /\ cause = "nil" /\ incoming[reqID[r]] = [state |-> "writing", deferred |-> None]
  /\ incoming' = [incoming EXCEPT ![reqID[r]].deferred = r]
  /\ Goto(r, "deferred") /\ Receive("read", None)

AdmitTerminal(r) ==
  /\ cause = "nil"
  /\ \/ incoming[reqID[r]].state = "active"
     \/ incoming[reqID[r]].deferred # None
  /\ Goto(r, "dropped") /\ Receive("duplicate", None)
  /\ UNCHANGED incoming

admitIncoming(r) ==
  /\ recvPC = "request" /\ recvArg = r
  /\ AdmitDiscard(r) \/ AdmitDispatch(r) \/ AdmitDeferred(r) \/ AdmitTerminal(r)
  /\ UNCHANGED <<cause, claims, teardown, pending, nextID, gate, callVars, callCtx, reqID,
                 lifeVars, wireVars>>

\* The loop selects ErrProtocol for the duplicate and returns.
DuplicateExit ==
  /\ recvPC = "duplicate"
  /\ selectTerminal("ErrDuplicate")
  /\ Receive("exit", None)
  /\ UNCHANGED <<nextID, gate, pc, callVars, callCtx, reqID, lifeVars, wireVars>>

-----------------------------------------------------------------------------
(* Incoming handlers (receive.go, handleRequest)                           *)

\* invokeDispatch returned a response or recovered a panic into one.
Dispatch(r) ==
  /\ pc[r] = "dispatch"
  /\ Goto(r, "gate")
  /\ UNCHANGED <<connVars, nextID, gate, callVars, callCtx, reqID, recvVars, lifeVars, wireVars>>

\* acquireWriteGate(nil) lost to terminal selection.
HandlerGateLost(r) ==
  /\ pc[r] = "gate" /\ cause # "nil"
  /\ Goto(r, "exit")
  /\ UNCHANGED <<connVars, nextID, gate, callVars, callCtx, reqID, recvVars, lifeVars, wireVars>>

HandlerAbandon(r) ==
  /\ pc[r] = "admit" /\ cause # "nil"
  /\ gate' = None
  /\ Goto(r, "exit")
  /\ UNCHANGED <<connVars, nextID, callVars, callCtx, reqID, recvVars, lifeVars, wireVars>>
\* Mutants: no terminal recheck under the lock; the ID is not marked writing.
HandlerAdmit_noRecheck(r) ==
  /\ pc[r] = "admit"
  /\ incoming' = [incoming EXCEPT ![reqID[r]].state = IF @ = "free" THEN @ ELSE "writing"]
  /\ Goto(r, "write")
  /\ UNCHANGED <<cause, claims, teardown, pending, nextID, gate, callVars, callCtx, reqID,
                 recvVars, lifeVars, wireVars>>

HandlerAdmit_unmarked(r) ==
  /\ pc[r] = "admit" /\ cause = "nil"
  /\ Goto(r, "write")
  /\ UNCHANGED <<connVars, nextID, gate, callVars, callCtx, reqID, recvVars, lifeVars, wireVars>>

\* From here on a duplicate of the ID is deferred, not terminal.
markIncomingWriting(r) == incoming' = [incoming EXCEPT ![reqID[r]].state = "writing"]

\* Write admission: the terminal recheck passed.
HandlerAdmit(r) ==
  /\ pc[r] = "admit" /\ cause = "nil"
  /\ markIncomingWriting(r)
  /\ Goto(r, "write")
  /\ UNCHANGED <<cause, claims, teardown, pending, nextID, gate, callVars, callCtx, reqID,
                 recvVars, lifeVars, wireVars>>
\* Mutants: the ID is released although its deferred generation starts, or
\* although one is deferred and then never starts.
completeIncomingWrite_releases(r) ==
  LET d == incoming[reqID[r]].deferred IN
  /\ pc[r] = "settle"
  /\ incoming' = [incoming EXCEPT ![reqID[r]] = Free]
  /\ pc' = [p \in Procs |-> IF p = r THEN "exit" ELSE IF p = d THEN "dispatch" ELSE pc[p]]
  /\ UNCHANGED <<cause, claims, teardown, pending, nextID, gate, callVars, callCtx, reqID,
                 recvVars, lifeVars, wireVars>>

completeIncomingWrite_dropsDeferred(r) ==
  /\ pc[r] = "settle"
  /\ incoming' = [incoming EXCEPT ![reqID[r]] = Free]
  /\ Goto(r, "exit")
  /\ UNCHANGED <<cause, claims, teardown, pending, nextID, gate, callVars, callCtx, reqID,
                 recvVars, lifeVars, wireVars>>

\* completeIncomingWrite: release the ID, or start the deferred generation.
completeIncomingWrite(r) ==
  LET i == reqID[r]
      d == incoming[i].deferred
  IN
  /\ pc[r] = "settle"
  /\ \/ /\ incoming[i].state = "free"
        /\ Goto(r, "exit") /\ UNCHANGED incoming
     \/ /\ incoming[i].state # "free" /\ d = None
        /\ incoming' = [incoming EXCEPT ![i] = Free]
        /\ Goto(r, "exit")
     \/ /\ incoming[i].state # "free" /\ d # None
        /\ incoming' = [incoming EXCEPT ![i] = Active]
        /\ pc' = [pc EXCEPT ![r] = "exit", ![d] = "dispatch"]
  /\ UNCHANGED <<cause, claims, teardown, pending, nextID, gate, callVars, callCtx, reqID,
                 recvVars, lifeVars, wireVars>>

-----------------------------------------------------------------------------
WriteStep(p) == WritePrefix(p) \/ WriteAccept(p) \/ WriteReturn(p)
                  \/ WriteError(p) \/ WriteFailed(p)

CallStep(c) == CallReject(c) \/ CallStart(c) \/ CallEncode(c) \/ CallGateLost(c)
                 \/ CallRefuse(c) \/ CallAdmit(c) \/ CallDone(c) \/ CallCancel(c)
                 \/ CallContextDone(c) \/ TeardownComplete(c)

HandlerStep(r) == admitIncoming(r) \/ Dispatch(r) \/ HandlerGateLost(r)
                    \/ HandlerAbandon(r) \/ HandlerAdmit(r) \/ completeIncomingWrite(r)

ConnectionStep == Close \/ TeardownClose \/ TeardownCancel \/ ContextDone
                    \/ ObserveContext \/ Wait

ReceiveStep == ReadError \/ claimResponse \/ DecodeOk \/ DecodeError \/ DecodeFailed
                 \/ DuplicateExit

Next ==
  \/ ConnectionStep
  \/ ReceiveStep
  \/ \E i \in IDs : ReadResponse(i)
  \/ \E r \in Requests, i \in WireIDs : ReadRequest(r, i)
  \/ \E p \in Procs : AcquireGate(p) \/ WriteStep(p)
  \/ \E c \in Calls : CallStep(c)
  \/ \E r \in Requests : HandlerStep(r)

Spec == Init /\ [][Next]_vars

-----------------------------------------------------------------------------
(* Fairness.  A goroutine that can run is eventually run, and a goroutine  *)
(* that waits for the gate token is served, because the Go runtime queues  *)
(* the senders of a channel in order.  Encoders and decoders return.       *)
(* Nothing is assumed of the peer, of a handler (it may ignore its         *)
(* cancelled context forever) or of a write or read on an open stream; on  *)
(* a closed stream they return an error, the ByteStream contract.          *)
GoroutineFairness ==
  /\ WF_vars(TeardownClose) /\ WF_vars(TeardownCancel)
  /\ WF_vars(ObserveContext) /\ WF_vars(Wait)
  /\ WF_vars(claimResponse) /\ WF_vars(DecodeOk \/ DecodeError)
  /\ WF_vars(DecodeFailed) /\ WF_vars(DuplicateExit)
  /\ WF_vars(closes > 0 /\ ReadError)
  /\ \A p \in Procs : /\ SF_vars(AcquireGate(p))
                      /\ WF_vars(WriteReturn(p)) /\ WF_vars(WriteFailed(p))
                      /\ WF_vars(closes > 0 /\ WriteError(p))
  /\ \A c \in Calls :
       /\ WF_vars(TeardownComplete(c)) /\ WF_vars(CallEncode(c))
       /\ WF_vars(CallGateLost(c)) /\ WF_vars(CallRefuse(c) \/ CallAdmit(c))
       /\ WF_vars(CallDone(c) \/ CallCancel(c))
  /\ \A r \in Requests :
       /\ WF_vars(admitIncoming(r)) /\ WF_vars(HandlerGateLost(r))
       /\ WF_vars(HandlerAbandon(r) \/ HandlerAdmit(r))
       /\ WF_vars(completeIncomingWrite(r))

FairSpec == Spec /\ GoroutineFairness

\* In addition, handlers return and an open stream takes or fails every write.
ServingFairness ==
  /\ \A r \in Requests : WF_vars(Dispatch(r))
  /\ \A p \in Procs : WF_vars(WriteAccept(p) \/ WriteError(p))

ServingSpec == FairSpec /\ ServingFairness

-----------------------------------------------------------------------------
(* Properties                                                              *)

\* Types; the ID counter stops at MaxID + 1 and a deferred request is filed
\* under its own ID.
TypeOK ==
  /\ cause \in Causes \cup {"nil"}
  /\ claims \subseteq Calls
  /\ teardown \in {"off", "complete", "cancel", "done"}
  /\ closes \in Nat /\ hcancel \in BOOLEAN
  /\ nextID \in 0 .. MaxID + 1
  /\ pending \in [IDs -> Calls \cup {None}]
  /\ incoming \in [WireIDs -> IncomingCall]
  /\ \A i \in WireIDs : incoming[i].deferred # None =>
       reqID[incoming[i].deferred] = i /\ pc[incoming[i].deferred] # "unsent"
  /\ gate \in Procs \cup {None}
  /\ pc \in [Procs -> CallPC \cup RequestPC]
  /\ \A c \in Calls : pc[c] \in CallPC
  /\ \A r \in Requests : pc[r] \in RequestPC
  /\ callID \in [Calls -> IDs \cup {None}]
  /\ callCtx \in [Calls -> BOOLEAN]
  /\ completed \in [Calls -> Nat]
  /\ result \in [Calls -> Results \cup {"nil"}]
  /\ ret \in [Calls -> Results \cup {"nil"}]
  /\ reqID \in [Requests -> WireIDs \cup {None}]
  /\ \A r \in Requests : pc[r] # "unsent" => reqID[r] \in WireIDs
  /\ recvPC \in {"read", "response", "request", "decode", "decodeFailed",
                 "duplicate", "exit"}
  /\ recvPC = "response" => recvArg \in IDs
  /\ recvPC = "request" => recvArg \in Requests /\ reqID[recvArg] \in WireIDs
  /\ recvPC \in {"decode", "decodeFailed"} => recvArg \in Calls
  /\ ctxDone \in BOOLEAN /\ observer \in {"wait", "exit"}
  /\ waiter \in Causes \cup {"nil"}
  /\ midFrame \subseteq Procs /\ accepted \subseteq Procs

\* The owners a call's outcome can have once it was admitted.
InPending(c) == \E i \in IDs : pending[i] = c
InReceive(c) == recvPC \in {"decode", "decodeFailed"} /\ recvArg = c
Admitted(c) == pc[c] \in {"write", "accepted", "failed", "wait"}

\* pendingCall.complete closes done at most once: a response, a per-call
\* cancellation and the teardown never both settle one call (the second
\* close would panic).
CompletedOnce == \A c \in Calls : completed[c] <= 1

\* An admitted call that is not settled always has exactly one owner that
\* still settles it: the pending map, the receive loop or the teardown.  No
\* interleaving leaves it to nobody, and none hands it out twice.
ExactlyOneOwner ==
  \A c \in Calls :
    /\ Admitted(c) /\ completed[c] = 0 => InPending(c) \/ InReceive(c) \/ c \in claims
    /\ ~(InPending(c) /\ InReceive(c))
    /\ c \in claims => ~InPending(c) /\ ~InReceive(c)
    /\ InPending(c) \/ InReceive(c) \/ c \in claims => Admitted(c) /\ completed[c] = 0

\* Terminal publication leaves no pending and no incoming entry behind and
\* nothing enters the maps later: Close returns with both drained for good.
TerminalDrained ==
  cause # "nil" => /\ \A i \in IDs : pending[i] = None
                   /\ \A i \in WireIDs : incoming[i] = Free

\* No two calls are ever given one request ID, not after a cancellation
\* either, and every entry of the map is filed under its own call's ID.
IDsNeverReused ==
  /\ \A c, d \in Calls : c # d /\ callID[c] # None => callID[c] # callID[d]
  /\ \A i \in IDs : pending[i] # None => callID[pending[i]] = i

\* A handler goroutine of this request is alive.
Live(r) == pc[r] \in {"dispatch", "gate", "admit", "write", "accepted", "failed", "settle"}

\* One wire ID has at most one live handler generation and at most one
\* deferred request, also while the response write of the previous
\* generation returns concurrently with the peer's reuse of the ID.
OneGenerationPerID ==
  \A q, r \in Requests :
    q # r /\ reqID[q] = reqID[r] =>
      /\ ~(Live(q) /\ Live(r))
      /\ cause = "nil" => ~(pc[q] = "deferred" /\ pc[r] = "deferred")

\* When Wait has returned, with the permanent cause, every call is settled or
\* about to return, the stream was closed once and no handler can begin a
\* response write any more.
WaitComplete ==
  waiter # "nil" =>
    /\ waiter = cause /\ closes = 1 /\ hcancel /\ claims = {}
    /\ \A c \in Calls : Admitted(c) => completed[c] = 1

\* A call returns success only with a decoded response to a request whose
\* write was admitted; it never returns nil for an outcome another owner took.
ReturnIsOutcome ==
  \A c \in Calls :
    /\ ret[c] = "ok" => callID[c] # None /\ completed[c] = 1 /\ result[c] = "ok"
    /\ callID[c] # None /\ pc[c] = "returned" => ret[c] = result[c] /\ completed[c] = 1

\* The strengthening that makes the ownership of outcomes inductive: IDs are
\* handed out below nextID and only at admission, the pending map is empty
\* once terminal, and only the teardown of a terminal connection has claims.
OwnerInv ==
  /\ \A c \in Calls :
       /\ callID[c] # None => callID[c] < nextID
       /\ Admitted(c) => callID[c] # None
       /\ pc[c] \in {"idle", "encode", "gate", "admit"} => callID[c] = None
       /\ callID[c] = None => completed[c] = 0
       /\ ret[c] # "nil" => pc[c] = "returned"
  /\ cause # "nil" => \A i \in IDs : pending[i] = None
  /\ claims # {} => cause # "nil" /\ teardown = "complete"
  /\ recvPC = "decodeFailed" => cause # "nil"
  /\ IDsNeverReused /\ CompletedOnce /\ ExactlyOneOwner /\ ReturnIsOutcome

\* Terminal selection and the steps of the cleanup owner, for the proofs: the
\* cleanup owner runs exactly when a cause is selected and has not closed the
\* stream before its close step.
LifeInv ==
  /\ TerminalDrained
  /\ teardown = "off" <=> cause = "nil"
  /\ teardown \in {"off", "complete"} => closes = 0

\* The strengthening that makes the generations of a wire ID inductive: while
\* the connection is active the entry of the ID tells the phase of its one live
\* generation and names its deferred request, an active entry has a generation
\* that has not written yet, and a request is not on the wire before its write.
GenerationInv ==
  /\ \A q, r \in Requests : q # r /\ reqID[q] = reqID[r] => ~(Live(q) /\ Live(r))
  /\ cause = "nil" => \A r \in Requests :
       /\ pc[r] \in {"dispatch", "gate", "admit"} => incoming[reqID[r]].state = "active"
       /\ pc[r] \in {"write", "accepted", "failed", "settle"} => incoming[reqID[r]].state = "writing"
       /\ pc[r] = "deferred" => incoming[reqID[r]].deferred = r
  /\ \A i \in WireIDs :
       /\ incoming[i].deferred # None =>
            incoming[i].state = "writing" /\ pc[incoming[i].deferred] = "deferred"
       /\ incoming[i].state = "active" =>
            \E q \in Requests : reqID[q] = i /\ pc[q] \in {"dispatch", "gate", "admit"}
  /\ \A r \in Requests :
       pc[r] \in {"unsent", "buffered", "deferred", "dispatch", "gate", "admit"} => r \notin accepted
  /\ recvPC = "request" => pc[recvArg] = "buffered"

\* A peer that reuses an ID only after it holds the complete prior response
\* is never terminated for a duplicate, although the local Write of that
\* response may not have returned: a request is only ever taken for a
\* duplicate while another one of its ID is still unanswered on the wire.
ConformingNeverDuplicate ==
  [][recvPC # "duplicate" /\ recvPC' = "duplicate" =>
       \E q \in Requests \ {recvArg} : reqID[q] = reqID[recvArg] /\ q \notin accepted]_vars

\* Once terminal selection has won, no request is dispatched (neither a
\* buffered nor a deferred one), no response write begins and no call is
\* admitted.
NothingStartsAfterTerminal ==
  [][cause # "nil" =>
       /\ \A r \in Requests : pc[r] # "dispatch" => pc'[r] # "dispatch"
       /\ \A p \in Procs : pc[p] # "write" => pc'[p] # "write"
       /\ nextID' = nextID]_vars

-----------------------------------------------------------------------------
(* Liveness                                                                *)

\* Once terminal, every call that was started returns, a handler that waits
\* for the gate or writes exits, and Wait can return, whatever handlers still
\* in dispatch and the peer do.
TerminalWakesAll ==
  /\ \A c \in Calls : (cause # "nil" /\ pc[c] # "idle") ~> (pc[c] = "returned")
  /\ \A r \in Requests :
       (cause # "nil" /\ Live(r) /\ pc[r] # "dispatch") ~> (pc[r] = "exit")
  /\ (cause # "nil") ~> (waiter # "nil")

\* A cancelled call returns: before admission, also just as it gets the gate,
\* without an ID and so without a frame; and once its frame is written.  While
\* its own frame is being written it is not interrupted.
CancelReturns ==
  \A c \in Calls :
    /\ (callCtx[c] /\ pc[c] \in {"encode", "gate", "admit"}) ~> (pc[c] = "returned" /\ callID[c] = None)
    /\ (callCtx[c] /\ pc[c] \in {"accepted", "failed", "wait"}) ~> (pc[c] = "returned")

\* With handlers that return and a stream that takes or fails writes, every
\* request the loop has read is answered or the connection ends; a deferred
\* generation too.
RequestsAnswered ==
  \A r \in Requests :
    (pc[r] = "buffered") ~> (r \in accepted \/ cause # "nil")

-----------------------------------------------------------------------------
(* Refinement                                                              *)

\* The contract's view of a call: open while its entry is in the map,
\* answered from the response claim on, lost when its outcome is the cause.
status ==
  [c \in Calls |->
     IF pc[c] = "returned" THEN "returned"
     ELSE IF InPending(c) THEN "open"
     ELSE IF InReceive(c) \/ result[c] = "ok" THEN "answered"
     ELSE IF Admitted(c) THEN "lost" ELSE "idle"]

\* The strengthening behind the refinement: a call has no outcome before it is
\* settled, and what settles one that has not returned is a decoded response or
\* the permanent cause.
OutcomeInv ==
  \A c \in Calls :
    /\ completed[c] = 0 => result[c] = "nil"
    /\ Admitted(c) /\ completed[c] = 1 => result[c] = "ok" \/ (cause # "nil" /\ result[c] = cause)

Contract == INSTANCE CallContract WITH conn <- cause

\* The connection implements the contract of Call: every step of every
\* goroutine is a step of it or invisible.
ImplementsContract == Contract!Spec

-----------------------------------------------------------------------------
(* What the documents say                                                  *)

\* "It never interleaves frames.  Any error after a partial frame is
\* terminal": while a prefix of one frame is on the stream, no byte of another
\* frame follows it.
FramesNotInterleaved == \A p, q \in midFrame : p = q
=============================================================================
