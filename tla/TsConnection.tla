---------------------------- MODULE TsConnection ----------------------------
(***************************************************************************)
(* One connection of the TypeScript runtime (src/typescript/src/runtime):  *)
(* the lifecycle (connection-core.ts), outgoing calls (call-order.ts,      *)
(* request-state.ts), incoming requests (incoming-state.ts), the send gate *)
(* (send-gate.ts) and the object that joins them (connection-runtime.ts),  *)
(* on the browser transport of src/typescript/src/browser/raw.ts.          *)
(* A step is what runs between two awaits.  The event loop orders them:    *)
(*   - application code (a call, an abort, close, a handler's result) may  *)
(*     run at any time, also from within a request encoder;                *)
(*   - a continuation (microtask) runs when no encoder is running;         *)
(*   - an event (a message, a socket event, a timer) runs only when no     *)
(*     continuation is left.                                               *)
(* Continuations run in any order here, in the order they were queued in   *)
(* the program.  Every frame has length 1, a message is one frame and a    *)
(* payload is the outcome of its codec.                                    *)
(***************************************************************************)
EXTENDS Integers, FiniteSets, Sequences

CONSTANTS
  Calls,        \* invocations of ConnectionRuntime.call
  Requests,     \* request frames the peer may send
  WireIDs,      \* request IDs the peer picks from
  MaxID,        \* MAX_REQUEST_ID
  MaxCalls,     \* MAX_OUTGOING_CALLS
  MaxOwned,     \* MAX_OWNED_FRAME_BYTES
  MaxHandlers,  \* MAX_ACTIVE_INCOMING_HANDLERS, and the payload limit
  MaxQueued,    \* MAX_NATIVE_QUEUED_BYTES
  None

IDs == 0 .. MaxID
Procs == Calls \cup Requests

ASSUME LimitsAssumption == {MaxID, MaxCalls, MaxOwned, MaxHandlers} \subseteq Nat
ASSUME QueuedAssumption == MaxQueued \in Nat \ {0}
ASSUME ProcsAssumption == Calls \cap Requests = {} /\ None \notin Procs \cup WireIDs

Causes == {"ErrClosed", "ErrTransport", "ErrSend", "ErrResponse", "ErrDuplicate", "ErrFrame"}
\* "ErrArgument" is any error of validate, "notOpen" a socket that is not open
\* although no cause is selected yet.
LocalErrors == {"ErrArgument", "notOpen", "ErrEncode", "ErrResourceLimit",
                "ErrRequestIDsExhausted", "callCtx.Err"}
Results == Causes \cup LocalErrors \cup {"ok"}

CallPC == {"idle", "encode", "queued", "polling", "acquired", "failed", "await", "returned"}
RequestPC == {"unsent", "dispatch", "result", "queued", "polling", "acquired", "failed",
              "finish", "done", "refused"}

VARIABLES
  cause,     \* ConnectionCore.terminalCause
  pending,   \* ConnectionCore.pending: ID -> call
  resolver,  \* ConnectionRuntime.pendingResolvers: ID -> call
  slots,     \* calls whose OutgoingCallSlot is not released
  active,    \* OutgoingRequestState.activeValue
  result,    \* how the call's promise or its send admission was settled
  open,      \* is the socket's readyState OPEN?
  nextID,    \* OutgoingRequestState.nextID
  frames,    \* calls and requests whose reservation of frame bytes is not released
  owned,     \* ownedFrameBytes
  queue,     \* the chain of SendGate.tail: the first one has the gate
  buffered,  \* WebSocket.bufferedAmount
  pc,        \* control of every call and every incoming request
  aborted,   \* calls whose signal is aborted
  ret,       \* what the call settled with for its caller
  reqID,     \* ID of a request frame
  activeIDs, \* IncomingRequestState.activeIDs
  handlers,  \* activeHandlersValue
  sent       \* whose frame send() has accepted

coreVars == <<cause, pending, resolver, slots, active, result, open>>
sendVars == <<frames, owned, queue>>
inVars == <<reqID, activeIDs, handlers>>
vars == <<coreVars, nextID, sendVars, buffered, pc, aborted, ret, inVars, sent>>

NoEntry == [i \in IDs |-> None]

\* A new runtime; a larger nextID is the runtime after that many calls.
Init ==
  /\ cause = "nil" /\ pending = NoEntry /\ resolver = NoEntry
  /\ slots = {} /\ active = 0
  /\ result = [c \in Calls |-> "nil"] /\ ret = [c \in Calls |-> "nil"]
  /\ open = TRUE
  /\ nextID \in IDs
  /\ frames = {} /\ owned = 0 /\ queue = <<>> /\ buffered = 0
  /\ pc = [p \in Procs |-> IF p \in Calls THEN "idle" ELSE "unsent"]
  /\ aborted = {}
  /\ reqID = [r \in Requests |-> None] /\ activeIDs = {} /\ handlers = 0
  /\ sent = {}

Goto(p, label) == pc' = [pc EXCEPT ![p] = label]
Return(c, res) == Goto(c, "returned") /\ ret' = [ret EXCEPT ![c] = res]
Settle(c, res) == result' = [result EXCEPT ![c] = res]

-----------------------------------------------------------------------------
(* Reservations: each is released at most once, by its own flag.           *)

releaseSlots(S) ==
  /\ slots' = slots \ S
  /\ active' = active - Cardinality(S \cap slots)

reserveFrameBytes(p) ==
  /\ owned + 1 <= MaxOwned
  /\ frames' = frames \cup {p} /\ owned' = owned + 1

releaseFrame(p) ==
  /\ frames' = frames \ {p}
  /\ owned' = owned - Cardinality({p} \cap frames)

HasGate(p) == queue # <<>> /\ Head(queue) = p
releaseSend(p) == queue' = IF HasGate(p) THEN Tail(queue) ELSE queue

-----------------------------------------------------------------------------
(* ConnectionCore                                                          *)

\* terminate and its cleanup owner: the first cause wins, every pending call
\* (and the ones in more) is rejected with it and gives its slot back, both
\* maps are cleared, receiving stops and the socket is closed.  closed resolves
\* in the same step, since stopReceiving marks the receive side stopped.
terminate(e, more) ==
  LET S == ({pending[i] : i \in IDs} \ {None}) \cup more IN
  IF cause # "nil"
  THEN UNCHANGED coreVars
  ELSE /\ cause' = e
       /\ pending' = NoEntry /\ resolver' = NoEntry
       /\ result' = [c \in Calls |-> IF c \in S THEN e ELSE result[c]]
       /\ releaseSlots(S)
       /\ open' = FALSE

Close ==
  /\ cause = "nil"
  /\ terminate("ErrClosed", {})
  /\ UNCHANGED <<nextID, sendVars, buffered, pc, aborted, ret, inVars, sent>>

-----------------------------------------------------------------------------
(* Outgoing calls (runOrderedCall)                                         *)

\* What ready() and throwIfAborted find, in the order they are asked after
\* an await; "nil" if nothing.
NotReady == IF cause # "nil" THEN cause ELSE IF ~open THEN "notOpen" ELSE "nil"
AbortedOrNotReady(c) == IF c \in aborted THEN "callCtx.Err" ELSE NotReady

\* validate, the signal, ready, then the reservation of a slot.
CallStart(c) ==
  /\ pc[c] = "idle"
  /\ \/ Return(c, "ErrArgument") /\ UNCHANGED <<slots, active>>
     \/ NotReady # "nil" /\ Return(c, NotReady) /\ UNCHANGED <<slots, active>>
     \/ /\ NotReady = "nil" /\ c \in aborted
        /\ Return(c, "callCtx.Err") /\ UNCHANGED <<slots, active>>
     \/ /\ NotReady = "nil" /\ c \notin aborted /\ active >= MaxCalls
        /\ Return(c, "ErrResourceLimit") /\ UNCHANGED <<slots, active>>
     \/ /\ NotReady = "nil" /\ c \notin aborted /\ active < MaxCalls
        /\ slots' = slots \cup {c} /\ active' = active + 1
        /\ Goto(c, "encode") /\ UNCHANGED ret
  /\ UNCHANGED <<cause, pending, resolver, result, open, nextID, sendVars, buffered, aborted,
                 inVars, sent>>

\* The encoder, or a check or reservation after it, throws.
CallEncodeFails(c) ==
  /\ pc[c] = "encode"
  /\ \/ Return(c, "ErrEncode")
     \/ NotReady # "nil" /\ Return(c, NotReady)
     \/ NotReady = "nil" /\ owned + 1 > MaxOwned /\ Return(c, "ErrResourceLimit")
  /\ releaseSlots({c})
  /\ UNCHANGED <<cause, pending, resolver, result, open, nextID, sendVars, buffered, aborted,
                 inVars, sent>>

\* The frame bytes are reserved and the call joins the send gate's chain.
CallEncode(c) ==
  /\ pc[c] = "encode" /\ NotReady = "nil"
  /\ reserveFrameBytes(c)
  /\ queue' = Append(queue, c)
  /\ Goto(c, "queued")
  /\ UNCHANGED <<coreVars, nextID, buffered, aborted, ret, inVars, sent>>

\* The checks after send admission throw, or no ID is left: catch and finally
\* give everything back.
CallAbandon(c) ==
  /\ pc[c] = "acquired"
  /\ \/ AbortedOrNotReady(c) # "nil" /\ Settle(c, AbortedOrNotReady(c))
     \/ AbortedOrNotReady(c) = "nil" /\ nextID > MaxID /\ Settle(c, "ErrRequestIDsExhausted")
  /\ releaseSlots({c}) /\ releaseSend(c) /\ releaseFrame(c)
  /\ Goto(c, "failed")
  /\ UNCHANGED <<cause, pending, resolver, open, nextID, buffered, aborted, ret, inVars, sent>>

\* Mutant: the readiness is not asked again after the await.
CallSend_noRecheck(c) ==
  /\ pc[c] = "acquired" /\ c \notin aborted /\ nextID <= MaxID
  /\ nextID' = nextID + 1
  /\ pending' = [pending EXCEPT ![nextID] = c] /\ resolver' = [resolver EXCEPT ![nextID] = c]
  /\ buffered' = buffered + 1 /\ sent' = sent \cup {c}
  /\ releaseSend(c)
  /\ Goto(c, "await")
  /\ UNCHANGED <<cause, slots, active, result, open, frames, owned, aborted, ret, inVars>>

\* allocateID, registerPending and send; the gate is released after send.
CallSend(c) ==
  /\ pc[c] = "acquired" /\ AbortedOrNotReady(c) = "nil" /\ nextID <= MaxID
  /\ nextID' = nextID + 1
  /\ pending' = [pending EXCEPT ![nextID] = c]
  /\ resolver' = [resolver EXCEPT ![nextID] = c]
  /\ buffered' = buffered + 1
  /\ sent' = sent \cup {c}
  /\ releaseSend(c)
  /\ Goto(c, "await")
  /\ UNCHANGED <<cause, slots, active, result, open, frames, owned, aborted, ret, inVars>>

\* send throws: the connection ends, and with it the call just registered.
CallSendFails(c) ==
  /\ pc[c] = "acquired" /\ AbortedOrNotReady(c) = "nil" /\ nextID <= MaxID
  /\ nextID' = nextID + 1
  /\ terminate("ErrSend", {c})
  /\ releaseSend(c) /\ releaseFrame(c)
  /\ Goto(c, "failed")
  /\ UNCHANGED <<buffered, aborted, ret, inVars, sent>>

\* Mutant: the slot is not given back when send admission failed.
CallCatch_keepsSlot(c) ==
  /\ pc[c] = "failed"
  /\ Return(c, result[c])
  /\ releaseFrame(c)
  /\ UNCHANGED <<coreVars, nextID, queue, buffered, aborted, inVars, sent>>

\* The rejection of waitForSend reaches catch and finally; the caller sees it.
CallCatch(c) ==
  /\ pc[c] = "failed"
  /\ Return(c, result[c])
  /\ releaseSlots({c}) /\ releaseFrame(c)
  /\ UNCHANGED <<cause, pending, resolver, result, open, nextID, queue, buffered, aborted,
                 inVars, sent>>

\* The pending promise is settled: awaitOutcome returns, finally releases.
CallReturn(c) ==
  /\ pc[c] = "await" /\ result[c] # "nil"
  /\ Return(c, result[c])
  /\ releaseFrame(c)
  /\ UNCHANGED <<coreVars, nextID, queue, buffered, aborted, inVars, sent>>

\* The application aborts the signal.  A call that awaits its outcome and is
\* still pending is retired by the listener at once; otherwise the flag is
\* noticed at the next check.
Abort(c) ==
  /\ c \notin aborted /\ pc[c] # "returned"
  /\ aborted' = aborted \cup {c}
  /\ LET own == {i \in IDs : pending[i] = c} IN
       IF own = {} THEN UNCHANGED coreVars
       ELSE /\ pending' = [i \in IDs |-> IF i \in own THEN None ELSE pending[i]]
            /\ resolver' = [i \in IDs |-> IF i \in own THEN None ELSE resolver[i]]
            /\ Settle(c, "callCtx.Err")
            /\ releaseSlots({c})
            /\ UNCHANGED <<cause, open>>
  /\ UNCHANGED <<nextID, sendVars, buffered, pc, ret, inVars, sent>>

-----------------------------------------------------------------------------
(* The send gate                                                           *)

GateFailed(p, e) ==
  /\ releaseSend(p)
  /\ Goto(p, "failed")
  /\ IF p \in Calls THEN Settle(p, e) ELSE UNCHANGED result

\* Mutant: the poll loop does not look at the terminal cause.
GateFails_ignoresTerminal(p) ==
  /\ pc[p] \in {"queued", "polling"} /\ HasGate(p)
  /\ p \in aborted /\ cause = "nil" /\ GateFailed(p, "callCtx.Err")
  /\ UNCHANGED <<cause, pending, resolver, slots, active, open, nextID, frames, owned, buffered,
                 aborted, ret, inVars, sent>>

\* waitForCapacity throws: the terminal cause first, then the signal.  A
\* signal that is aborted during the poll wait rejects it at once.
GateFails(p) ==
  /\ HasGate(p)
  /\ \/ pc[p] = "queued" /\ cause # "nil" /\ GateFailed(p, cause)
     \/ pc[p] = "queued" /\ cause = "nil" /\ p \in aborted /\ GateFailed(p, "callCtx.Err")
     \/ pc[p] = "polling" /\ p \in aborted /\ GateFailed(p, "callCtx.Err")
  /\ UNCHANGED <<cause, pending, resolver, slots, active, open, nextID, frames, owned, buffered,
                 aborted, ret, inVars, sent>>

\* There is room for the frame, or the holder of the gate starts to poll.
GateCheck(p) ==
  /\ pc[p] = "queued" /\ HasGate(p) /\ cause = "nil" /\ p \notin aborted
  /\ Goto(p, IF buffered + 1 <= MaxQueued THEN "acquired" ELSE "polling")
  /\ UNCHANGED <<coreVars, nextID, sendVars, buffered, aborted, ret, inVars, sent>>

PollTimer(p) ==
  /\ pc[p] = "polling"
  /\ Goto(p, "queued")
  /\ UNCHANGED <<coreVars, nextID, sendVars, buffered, aborted, ret, inVars, sent>>

-----------------------------------------------------------------------------
(* Messages and socket events (receiveChunk, transportClosed)              *)

\* A response: an unmatched one is ignored; a matched one is claimed, its slot
\* released and its promise settled, with the value or the remote exception.
ReceiveResponse(i) ==
  /\ cause = "nil" /\ open /\ pending[i] # None
  /\ pending' = [pending EXCEPT ![i] = None]
  /\ resolver' = [resolver EXCEPT ![i] = None]
  /\ releaseSlots({pending[i]})
  /\ Settle(resolver[i], "ok")
  /\ UNCHANGED <<cause, open, nextID, sendVars, buffered, pc, aborted, ret, inVars, sent>>

\* The decoder throws: the connection ends and the claimed call with it.
ReceiveBadResponse(i) ==
  /\ cause = "nil" /\ open /\ pending[i] # None
  /\ terminate("ErrResponse", {})
  /\ UNCHANGED <<nextID, sendVars, buffered, pc, aborted, ret, inVars, sent>>

\* admit accepts the request and dispatch is entered.
ReceiveRequest(r, i) ==
  /\ cause = "nil" /\ open /\ pc[r] = "unsent"
  /\ i \notin activeIDs /\ handlers < MaxHandlers
  /\ reqID' = [reqID EXCEPT ![r] = i]
  /\ activeIDs' = activeIDs \cup {i} /\ handlers' = handlers + 1
  /\ Goto(r, "dispatch")
  /\ UNCHANGED <<coreVars, nextID, sendVars, buffered, aborted, ret, sent>>

\* admit throws for a duplicate or an exceeded limit; the latter is wrapped
\* into a protocol error like any other.
ReceiveRefused(r, i) ==
  /\ cause = "nil" /\ open /\ pc[r] = "unsent"
  /\ reqID' = [reqID EXCEPT ![r] = i]
  /\ \/ i \in activeIDs /\ terminate("ErrDuplicate", {})
     \/ i \notin activeIDs /\ handlers >= MaxHandlers /\ terminate("ErrFrame", {})
  /\ Goto(r, "refused")
  /\ UNCHANGED <<nextID, sendVars, buffered, aborted, ret, activeIDs, handlers, sent>>

ReceiveMalformed ==
  /\ cause = "nil" /\ open
  /\ terminate("ErrFrame", {})
  /\ UNCHANGED <<nextID, sendVars, buffered, pc, aborted, ret, inVars, sent>>

\* The close or error event.
transportClosed ==
  /\ cause = "nil"
  /\ terminate("ErrTransport", {})
  /\ UNCHANGED <<nextID, sendVars, buffered, pc, aborted, ret, inVars, sent>>

\* The socket leaves OPEN before its close event is delivered.
SocketLeavesOpen ==
  /\ open /\ open' = FALSE
  /\ UNCHANGED <<cause, pending, resolver, slots, active, result, nextID, sendVars, buffered,
                 pc, aborted, ret, inVars, sent>>

\* The network takes buffered bytes.
Drain ==
  /\ buffered > 0 /\ buffered' = buffered - 1
  /\ UNCHANGED <<coreVars, nextID, sendVars, pc, aborted, ret, inVars, sent>>

-----------------------------------------------------------------------------
(* Incoming handlers (the continuation of invokeDispatch)                  *)

\* The provider's promise settles; invokeDispatch turns it into a result.
HandlerReturns(r) ==
  /\ pc[r] = "dispatch"
  /\ Goto(r, "result")
  /\ UNCHANGED <<coreVars, nextID, sendVars, buffered, aborted, ret, inVars, sent>>

\* A late result of a terminated connection is dropped.
HandlerDropped(r) ==
  /\ pc[r] = "result" /\ cause # "nil"
  /\ Goto(r, "finish")
  /\ UNCHANGED <<coreVars, nextID, sendVars, buffered, aborted, ret, inVars, sent>>

HandlerResult(r) ==
  /\ pc[r] = "result" /\ cause = "nil"
  /\ reserveFrameBytes(r)
  /\ queue' = Append(queue, r)
  /\ Goto(r, "queued")
  /\ UNCHANGED <<coreVars, nextID, buffered, aborted, ret, inVars, sent>>

\* An invalid or oversized payload, or no room for the frame, ends the
\* connection.
HandlerOverLimit(r) ==
  /\ pc[r] = "result" /\ cause = "nil"
  /\ terminate("ErrSend", {})
  /\ Goto(r, "finish")
  /\ UNCHANGED <<nextID, sendVars, buffered, aborted, ret, inVars, sent>>

HandlerSend(r) ==
  /\ pc[r] = "acquired" /\ NotReady = "nil"
  /\ buffered' = buffered + 1 /\ sent' = sent \cup {r}
  /\ releaseSend(r) /\ releaseFrame(r)
  /\ Goto(r, "finish")
  /\ UNCHANGED <<coreVars, nextID, aborted, ret, inVars>>

\* The recheck or send itself throws, or send admission did: terminate is
\* idempotent.
HandlerSendFails(r) ==
  /\ pc[r] \in {"acquired", "failed"}
  /\ terminate("ErrSend", {})
  /\ releaseSend(r) /\ releaseFrame(r)
  /\ Goto(r, "finish")
  /\ UNCHANGED <<nextID, buffered, aborted, ret, inVars, sent>>

\* Mutant: the handler's lease is never finished.
LeaseFinish_forgotten(r) ==
  /\ pc[r] = "finish"
  /\ Goto(r, "done")
  /\ UNCHANGED <<coreVars, nextID, sendVars, buffered, aborted, ret, inVars, sent>>

\* finally: the ID, the handler slot and the payload bytes are released.
LeaseFinish(r) ==
  /\ pc[r] = "finish"
  /\ activeIDs' = activeIDs \ {reqID[r]} /\ handlers' = handlers - 1
  /\ Goto(r, "done")
  /\ UNCHANGED <<coreVars, nextID, sendVars, buffered, aborted, ret, reqID, sent>>

-----------------------------------------------------------------------------
Application ==
  \/ Close
  \/ \E c \in Calls : CallStart(c) \/ CallEncodeFails(c) \/ CallEncode(c) \/ Abort(c)
  \/ \E r \in Requests : HandlerReturns(r)

CallMicrotask(c) == CallAbandon(c) \/ CallSend(c) \/ CallSendFails(c) \/ CallCatch(c)
                      \/ CallReturn(c)
HandlerMicrotask(r) == HandlerDropped(r) \/ HandlerResult(r) \/ HandlerOverLimit(r)
                         \/ HandlerSend(r) \/ HandlerSendFails(r) \/ LeaseFinish(r)
GateMicrotask(p) == GateFails(p) \/ GateCheck(p)

Event ==
  \/ ReceiveMalformed \/ transportClosed
  \/ \E i \in IDs : ReceiveResponse(i) \/ ReceiveBadResponse(i)
  \/ \E r \in Requests, i \in WireIDs : ReceiveRequest(r, i) \/ ReceiveRefused(r, i)
  \/ \E p \in Procs : PollTimer(p)

\* No encoder is on the stack.
NoEncoder == \A c \in Calls : pc[c] # "encode"

\* No continuation is queued.
Quiet ==
  /\ NoEncoder
  /\ \A p \in Procs :
       /\ pc[p] \notin {"acquired", "failed", "result", "finish"}
       /\ ~(pc[p] = "queued" /\ HasGate(p))
       /\ ~(pc[p] = "polling" /\ p \in aborted)
       /\ ~(pc[p] = "await" /\ result[p] # "nil")

Next ==
  \/ Application
  \/ NoEncoder /\ \E c \in Calls : CallMicrotask(c)
  \/ NoEncoder /\ \E r \in Requests : HandlerMicrotask(r)
  \/ NoEncoder /\ \E p \in Procs : GateMicrotask(p)
  \/ Quiet /\ Event
  \/ SocketLeavesOpen \/ Drain

Spec == Init /\ [][Next]_vars

-----------------------------------------------------------------------------
(* Fairness.  Encoders return, the event loop runs every continuation and  *)
(* fires every timer.  Nothing is assumed of the peer, the network         *)
(* (buffered bytes may stay forever) or a provider.                        *)
Fairness ==
  /\ \A c \in Calls : /\ WF_vars(CallEncodeFails(c) \/ CallEncode(c))
                      /\ WF_vars(NoEncoder /\ CallMicrotask(c))
  /\ \A r \in Requests : WF_vars(NoEncoder /\ HandlerMicrotask(r))
  /\ \A p \in Procs : WF_vars(NoEncoder /\ GateMicrotask(p)) /\ WF_vars(Quiet /\ PollTimer(p))

FairSpec == Spec /\ Fairness

-----------------------------------------------------------------------------
(* Properties                                                              *)

Live(r) == pc[r] \notin {"unsent", "done", "refused"}

\* Types; the counters never exceed their limits and always count exactly the
\* reservations that are still held, whichever path released the others.
TypeOK ==
  /\ cause \in Causes \cup {"nil"}
  /\ pending \in [IDs -> Calls \cup {None}] /\ resolver \in [IDs -> Calls \cup {None}]
  /\ slots \subseteq Calls /\ active = Cardinality(slots) /\ active <= MaxCalls
  /\ result \in [Calls -> Results \cup {"nil"}] /\ ret \in [Calls -> Results \cup {"nil"}]
  /\ open \in BOOLEAN /\ nextID \in 0 .. MaxID + 1
  /\ frames \subseteq Procs /\ owned = Cardinality(frames) /\ owned <= MaxOwned
  /\ queue \in Seq(Procs) /\ buffered \in 0 .. MaxQueued
  /\ pc \in [Procs -> CallPC \cup RequestPC]
  /\ aborted \subseteq Calls
  /\ reqID \in [Requests -> WireIDs \cup {None}] /\ activeIDs \subseteq WireIDs
  /\ handlers = Cardinality({r \in Requests : Live(r)}) /\ handlers <= MaxHandlers
  /\ sent \subseteq Procs

InPending(c) == \E i \in IDs : pending[i] = c

\* The pending map and the resolver map, which are changed one after the
\* other, hold the same calls; an unsettled call that was sent is in them and
\* nothing else is, so each has somebody who settles it; and a call that has
\* returned, a request that is finished, has left nothing behind: no slot, no
\* frame bytes, no place in the gate's chain, no entry.  The counters agree with
\* what is held (TypeOK).
NothingLeaks ==
  /\ TypeOK
  /\ pending = resolver
  /\ \A c \in Calls :
       /\ InPending(c) <=> pc[c] = "await" /\ result[c] = "nil"
       /\ pc[c] = "returned" => c \notin slots
  /\ \A p \in Procs :
       /\ pc[p] \in {"returned", "done"} => p \notin frames
       /\ (\E n \in DOMAIN queue : queue[n] = p) <=> pc[p] \in {"queued", "polling", "acquired"}

\* A peer that reuses an ID only after it received the response is never taken
\* for sending a duplicate: the ID is released in continuations, before any
\* further message event.
ConformingNeverDuplicate ==
  [][\A r \in Requests : pc[r] # "refused" /\ pc'[r] = "refused" /\ cause' = "ErrDuplicate" =>
       \E q \in Requests \ {r} : reqID[q] = reqID'[r] /\ q \notin sent]_vars

\* Once terminal, every call that was started returns, and every handler that
\* has produced its result is finished, although the network takes no byte
\* any more: the gate's chain moves on by itself.
TerminalWakesAll ==
  cause # "nil" ~>
    /\ \A c \in Calls : pc[c] \in {"idle", "returned"}
    /\ \A r \in Requests : pc[r] \in {"unsent", "dispatch", "done", "refused"}

-----------------------------------------------------------------------------
(* Refinement                                                              *)

\* A call is open while it is pending, answered from the response on, lost
\* when its promise was rejected with the cause.  An abort settles it at once.
status ==
  [c \in Calls |->
     IF pc[c] = "returned" \/ result[c] = "callCtx.Err" THEN "returned"
     ELSE IF InPending(c) THEN "open"
     ELSE IF pc[c] # "await" THEN "idle"
     ELSE IF result[c] = "ok" THEN "answered" ELSE "lost"]
settled == [c \in Calls |-> IF result[c] = "callCtx.Err" THEN result[c] ELSE ret[c]]

Contract == INSTANCE CallContract WITH conn <- cause, ret <- settled

\* The TypeScript connection implements the same contract of a call as the Go
\* connection.
ImplementsContract == Contract!Spec

-----------------------------------------------------------------------------
(* The inductive invariant                                                 *)

InGate == {"queued", "polling", "acquired"}

\* What is counted is finite; each kind of reservation is held only where the
\* code still releases it.
HeldInv ==
  /\ IsFiniteSet(slots) /\ IsFiniteSet(frames) /\ IsFiniteSet({r \in Requests : Live(r)})
  /\ \A c \in slots : pc[c] \in {"encode", "failed"} \cup InGate \/ InPending(c)
  /\ \A p \in frames : pc[p] \in {"failed", "await"} \cup InGate

\* An ID has one call and every ID in use is an old one; how a call was settled
\* is what its state says.
PendingInv ==
  /\ \A i, k \in IDs : pending[i] # None /\ pending[i] = pending[k] => i = k
  /\ \A i \in IDs : pending[i] # None => i < nextID
  /\ \A c \in Calls :
       /\ pc[c] \in CallPC
       /\ pc[c] \in {"idle", "encode"} \cup InGate => result[c] = "nil"
       /\ pc[c] = "failed" => result[c] \in LocalErrors \/ (cause # "nil" /\ result[c] = cause)
       /\ pc[c] = "await" => \/ result[c] \in {"nil", "ok", "callCtx.Err"}
                             \/ cause # "nil" /\ result[c] = cause

\* Only the first of the chain polls or is admitted, and no byte is added
\* between the capacity check and its send.
GateInv ==
  /\ \A m, n \in DOMAIN queue : queue[m] = queue[n] => m = n
  /\ \A p \in Procs : /\ pc[p] \in {"polling", "acquired"} => HasGate(p)
                      /\ pc[p] = "acquired" => buffered < MaxQueued

\* A response is on its way only when its handler has nothing left but finally.
RequestInv ==
  /\ \A r \in Requests : /\ pc[r] \in RequestPC
                         /\ r \in sent => pc[r] \in {"finish", "done"}
  /\ \A i \in activeIDs : \E r \in Requests : Live(r) /\ reqID[r] = i

RuntimeInv == NothingLeaks /\ HeldInv /\ PendingInv /\ GateInv /\ RequestInv
=============================================================================
