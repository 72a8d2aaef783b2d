------------------------- MODULE TsConnectionProofs -------------------------
(***************************************************************************)
(* Proofs about the TypeScript connection for any sets of calls, requests  *)
(* and wire IDs and any limits.  RuntimeInv is the inductive invariant; it *)
(* is proved in parts that follow the objects of the runtime: the counters *)
(* (Counted), the chain of the send gate (Chained), the calls (Called) and *)
(* the incoming requests (Incoming).                                       *)
(***************************************************************************)
EXTENDS TsConnection, FiniteSetTheorems, TLAPS

PCs == CallPC \cup RequestPC
LiveRequests == {r \in Requests : Live(r)}

Typed ==
  /\ cause \in Causes \cup {"nil"} /\ open \in BOOLEAN
  /\ pc \in [Procs -> PCs]
  /\ ret \in [Calls -> Results \cup {"nil"}] /\ nextID \in 0 .. MaxID + 1
  /\ aborted \subseteq Calls /\ sent \subseteq Procs /\ buffered \in 0 .. MaxQueued
  /\ reqID \in [Requests -> WireIDs \cup {None}] /\ activeIDs \subseteq WireIDs

\* The counters count what is held.
SlotsCounted ==
  slots \subseteq Calls /\ IsFiniteSet(slots) /\ active = Cardinality(slots) /\ active <= MaxCalls
FramesCounted ==
  frames \subseteq Procs /\ IsFiniteSet(frames) /\ owned = Cardinality(frames) /\ owned <= MaxOwned
HandlersCounted ==
  /\ IsFiniteSet(LiveRequests)
  /\ handlers = Cardinality(LiveRequests) /\ handlers <= MaxHandlers

\* Who holds frame bytes.
FramesHeld == \A p \in frames : pc[p] \in {"failed", "await"} \cup InGate

Chained ==
  /\ queue \in Seq(Procs)
  /\ \A p \in Procs : (\E n \in DOMAIN queue : queue[n] = p) <=> pc[p] \in InGate
  /\ GateInv

Called ==
  /\ pending \in [IDs -> Calls \cup {None}] /\ pending = resolver
  /\ result \in [Calls -> Results \cup {"nil"}]
  /\ \A c \in Calls : InPending(c) <=> pc[c] = "await" /\ result[c] = "nil"
  /\ \A c \in slots : pc[c] \in {"encode", "failed"} \cup InGate \/ InPending(c)
  /\ PendingInv

\* The parts make up the invariant.
LEMMA Parts ==
  RuntimeInv <=> /\ Typed /\ SlotsCounted /\ FramesCounted /\ HandlersCounted
                 /\ FramesHeld /\ Chained /\ Called /\ RequestInv
<1>1. RuntimeInv => /\ Typed /\ SlotsCounted /\ FramesCounted /\ HandlersCounted
                    /\ FramesHeld /\ Chained /\ Called /\ RequestInv
  <2> SUFFICES ASSUME RuntimeInv
               PROVE  /\ Typed /\ SlotsCounted /\ FramesCounted /\ HandlersCounted
                      /\ FramesHeld /\ Chained /\ Called /\ RequestInv
    OBVIOUS
  <2>1. TypeOK /\ NothingLeaks /\ HeldInv /\ PendingInv /\ GateInv /\ RequestInv
    BY DEF RuntimeInv, NothingLeaks
  <2>2. Typed
    BY <2>1 DEF TypeOK, Typed, PCs
  <2>3. SlotsCounted /\ FramesCounted /\ HandlersCounted /\ FramesHeld
    BY <2>1 DEF TypeOK, HeldInv, SlotsCounted, FramesCounted, HandlersCounted, FramesHeld,
       LiveRequests
  <2>4. Chained
    BY <2>1 DEF TypeOK, NothingLeaks, Chained, InGate
  <2>5. Called
    BY <2>1 DEF TypeOK, NothingLeaks, HeldInv, Called
  <2> QED
    BY <2>1, <2>2, <2>3, <2>4, <2>5
<1>2. ASSUME Typed, SlotsCounted, FramesCounted, HandlersCounted, FramesHeld, Chained, Called,
             RequestInv
      PROVE  RuntimeInv
  <2>1. TypeOK
    BY <1>2 DEF TypeOK, Typed, PCs, SlotsCounted, FramesCounted, HandlersCounted, LiveRequests,
       Chained, Called
  <2>2. HeldInv
    BY <1>2 DEF HeldInv, SlotsCounted, FramesCounted, HandlersCounted, LiveRequests, FramesHeld,
       Called
  <2>3. \A c \in Calls : pc[c] = "returned" => c \notin slots
    BY <1>2 DEF Called, InGate
  <2>4. \A p \in Procs : pc[p] \in {"returned", "done"} => p \notin frames
    BY <1>2 DEF FramesHeld, InGate
  <2>5. NothingLeaks
    BY <1>2, <2>1, <2>3, <2>4 DEF NothingLeaks, Called, Chained, InGate
  <2> QED
    BY <1>2, <2>2, <2>5 DEF RuntimeInv, Called, Chained
<1> QED
  BY <1>1, <1>2

-----------------------------------------------------------------------------
(* Finite counts                                                           *)

\* Releasing any set of reservations keeps the count exact.
LEMMA CountReleased ==
  ASSUME NEW T, IsFiniteSet(T), NEW S
  PROVE  /\ IsFiniteSet(T \ S)
         /\ Cardinality(T \ S) = Cardinality(T) - Cardinality(S \cap T)
         /\ Cardinality(T \ S) <= Cardinality(T) /\ Cardinality(T) \in Nat
<1>1. T \cap S = S \cap T
  OBVIOUS
<1>2. IsFiniteSet(T \ S) /\ Cardinality(T \ S) = Cardinality(T) - Cardinality(S \cap T)
  BY <1>1, FS_Difference
<1>3. Cardinality(T \ S) <= Cardinality(T)
  BY FS_Subset
<1> QED
  BY <1>2, <1>3, FS_CardinalityType

LEMMA CountAdded ==
  ASSUME NEW T, IsFiniteSet(T), NEW x, x \notin T
  PROVE  IsFiniteSet(T \cup {x}) /\ Cardinality(T \cup {x}) = Cardinality(T) + 1
BY FS_AddElement

\* What a step may do to the slots, to the frame bytes and to the handlers.
SlotStep ==
  \/ UNCHANGED <<slots, active>>
  \/ \E S : releaseSlots(S)
  \/ \E c \in Calls \ slots : active < MaxCalls /\ slots' = slots \cup {c} /\ active' = active + 1

FrameStep ==
  \/ UNCHANGED <<frames, owned>>
  \/ \E p : releaseFrame(p)
  \/ \E p \in Procs \ frames : reserveFrameBytes(p)

LEMMA SlotStepCounts == SlotsCounted /\ SlotStep => SlotsCounted'
<1> SUFFICES ASSUME SlotsCounted, SlotStep PROVE SlotsCounted'
  OBVIOUS
<1>0. active \in Nat /\ MaxCalls \in Nat
  BY FS_CardinalityType, LimitsAssumption DEF SlotsCounted
<1>1. CASE UNCHANGED <<slots, active>>
  BY <1>1 DEF SlotsCounted
<1>2. ASSUME NEW S, releaseSlots(S) PROVE SlotsCounted'
  <2>1. slots' = slots \ S /\ active' = active - Cardinality(S \cap slots)
    BY <1>2 DEF releaseSlots
  <2>2. /\ IsFiniteSet(slots') /\ active' = Cardinality(slots')
        /\ Cardinality(slots') <= Cardinality(slots) /\ Cardinality(slots') \in Nat
    BY <2>1, CountReleased, FS_CardinalityType DEF SlotsCounted
  <2> QED
    BY <1>0, <2>1, <2>2 DEF SlotsCounted
<1>3. ASSUME NEW c \in Calls \ slots, active < MaxCalls, slots' = slots \cup {c},
             active' = active + 1
      PROVE  SlotsCounted'
  <2>1. IsFiniteSet(slots') /\ active' = Cardinality(slots')
    BY <1>3, CountAdded DEF SlotsCounted
  <2> QED
    BY <1>0, <1>3, <2>1 DEF SlotsCounted
<1> QED
  BY <1>1, <1>2, <1>3 DEF SlotStep

LEMMA FrameStepCounts == FramesCounted /\ FrameStep => FramesCounted'
<1> SUFFICES ASSUME FramesCounted, FrameStep PROVE FramesCounted'
  OBVIOUS
<1>0. owned \in Nat /\ MaxOwned \in Nat
  BY FS_CardinalityType, LimitsAssumption DEF FramesCounted
<1>1. CASE UNCHANGED <<frames, owned>>
  BY <1>1 DEF FramesCounted
<1>2. ASSUME NEW p, releaseFrame(p) PROVE FramesCounted'
  <2>1. frames' = frames \ {p} /\ owned' = owned - Cardinality({p} \cap frames)
    BY <1>2 DEF releaseFrame
  <2>2. /\ IsFiniteSet(frames') /\ owned' = Cardinality(frames')
        /\ Cardinality(frames') <= Cardinality(frames) /\ Cardinality(frames') \in Nat
    BY <2>1, CountReleased, FS_CardinalityType DEF FramesCounted
  <2> QED
    BY <1>0, <2>1, <2>2 DEF FramesCounted
<1>3. ASSUME NEW p \in Procs \ frames, reserveFrameBytes(p) PROVE FramesCounted'
  <2>1. IsFiniteSet(frames') /\ owned' = Cardinality(frames')
    BY <1>3, CountAdded DEF FramesCounted, reserveFrameBytes
  <2> QED
    BY <1>0, <1>3, <2>1 DEF FramesCounted, reserveFrameBytes
<1> QED
  BY <1>1, <1>2, <1>3 DEF FrameStep

-----------------------------------------------------------------------------
(* Facts about the constants and the control                               *)

LEMMA ProcFacts ==
  /\ Calls \subseteq Procs /\ Requests \subseteq Procs
  /\ \A c \in Calls : c \notin Requests /\ c # None
  /\ \A r \in Requests : r \notin Calls
  /\ MaxID \in Nat /\ MaxCalls \in Nat /\ MaxOwned \in Nat /\ MaxHandlers \in Nat
  /\ MaxQueued \in Nat /\ IDs \subseteq Nat
BY ProcsAssumption, LimitsAssumption, QueuedAssumption DEF Procs, IDs

\* A jump changes the control of one call or request.
LEMMA GotoFacts ==
  ASSUME Typed, NEW p \in Procs, NEW label \in PCs, Goto(p, label)
  PROVE  /\ pc' \in [Procs -> PCs] /\ pc'[p] = label
         /\ \A q \in Procs : q # p => pc'[q] = pc[q]
BY DEF Goto, Typed

\* The effect of terminate: everything pending is rejected at once, or nothing.
LEMMA TerminateFacts ==
  ASSUME Called, SlotsCounted, NEW e \in Causes, NEW more \in SUBSET Calls, terminate(e, more)
  PROVE  /\ SlotStep
         /\ \/ cause # "nil" /\ UNCHANGED coreVars
            \/ /\ cause = "nil" /\ cause' = e /\ open' = FALSE
               /\ pending' = NoEntry /\ resolver' = NoEntry
               /\ result' \in [Calls -> Results \cup {"nil"}]
               /\ \A c \in Calls : /\ InPending(c) \/ c \in more => result'[c] = e
                                   /\ ~InPending(c) /\ c \notin more => result'[c] = result[c]
               /\ \A c \in slots' : c \in slots /\ ~InPending(c) /\ c \notin more
<1>1. CASE cause # "nil"
  BY <1>1 DEF terminate, coreVars, SlotStep
<1>2. CASE cause = "nil"
  <2>1. PICK S : /\ S = ({pending[i] : i \in IDs} \ {None}) \cup more
                 /\ cause' = e /\ open' = FALSE /\ pending' = NoEntry /\ resolver' = NoEntry
                 /\ result' = [c \in Calls |-> IF c \in S THEN e ELSE result[c]]
                 /\ releaseSlots(S)
    BY <1>2 DEF terminate
  <2>2. \A c \in Calls : c \in S <=> InPending(c) \/ c \in more
    BY <2>1, ProcFacts DEF InPending
  <2>3. e \in Results
    BY DEF Results
  <2>4. result' \in [Calls -> Results \cup {"nil"}]
    BY <2>1, <2>3 DEF Called
  <2>5. \A c \in Calls : /\ InPending(c) \/ c \in more => result'[c] = e
                         /\ ~InPending(c) /\ c \notin more => result'[c] = result[c]
    BY <2>1, <2>2
  <2>6. \A c \in slots' : c \in slots /\ ~InPending(c) /\ c \notin more
    BY <2>1, <2>2 DEF releaseSlots, SlotsCounted
  <2>7. SlotStep
    BY <2>1 DEF SlotStep
  <2> QED
    BY <1>2, <2>1, <2>4, <2>5, <2>6, <2>7
<1> QED
  BY <1>1, <1>2

LEMMA CauseFacts ==
  {"ErrClosed", "ErrTransport", "ErrSend", "ErrResponse", "ErrDuplicate", "ErrFrame"} = Causes
BY DEF Causes

\* The steps that end an active connection and do nothing else.
Ends ==
  /\ cause = "nil"
  /\ \E e \in Causes : terminate(e, {})
  /\ UNCHANGED <<nextID, sendVars, buffered, pc, aborted, ret, inVars, sent>>

\* The steps that touch no call, no request and no counter.
Silent ==
  /\ UNCHANGED <<cause, pending, resolver, slots, active, result, nextID, sendVars, pc, aborted,
                 ret, inVars, sent>>
  /\ \/ UNCHANGED <<open, buffered>>
     \/ open' = FALSE /\ UNCHANGED buffered
     \/ UNCHANGED open /\ buffered > 0 /\ buffered' = buffered - 1

LEMMA EndsFacts ==
  Close \/ ReceiveMalformed \/ transportClosed \/ (\E i \in IDs : ReceiveBadResponse(i)) => Ends
<1>1. Close => Ends
  BY CauseFacts DEF Close, Ends
<1>2. ReceiveMalformed => Ends
  BY CauseFacts DEF ReceiveMalformed, Ends
<1>3. transportClosed => Ends
  BY CauseFacts DEF transportClosed, Ends
<1>4. ASSUME NEW i \in IDs, ReceiveBadResponse(i) PROVE Ends
  BY <1>4, CauseFacts DEF ReceiveBadResponse, Ends
<1> QED
  BY <1>1, <1>2, <1>3, <1>4

LEMMA SilentFacts == SocketLeavesOpen \/ Drain \/ UNCHANGED vars => Silent
BY DEF SocketLeavesOpen, Drain, vars, coreVars, sendVars, inVars, Silent

\* What one call, one request or one place in the gate does.
CallStep(c) ==
  \/ CallStart(c) \/ CallEncodeFails(c) \/ CallEncode(c) \/ Abort(c)
  \/ CallAbandon(c) \/ CallSend(c) \/ CallSendFails(c) \/ CallCatch(c) \/ CallReturn(c)
RequestStep(r) ==
  \/ HandlerReturns(r) \/ HandlerDropped(r) \/ HandlerResult(r) \/ HandlerOverLimit(r)
  \/ HandlerSend(r) \/ HandlerSendFails(r) \/ LeaseFinish(r)
  \/ \E i \in WireIDs : ReceiveRequest(r, i) \/ (Quiet /\ ReceiveRefused(r, i))
GateStep(p) == GateFails(p) \/ GateCheck(p) \/ PollTimer(p)

\* Every step is one of these.
LEMMA StepKinds ==
  ASSUME [Next]_vars
  PROVE  \/ Ends \/ Silent
         \/ \E c \in Calls : CallStep(c)
         \/ \E r \in Requests : RequestStep(r)
         \/ \E p \in Procs : GateStep(p)
         \/ \E i \in IDs : ReceiveResponse(i)
<1>1. CASE Application
  BY <1>1, EndsFacts DEF Application, CallStep, RequestStep
<1>2. ASSUME NEW c \in Calls, CallMicrotask(c) PROVE CallStep(c)
  BY <1>2 DEF CallMicrotask, CallStep
<1>3. ASSUME NEW r \in Requests, HandlerMicrotask(r) PROVE RequestStep(r)
  BY <1>3 DEF HandlerMicrotask, RequestStep
<1>4. ASSUME NEW p \in Procs, GateMicrotask(p) PROVE GateStep(p)
  BY <1>4 DEF GateMicrotask, GateStep
<1>5. CASE Quiet /\ Event
  BY <1>5, EndsFacts DEF Event, RequestStep, GateStep
<1> QED
  BY <1>1, <1>2, <1>3, <1>4, <1>5, SilentFacts DEF Next

-----------------------------------------------------------------------------
(* The slots                                                               *)

LEMMA NextSlots == RuntimeInv /\ [Next]_vars => SlotsCounted'
<1> SUFFICES ASSUME RuntimeInv, [Next]_vars PROVE SlotStep
  BY Parts, SlotStepCounts
<1>0. Typed /\ SlotsCounted /\ Called
  BY Parts
<1>1. CASE Ends
  BY <1>0, <1>1, TerminateFacts DEF Ends
<1>2. CASE Silent
  BY <1>2 DEF Silent, SlotStep
<1>3. ASSUME NEW c \in Calls, CallStep(c) PROVE SlotStep
  <2>1. CASE CallStart(c)
    <3>1. pc[c] = "idle" /\ c \notin slots
      BY <1>0, <2>1 DEF CallStart, Called, InGate
    <3>2. \/ UNCHANGED <<slots, active>>
          \/ active < MaxCalls /\ slots' = slots \cup {c} /\ active' = active + 1
      BY <2>1 DEF CallStart
    <3> QED
      BY <3>1, <3>2 DEF SlotStep
  <2>2. CASE CallEncodeFails(c) \/ CallAbandon(c) \/ CallCatch(c)
    BY <2>2 DEF CallEncodeFails, CallAbandon, CallCatch, SlotStep
  <2>3. CASE CallEncode(c) \/ CallSend(c) \/ CallReturn(c)
    BY <2>3 DEF CallEncode, CallSend, CallReturn, coreVars, SlotStep
  <2>4. CASE Abort(c)
    BY <2>4 DEF Abort, coreVars, SlotStep
  <2>5. CASE CallSendFails(c)
    BY <1>0, <2>5, TerminateFacts, CauseFacts DEF CallSendFails
  <2> QED
    BY <1>3, <2>1, <2>2, <2>3, <2>4, <2>5 DEF CallStep
<1>4. ASSUME NEW r \in Requests, RequestStep(r) PROVE SlotStep
  <2>1. CASE HandlerReturns(r) \/ HandlerDropped(r) \/ HandlerResult(r) \/ HandlerSend(r)
             \/ LeaseFinish(r)
    BY <2>1 DEF HandlerReturns, HandlerDropped, HandlerResult, HandlerSend, LeaseFinish, coreVars,
       SlotStep
  <2>2. CASE HandlerOverLimit(r) \/ HandlerSendFails(r)
    BY <1>0, <2>2, TerminateFacts, CauseFacts DEF HandlerOverLimit, HandlerSendFails
  <2>3. ASSUME NEW i \in WireIDs, ReceiveRequest(r, i) PROVE SlotStep
    BY <2>3 DEF ReceiveRequest, coreVars, SlotStep
  <2>4. ASSUME NEW i \in WireIDs, ReceiveRefused(r, i) PROVE SlotStep
    BY <1>0, <2>4, TerminateFacts, CauseFacts DEF ReceiveRefused
  <2> QED
    BY <1>4, <2>1, <2>2, <2>3, <2>4 DEF RequestStep
<1>5. ASSUME NEW p \in Procs, GateStep(p) PROVE SlotStep
  BY <1>5 DEF GateStep, GateFails, GateCheck, PollTimer, coreVars, SlotStep
<1>6. ASSUME NEW i \in IDs, ReceiveResponse(i) PROVE SlotStep
  BY <1>6 DEF ReceiveResponse, SlotStep
<1> QED
  BY <1>1, <1>2, <1>3, <1>4, <1>5, <1>6, StepKinds

-----------------------------------------------------------------------------
(* The frame bytes                                                         *)

\* A step that jumps from one place where frame bytes are held to another, or
\* releases or never had them.
LEMMA FramesJump ==
  ASSUME Typed, FramesHeld, FramesCounted, NEW p \in Procs, NEW label \in PCs, Goto(p, label),
         \/ frames' = frames /\ (p \in frames => label \in {"failed", "await"} \cup InGate)
         \/ frames' = frames \ {p}
         \/ frames' = frames \cup {p} /\ label \in {"failed", "await"} \cup InGate
  PROVE  FramesHeld'
<1>1. pc'[p] = label /\ \A q \in Procs : q # p => pc'[q] = pc[q]
  BY GotoFacts
<1>2. \A q \in frames : q \in Procs
  BY DEF FramesCounted
<1> QED
  BY <1>1, <1>2 DEF FramesHeld

LEMMA FramesStay ==
  ASSUME FramesHeld, UNCHANGED <<pc, frames>>
  PROVE  FramesHeld'
BY DEF FramesHeld

LEMMA NextFrames == RuntimeInv /\ [Next]_vars => FramesCounted' /\ FramesHeld'
<1> SUFFICES ASSUME RuntimeInv, [Next]_vars PROVE FrameStep /\ FramesHeld'
  BY Parts, FrameStepCounts
<1>0. Typed /\ FramesCounted /\ FramesHeld /\ Calls \subseteq Procs /\ Requests \subseteq Procs
  BY Parts, ProcFacts
<1>L. /\ {"idle", "encode", "queued", "polling", "acquired", "failed", "await", "returned",
          "unsent", "dispatch", "result", "finish", "done", "refused"} \subseteq PCs
      /\ {"queued", "polling", "acquired"} = InGate
  BY DEF PCs, CallPC, RequestPC, InGate
<1>1. CASE Ends \/ Silent \/ \E i \in IDs : ReceiveResponse(i)
  BY <1>0, <1>1, FramesStay DEF Ends, Silent, ReceiveResponse, sendVars, FrameStep
<1>3. ASSUME NEW c \in Calls, CallStep(c) PROVE FrameStep /\ FramesHeld'
  <2>1. CASE CallStart(c)
    <3>1. c \notin frames /\ frames' = frames /\ owned' = owned
          /\ \E label \in {"encode", "returned"} : Goto(c, label)
      BY <1>0, <2>1 DEF CallStart, Return, FramesHeld, InGate, sendVars
    <3> QED
      BY <1>0, <1>L, <3>1, FramesJump DEF FrameStep
  <2>2. CASE CallEncodeFails(c)
    <3>1. c \notin frames /\ frames' = frames /\ owned' = owned /\ Goto(c, "returned")
      BY <1>0, <2>2 DEF CallEncodeFails, Return, FramesHeld, InGate, sendVars
    <3> QED
      BY <1>0, <1>L, <3>1, FramesJump DEF FrameStep
  <2>3. CASE CallEncode(c)
    <3>1. c \notin frames /\ reserveFrameBytes(c) /\ Goto(c, "queued")
      BY <1>0, <2>3 DEF CallEncode, FramesHeld, InGate
    <3> QED
      BY <1>0, <1>L, <3>1, FramesJump DEF FrameStep, reserveFrameBytes
  <2>4. CASE Abort(c)
    BY <1>0, <2>4, FramesStay DEF Abort, sendVars, FrameStep
  <2>5. CASE CallAbandon(c) \/ CallSendFails(c)
    <3>1. releaseFrame(c) /\ Goto(c, "failed")
      BY <2>5 DEF CallAbandon, CallSendFails
    <3> QED
      BY <1>0, <1>L, <3>1, FramesJump DEF FrameStep, releaseFrame
  <2>6. CASE CallSend(c)
    <3>1. frames' = frames /\ owned' = owned /\ Goto(c, "await")
      BY <2>6 DEF CallSend
    <3> QED
      BY <1>0, <1>L, <3>1, FramesJump DEF FrameStep
  <2>7. CASE CallCatch(c) \/ CallReturn(c)
    <3>1. releaseFrame(c) /\ Goto(c, "returned")
      BY <2>7 DEF CallCatch, CallReturn, Return
    <3> QED
      BY <1>0, <1>L, <3>1, FramesJump DEF FrameStep, releaseFrame
  <2> QED
    BY <1>3, <2>1, <2>2, <2>3, <2>4, <2>5, <2>6, <2>7 DEF CallStep
<1>4. ASSUME NEW r \in Requests, RequestStep(r) PROVE FrameStep /\ FramesHeld'
  <2>1. CASE HandlerReturns(r) \/ HandlerDropped(r) \/ HandlerOverLimit(r) \/ LeaseFinish(r)
    <3>1. r \notin frames /\ frames' = frames /\ owned' = owned
          /\ \E label \in {"result", "finish", "done"} : Goto(r, label)
      BY <1>0, <2>1 DEF HandlerReturns, HandlerDropped, HandlerOverLimit, LeaseFinish, FramesHeld,
         InGate, sendVars
    <3> QED
      BY <1>0, <1>L, <3>1, FramesJump DEF FrameStep
  <2>2. CASE HandlerResult(r)
    <3>1. r \notin frames /\ reserveFrameBytes(r) /\ Goto(r, "queued")
      BY <1>0, <2>2 DEF HandlerResult, FramesHeld, InGate
    <3> QED
      BY <1>0, <1>L, <3>1, FramesJump DEF FrameStep, reserveFrameBytes
  <2>3. CASE HandlerSend(r) \/ HandlerSendFails(r)
    <3>1. releaseFrame(r) /\ Goto(r, "finish")
      BY <2>3 DEF HandlerSend, HandlerSendFails
    <3> QED
      BY <1>0, <1>L, <3>1, FramesJump DEF FrameStep, releaseFrame
  <2>4. ASSUME NEW i \in WireIDs, ReceiveRequest(r, i) \/ ReceiveRefused(r, i)
        PROVE  FrameStep /\ FramesHeld'
    <3>1. r \notin frames /\ frames' = frames /\ owned' = owned
          /\ \E label \in {"dispatch", "refused"} : Goto(r, label)
      BY <1>0, <2>4 DEF ReceiveRequest, ReceiveRefused, FramesHeld, InGate, sendVars
    <3> QED
      BY <1>0, <1>L, <3>1, FramesJump DEF FrameStep
  <2> QED
    BY <1>4, <2>1, <2>2, <2>3, <2>4 DEF RequestStep
<1>5. ASSUME NEW p \in Procs, GateStep(p) PROVE FrameStep /\ FramesHeld'
  <2>1. frames' = frames /\ owned' = owned
        /\ \E label \in {"failed", "acquired", "polling", "queued"} : Goto(p, label)
    BY <1>5 DEF GateStep, GateFails, GateFailed, GateCheck, PollTimer, sendVars
  <2> QED
    BY <1>0, <1>L, <2>1, FramesJump DEF FrameStep
<1> QED
  BY <1>1, <1>3, <1>4, <1>5, StepKinds

-----------------------------------------------------------------------------
(* The chain of the send gate                                              *)

\* Joining the chain.
LEMMA ChainJoined ==
  ASSUME NEW q \in Seq(Procs), NEW p \in Procs, \A n \in DOMAIN q : q[n] # p,
         \A m, n \in DOMAIN q : q[m] = q[n] => m = n
  PROVE  /\ Append(q, p) \in Seq(Procs)
         /\ \A x \in Procs : (\E n \in DOMAIN Append(q, p) : Append(q, p)[n] = x)
                               <=> x = p \/ \E n \in DOMAIN q : q[n] = x
         /\ \A m, n \in DOMAIN Append(q, p) : Append(q, p)[m] = Append(q, p)[n] => m = n
         /\ Append(q, p) # <<>> /\ (q # <<>> => Head(Append(q, p)) = Head(q))
<1> DEFINE a == Append(q, p)
<1>1. /\ a \in Seq(Procs) /\ Len(a) = Len(q) + 1 /\ Len(q) \in Nat
      /\ DOMAIN a = 1 .. Len(q) + 1 /\ DOMAIN q = 1 .. Len(q)
      /\ \A n \in 1 .. Len(q) : a[n] = q[n]
      /\ a[Len(q) + 1] = p
  OBVIOUS
<1>2. a # <<>> /\ (q # <<>> => Head(a) = Head(q))
  <2>1. a # <<>> /\ Head(a) = a[1]
    BY <1>1
  <2>2. q # <<>> => Head(q) = q[1] /\ 1 \in 1 .. Len(q)
    OBVIOUS
  <2> HIDE DEF a
  <2> QED
    BY <1>1, <2>1, <2>2
<1> HIDE DEF a
<1>3. \A x \in Procs : (\E n \in DOMAIN a : a[n] = x) <=> x = p \/ \E n \in DOMAIN q : q[n] = x
  <2> TAKE x \in Procs
  <2>1. ASSUME NEW n \in DOMAIN a, a[n] = x PROVE x = p \/ \E k \in DOMAIN q : q[k] = x
    <3>1. n = Len(q) + 1 \/ n \in DOMAIN q
      BY <1>1, <2>1
    <3> QED
      BY <1>1, <2>1, <3>1
  <2>2. ASSUME NEW k \in DOMAIN q, q[k] = x PROVE \E n \in DOMAIN a : a[n] = x
    BY <1>1, <2>2
  <2>3. Len(q) + 1 \in DOMAIN a
    BY <1>1
  <2> QED
    BY <1>1, <2>1, <2>2, <2>3
<1>4. ASSUME NEW m \in DOMAIN a, NEW n \in DOMAIN a, a[m] = a[n] PROVE m = n
  <2>1. (m = Len(q) + 1 \/ m \in DOMAIN q) /\ (n = Len(q) + 1 \/ n \in DOMAIN q)
    BY <1>1
  <2> QED
    BY <1>1, <1>4, <2>1
<1> QED
  BY <1>1, <1>2, <1>3, <1>4 DEF a

\* Leaving the chain at its head.
LEMMA ChainLeft ==
  ASSUME NEW q \in Seq(Procs), q # <<>>, \A m, n \in DOMAIN q : q[m] = q[n] => m = n
  PROVE  /\ Tail(q) \in Seq(Procs) /\ Head(q) \in Procs
         /\ \A x \in Procs : (\E n \in DOMAIN Tail(q) : Tail(q)[n] = x)
                               <=> x # Head(q) /\ \E n \in DOMAIN q : q[n] = x
         /\ \A m, n \in DOMAIN Tail(q) : Tail(q)[m] = Tail(q)[n] => m = n
<1> DEFINE a == Tail(q)
<1>1. /\ a \in Seq(Procs) /\ Len(a) = Len(q) - 1 /\ Len(q) \in Nat \ {0}
      /\ DOMAIN a = 1 .. Len(q) - 1 /\ DOMAIN q = 1 .. Len(q)
      /\ \A n \in 1 .. Len(q) - 1 : a[n] = q[n + 1]
      /\ Head(q) = q[1] /\ Head(q) \in Procs
  OBVIOUS
<1> HIDE DEF a
<1>2. ASSUME NEW x \in Procs
      PROVE  (\E n \in DOMAIN a : a[n] = x) <=> x # Head(q) /\ \E n \in DOMAIN q : q[n] = x
  <2>1. ASSUME NEW n \in DOMAIN a, a[n] = x PROVE x # Head(q) /\ \E k \in DOMAIN q : q[k] = x
    <3>1. n + 1 \in DOMAIN q /\ 1 \in DOMAIN q /\ n + 1 # 1 /\ q[n + 1] = x
      BY <1>1, <2>1
    <3> QED
      BY <1>1, <3>1
  <2>2. ASSUME NEW k \in DOMAIN q, q[k] = x, x # Head(q) PROVE \E n \in DOMAIN a : a[n] = x
    <3>1. k - 1 \in DOMAIN a /\ (k - 1) + 1 = k
      BY <1>1, <2>2
    <3> QED
      BY <1>1, <2>2, <3>1
  <2> QED
    BY <2>1, <2>2
<1>3. ASSUME NEW m \in DOMAIN a, NEW n \in DOMAIN a, a[m] = a[n] PROVE m = n
  <2>1. m + 1 \in DOMAIN q /\ n + 1 \in DOMAIN q /\ q[m + 1] = q[n + 1]
    BY <1>1, <1>3
  <2>2. m + 1 = n + 1 /\ m \in Nat /\ n \in Nat
    BY <1>1, <2>1
  <2> QED
    BY <2>2
<1> QED
  BY <1>1, <1>2, <1>3 DEF a

\* A jump that neither joins nor leaves the chain.
LEMMA ChainStays ==
  ASSUME Typed, Chained, NEW p \in Procs, NEW label \in PCs, Goto(p, label),
         queue' = queue, buffered' = buffered,
         pc[p] \in InGate <=> label \in InGate,
         label \in {"polling", "acquired"} => HasGate(p),
         label = "acquired" => buffered < MaxQueued
  PROVE  Chained'
<1>1. pc'[p] = label /\ \A x \in Procs : x # p => pc'[x] = pc[x]
  BY GotoFacts
<1>2. GateInv'
  BY <1>1 DEF Chained, GateInv, HasGate
<1>3. \A x \in Procs : (\E n \in DOMAIN queue : queue[n] = x) <=> pc'[x] \in InGate
  BY <1>1 DEF Chained
<1> QED
  BY <1>2, <1>3 DEF Chained

LEMMA ChainQuiet ==
  ASSUME Chained, Typed, UNCHANGED <<queue, pc>>, buffered' \in Int, buffered' <= buffered
  PROVE  Chained'
<1>1. GateInv'
  BY QueuedAssumption DEF Chained, GateInv, HasGate, Typed
<1> QED
  BY <1>1 DEF Chained

LEMMA ChainJoin ==
  ASSUME Typed, Chained, NEW p \in Procs, pc[p] \notin InGate, Goto(p, "queued"),
         queue' = Append(queue, p), buffered' = buffered
  PROVE  Chained'
<1>0. "queued" \in PCs /\ "queued" \in InGate
  BY DEF PCs, CallPC, InGate
<1>1. pc'[p] = "queued" /\ \A x \in Procs : x # p => pc'[x] = pc[x]
  BY <1>0, GotoFacts
<1>2. \A n \in DOMAIN queue : queue[n] # p
  BY DEF Chained
<1>3. /\ queue \in Seq(Procs)
      /\ \A m, n \in DOMAIN queue : queue[m] = queue[n] => m = n
  BY DEF Chained, GateInv
<1>4. /\ queue' \in Seq(Procs)
      /\ \A x \in Procs : (\E n \in DOMAIN queue' : queue'[n] = x)
                            <=> x = p \/ \E n \in DOMAIN queue : queue[n] = x
      /\ \A m, n \in DOMAIN queue' : queue'[m] = queue'[n] => m = n
      /\ queue' # <<>> /\ (queue # <<>> => Head(queue') = Head(queue))
  BY <1>2, <1>3, ChainJoined
<1>5. \A x \in Procs : (\E n \in DOMAIN queue' : queue'[n] = x) <=> pc'[x] \in InGate
  BY <1>0, <1>1, <1>4 DEF Chained
<1>6. \A x \in Procs : /\ pc'[x] \in {"polling", "acquired"} => HasGate(x)'
                       /\ pc'[x] = "acquired" => buffered' < MaxQueued
  BY <1>1, <1>4 DEF Chained, GateInv, HasGate
<1> QED
  BY <1>4, <1>5, <1>6 DEF Chained, GateInv

\* The holder of the gate leaves: nobody else polls or is admitted.
LEMMA ChainLeave ==
  ASSUME Typed, Chained, NEW p \in Procs, HasGate(p), NEW label \in PCs \ InGate, Goto(p, label),
         releaseSend(p)
  PROVE  Chained'
<1>1. pc'[p] = label /\ \A x \in Procs : x # p => pc'[x] = pc[x]
  BY GotoFacts
<1>2. queue' = Tail(queue) /\ queue # <<>> /\ Head(queue) = p
  BY DEF releaseSend, HasGate
<1>3. /\ queue \in Seq(Procs)
      /\ \A m, n \in DOMAIN queue : queue[m] = queue[n] => m = n
  BY DEF Chained, GateInv
<1>4. /\ queue' \in Seq(Procs)
      /\ \A x \in Procs : (\E n \in DOMAIN queue' : queue'[n] = x)
                            <=> x # p /\ \E n \in DOMAIN queue : queue[n] = x
      /\ \A m, n \in DOMAIN queue' : queue'[m] = queue'[n] => m = n
  BY <1>2, <1>3, ChainLeft
<1>5. \A x \in Procs : (\E n \in DOMAIN queue' : queue'[n] = x) <=> pc'[x] \in InGate
  BY <1>1, <1>4 DEF Chained
<1>6. \A x \in Procs : pc'[x] \notin {"polling", "acquired"}
  BY <1>1, <1>2 DEF Chained, GateInv, HasGate, InGate
<1> QED
  BY <1>4, <1>5, <1>6 DEF Chained, GateInv

LEMMA NextChained == RuntimeInv /\ [Next]_vars => Chained'
<1> SUFFICES ASSUME RuntimeInv, [Next]_vars PROVE Chained'
  OBVIOUS
<1>0. Typed /\ Chained /\ Calls \subseteq Procs /\ Requests \subseteq Procs
  BY Parts, ProcFacts
<1>L. /\ {"idle", "encode", "queued", "polling", "acquired", "failed", "await", "returned",
          "unsent", "dispatch", "result", "finish", "done", "refused"} \subseteq PCs
      /\ InGate = {"queued", "polling", "acquired"}
  BY DEF PCs, CallPC, RequestPC, InGate
<1>b. buffered \in Nat
  BY <1>0, QueuedAssumption DEF Typed
<1>g. \A p \in Procs : pc[p] = "acquired" => HasGate(p)
  BY <1>0 DEF Chained, GateInv
<1>1. CASE Ends \/ \E i \in IDs : ReceiveResponse(i)
  <2>1. UNCHANGED <<queue, pc, buffered>>
    BY <1>1 DEF Ends, ReceiveResponse, sendVars
  <2>2. buffered' \in Int /\ buffered' <= buffered
    BY <1>b, <2>1
  <2> QED
    BY <1>0, <2>1, <2>2, ChainQuiet
<1>2. CASE Silent
  <2>1. UNCHANGED <<queue, pc>> /\ (buffered' = buffered \/ buffered' = buffered - 1)
    BY <1>2 DEF Silent, sendVars
  <2>2. buffered' \in Int /\ buffered' <= buffered
    BY <1>b, <2>1
  <2> QED
    BY <1>0, <2>1, <2>2, ChainQuiet
<1>3. ASSUME NEW c \in Calls, CallStep(c) PROVE Chained'
  <2>1. CASE CallStart(c) \/ CallEncodeFails(c)
    <3>1. /\ pc[c] \in {"idle", "encode"} /\ UNCHANGED <<queue, buffered>>
          /\ \E label \in {"encode", "returned"} : Goto(c, label)
      BY <2>1 DEF CallStart, CallEncodeFails, Return, sendVars
    <3> QED
      BY <1>0, <1>L, <3>1, ChainStays
  <2>2. CASE CallEncode(c)
    BY <1>0, <1>L, <2>2, ChainJoin DEF CallEncode
  <2>3. CASE Abort(c)
    BY <1>0, <2>3, <1>b, ChainQuiet DEF Abort, sendVars
  <2>4. CASE CallAbandon(c) \/ CallSendFails(c)
    <3>1. HasGate(c) /\ releaseSend(c) /\ Goto(c, "failed")
      BY <1>0, <1>g, <2>4 DEF CallAbandon, CallSendFails
    <3> QED
      BY <1>0, <1>L, <3>1, ChainLeave
  <2>5. CASE CallSend(c)
    <3>1. HasGate(c) /\ releaseSend(c) /\ Goto(c, "await")
      BY <1>0, <1>g, <2>5 DEF CallSend
    <3> QED
      BY <1>0, <1>L, <3>1, ChainLeave
  <2>6. CASE CallCatch(c) \/ CallReturn(c)
    <3>1. /\ pc[c] \in {"failed", "await"} /\ UNCHANGED <<queue, buffered>>
          /\ Goto(c, "returned")
      BY <2>6 DEF CallCatch, CallReturn, Return
    <3> QED
      BY <1>0, <1>L, <3>1, ChainStays
  <2> QED
    BY <1>3, <2>1, <2>2, <2>3, <2>4, <2>5, <2>6 DEF CallStep
<1>4. ASSUME NEW r \in Requests, RequestStep(r) PROVE Chained'
  <2>1. CASE HandlerReturns(r) \/ HandlerDropped(r) \/ HandlerOverLimit(r) \/ LeaseFinish(r)
    <3>1. /\ pc[r] \in {"dispatch", "result", "finish"} /\ UNCHANGED <<queue, buffered>>
          /\ \E label \in {"result", "finish", "done"} : Goto(r, label)
      BY <2>1 DEF HandlerReturns, HandlerDropped, HandlerOverLimit, LeaseFinish, sendVars
    <3> QED
      BY <1>0, <1>L, <3>1, ChainStays
  <2>2. CASE HandlerResult(r)
    BY <1>0, <1>L, <2>2, ChainJoin DEF HandlerResult
  <2>3. CASE pc[r] = "acquired" /\ (HandlerSend(r) \/ HandlerSendFails(r))
    <3>1. HasGate(r) /\ releaseSend(r) /\ Goto(r, "finish")
      BY <1>0, <1>g, <2>3 DEF HandlerSend, HandlerSendFails
    <3> QED
      BY <1>0, <1>L, <3>1, ChainLeave
  <2>4. CASE pc[r] = "failed" /\ HandlerSendFails(r)
    <3>1. ~HasGate(r)
      <4>1. ASSUME HasGate(r) PROVE \E n \in DOMAIN queue : queue[n] = r
        <5>1. queue \in Seq(Procs) /\ queue # <<>> /\ Head(queue) = r
          BY <1>0, <4>1 DEF Chained, HasGate
        <5>2. 1 \in DOMAIN queue /\ queue[1] = r
          BY <5>1
        <5> QED
          BY <5>2
      <4> QED
        BY <1>0, <1>L, <2>4, <4>1 DEF Chained
    <3>2. UNCHANGED <<queue, buffered>> /\ Goto(r, "finish")
      BY <2>4, <3>1 DEF HandlerSendFails, releaseSend
    <3> QED
      BY <1>0, <1>L, <2>4, <3>2, ChainStays
  <2>5. ASSUME NEW i \in WireIDs, ReceiveRequest(r, i) \/ ReceiveRefused(r, i) PROVE Chained'
    <3>1. /\ pc[r] = "unsent" /\ UNCHANGED <<queue, buffered>>
          /\ \E label \in {"dispatch", "refused"} : Goto(r, label)
      BY <2>5 DEF ReceiveRequest, ReceiveRefused, sendVars
    <3> QED
      BY <1>0, <1>L, <3>1, ChainStays
  <2>6. HandlerSend(r) \/ HandlerSendFails(r) => pc[r] \in {"acquired", "failed"}
    BY DEF HandlerSend, HandlerSendFails
  <2>7. HandlerSend(r) => pc[r] = "acquired"
    BY DEF HandlerSend
  <2> QED
    BY <1>4, <2>1, <2>2, <2>3, <2>4, <2>5, <2>6, <2>7 DEF RequestStep
<1>5. ASSUME NEW p \in Procs, GateStep(p) PROVE Chained'
  <2>1. CASE GateFails(p)
    <3>1. HasGate(p) /\ releaseSend(p) /\ Goto(p, "failed")
      BY <2>1 DEF GateFails, GateFailed
    <3> QED
      BY <1>0, <1>L, <3>1, ChainLeave
  <2>2. CASE GateCheck(p)
    <3>1. /\ pc[p] = "queued" /\ HasGate(p) /\ UNCHANGED <<queue, buffered>>
          /\ \/ Goto(p, "polling")
             \/ Goto(p, "acquired") /\ buffered + 1 <= MaxQueued
      BY <2>2 DEF GateCheck, sendVars
    <3>2. buffered + 1 <= MaxQueued => buffered < MaxQueued
      BY <1>b, QueuedAssumption
    <3> QED
      BY <1>0, <1>L, <3>1, <3>2, ChainStays
  <2>3. CASE PollTimer(p)
    BY <1>0, <1>L, <2>3, ChainStays DEF PollTimer, sendVars
  <2> QED
    BY <1>5, <2>1, <2>2, <2>3 DEF GateStep
<1> QED
  BY <1>1, <1>2, <1>3, <1>4, <1>5, StepKinds

-----------------------------------------------------------------------------
(* The calls                                                               *)

\* What Called says of one call.
CallOK(c) ==
  /\ InPending(c) <=> pc[c] = "await" /\ result[c] = "nil"
  /\ c \in slots => pc[c] \in {"encode", "failed"} \cup InGate \/ InPending(c)
  /\ pc[c] \in CallPC
  /\ pc[c] \in {"idle", "encode"} \cup InGate => result[c] = "nil"
  /\ pc[c] = "failed" => result[c] \in LocalErrors \/ (cause # "nil" /\ result[c] = cause)
  /\ pc[c] = "await" => \/ result[c] \in {"nil", "ok", "callCtx.Err"}
                        \/ cause # "nil" /\ result[c] = cause

\* What it says of the maps.
MapsOK ==
  /\ pending \in [IDs -> Calls \cup {None}] /\ pending = resolver
  /\ result \in [Calls -> Results \cup {"nil"}]
  /\ \A i, k \in IDs : pending[i] # None /\ pending[i] = pending[k] => i = k
  /\ \A i \in IDs : pending[i] # None => i < nextID

LEMMA CalledParts == SlotsCounted => (Called <=> MapsOK /\ \A c \in Calls : CallOK(c))
BY DEF Called, PendingInv, MapsOK, CallOK, SlotsCounted

LEMMA CalledAgain ==
  ASSUME SlotsCounted', MapsOK', \A c \in Calls : CallOK(c)'
  PROVE  Called'
<1>1. \A c \in Calls : /\ InPending(c)' <=> pc'[c] = "await" /\ result'[c] = "nil"
                       /\ c \in slots' => \/ pc'[c] \in {"encode", "failed"} \cup InGate
                                          \/ InPending(c)'
  BY DEF CallOK
<1>2. slots' \subseteq Calls
  BY DEF SlotsCounted
<1>3. PendingInv'
  BY DEF PendingInv, MapsOK, CallOK
<1> QED
  BY <1>1, <1>2, <1>3 DEF Called, MapsOK

\* A call that a step does not concern.
LEMMA CallKept ==
  ASSUME NEW c \in Calls, CallOK(c), pc'[c] = pc[c], result'[c] = result[c],
         cause' = cause \/ cause = "nil", InPending(c)' <=> InPending(c),
         c \in slots' => c \in slots
  PROVE  CallOK(c)'
BY DEF CallOK

\* A step that settles no pending call: the maps stay, and one call may move
\* on or be settled on its own.
LEMMA CallMoves ==
  ASSUME Typed, SlotsCounted, Called, NEW c \in Calls, NEW label \in CallPC, Goto(c, label),
         UNCHANGED <<cause, pending, resolver, nextID>>,
         result' \in [Calls -> Results \cup {"nil"}],
         \A d \in Calls : d # c => result'[d] = result[d] /\ (d \in slots' => d \in slots),
         ~InPending(c), SlotsCounted',
         c \in slots' => label \in {"encode", "failed"} \cup InGate,
         label \in {"idle", "encode"} \cup InGate => result'[c] = "nil",
         label = "failed" => result'[c] \in LocalErrors \/ (cause # "nil" /\ result'[c] = cause),
         label # "await"
  PROVE  Called'
<1>1. label \in PCs /\ Calls \subseteq Procs
  BY ProcFacts DEF PCs
<1>2. pc'[c] = label /\ \A d \in Calls : d # c => pc'[d] = pc[d]
  BY <1>1, GotoFacts
<1>3. MapsOK /\ \A d \in Calls : CallOK(d)
  BY CalledParts
<1>4. MapsOK'
  BY <1>3 DEF MapsOK
<1>5. \A d \in Calls : InPending(d)' <=> InPending(d)
  BY DEF InPending
<1>6. ASSUME NEW d \in Calls, d # c PROVE CallOK(d)'
  BY <1>2, <1>3, <1>5, <1>6, CallKept
<1>7. CallOK(c)'
  BY <1>2, <1>5 DEF CallOK
<1> QED
  BY <1>4, <1>6, <1>7, CalledAgain

\* Steps that concern no call at all.
LEMMA CallsQuiet ==
  ASSUME SlotsCounted, Called, UNCHANGED <<cause, pending, resolver, result, slots, nextID>>,
         \A c \in Calls : pc'[c] = pc[c], SlotsCounted'
  PROVE  Called'
<1>1. MapsOK /\ \A d \in Calls : CallOK(d)
  BY CalledParts
<1>2. MapsOK'
  BY <1>1 DEF MapsOK
<1>3. \A d \in Calls : InPending(d)' <=> InPending(d)
  BY DEF InPending
<1>4. \A d \in Calls : CallOK(d)'
  BY <1>1, <1>3, CallKept
<1> QED
  BY <1>2, <1>4, CalledAgain

\* The end of the connection settles every pending call with the cause.
LEMMA CallsEnded ==
  ASSUME Typed, SlotsCounted, Called, SlotsCounted', NEW e \in Causes, terminate(e, {}),
         nextID' = nextID, \A c \in Calls : pc'[c] = pc[c]
  PROVE  Called'
<1>0. {} \in SUBSET Calls
  OBVIOUS
<1>1. CASE cause # "nil"
  <2>1. UNCHANGED coreVars
    BY <1>0, <1>1, TerminateFacts
  <2> QED
    BY <2>1, CallsQuiet DEF coreVars
<1>2. CASE cause = "nil"
  <2>1. /\ cause' = e /\ pending' = NoEntry /\ resolver' = NoEntry
        /\ result' \in [Calls -> Results \cup {"nil"}]
        /\ \A c \in Calls : /\ InPending(c) => result'[c] = e
                            /\ ~InPending(c) => result'[c] = result[c]
        /\ \A c \in slots' : c \in slots /\ ~InPending(c)
    <3>1. PICK more \in SUBSET Calls : more = {} /\ terminate(e, more)
      BY <1>0
    <3>2. /\ cause' = e /\ pending' = NoEntry /\ resolver' = NoEntry
          /\ result' \in [Calls -> Results \cup {"nil"}]
          /\ \A c \in Calls : /\ InPending(c) \/ c \in more => result'[c] = e
                              /\ ~InPending(c) /\ c \notin more => result'[c] = result[c]
          /\ \A c \in slots' : c \in slots /\ ~InPending(c) /\ c \notin more
      BY <1>2, <3>1, TerminateFacts
    <3> QED
      BY <3>1, <3>2
  <2>2. MapsOK'
    BY <2>1 DEF MapsOK, NoEntry
  <2>3. e # "nil" /\ \A c \in Calls : ~InPending(c)'
    BY <2>1, ProcFacts DEF InPending, NoEntry, Causes
  <2>4. \A c \in Calls : CallOK(c)
    BY CalledParts
  <2>5. ASSUME NEW c \in Calls PROVE CallOK(c)'
    <3>1. CASE InPending(c)
      <4>1. pc'[c] = "await" /\ result'[c] = e /\ c \notin slots'
        BY <2>1, <2>4, <3>1 DEF CallOK
      <4> QED
        BY <2>1, <2>3, <4>1 DEF CallOK, CallPC, InGate
    <3>2. CASE ~InPending(c)
      BY <1>2, <2>1, <2>3, <2>4, <3>2 DEF CallOK
    <3> QED
      BY <3>1, <3>2
  <2> QED
    BY <2>2, <2>5, CalledAgain
<1> QED
  BY <1>1, <1>2

\* One pending call is settled: answered, or retired by its signal.
LEMMA CallSettled ==
  ASSUME Typed, SlotsCounted, Called, SlotsCounted', NEW c \in Calls, NEW i \in IDs,
         pending[i] = c,
         \A k \in IDs : pending'[k] = IF k = i THEN None ELSE pending[k],
         pending' \in [IDs -> Calls \cup {None}], resolver' = pending',
         NEW res \in {"ok", "callCtx.Err"}, Settle(c, res), releaseSlots({c}),
         UNCHANGED <<cause, nextID, pc>>
  PROVE  Called'
<1>1. MapsOK /\ \A d \in Calls : CallOK(d)
  BY CalledParts
<1>2. /\ result' \in [Calls -> Results \cup {"nil"}] /\ result'[c] = res
      /\ \A d \in Calls : d # c => result'[d] = result[d]
  BY DEF Settle, Called, Results, LocalErrors
<1>3. MapsOK'
  BY <1>1, <1>2 DEF MapsOK
<1>4. InPending(c) /\ ~InPending(c)'
  BY <1>1, ProcFacts DEF MapsOK, InPending
<1>5. ASSUME NEW d \in Calls, d # c PROVE CallOK(d)'
  <2>1. InPending(d)' <=> InPending(d)
    BY <1>5, ProcFacts DEF InPending
  <2> QED
    BY <1>1, <1>2, <1>5, <2>1, CallKept DEF releaseSlots
<1>6. CallOK(c)'
  <2>1. pc'[c] = "await" /\ c \notin slots'
    BY <1>1, <1>4 DEF CallOK, releaseSlots
  <2> QED
    BY <1>2, <1>4, <2>1 DEF CallOK, CallPC, InGate
<1> QED
  BY <1>3, <1>5, <1>6, CalledAgain

\* What the checks of a call throw is a local error or the terminal cause.
LEMMA NotReadyFacts ==
  ASSUME Typed, NEW c \in Calls
  PROVE  /\ NotReady # "nil" => NotReady \in LocalErrors \/ (cause # "nil" /\ NotReady = cause)
         /\ AbortedOrNotReady(c) # "nil" => \/ AbortedOrNotReady(c) \in LocalErrors
                                            \/ cause # "nil" /\ AbortedOrNotReady(c) = cause
         /\ NotReady = "nil" => cause = "nil"
         /\ AbortedOrNotReady(c) = "nil" => cause = "nil" /\ NotReady = "nil" /\ c \notin aborted
         /\ {NotReady, AbortedOrNotReady(c)} \subseteq Results \cup {"nil"}
BY DEF Typed, NotReady, AbortedOrNotReady, LocalErrors, Results

\* Send: the call is registered under a new ID.
LEMMA CallSent ==
  ASSUME Typed, SlotsCounted, Called, SlotsCounted', NEW c \in Calls, CallSend(c)
  PROVE  Called'
<1>1. MapsOK /\ \A d \in Calls : CallOK(d)
  BY CalledParts
<1>2. /\ nextID \in IDs /\ nextID' = nextID + 1 /\ pc[c] = "acquired"
      /\ pending' = [pending EXCEPT ![nextID] = c] /\ resolver' = [resolver EXCEPT ![nextID] = c]
      /\ UNCHANGED <<cause, slots, result>> /\ Goto(c, "await")
  BY ProcFacts DEF CallSend, Typed, IDs
<1>3. pc'[c] = "await" /\ \A d \in Calls : d # c => pc'[d] = pc[d]
  BY <1>2, GotoFacts, ProcFacts DEF PCs, CallPC
<1>4. /\ pending' \in [IDs -> Calls \cup {None}] /\ pending' = resolver' /\ pending'[nextID] = c
      /\ \A k \in IDs : k # nextID => pending'[k] = pending[k]
      /\ pending[nextID] = None
  BY <1>1, <1>2, ProcFacts DEF MapsOK
<1>5. ~InPending(c) /\ result[c] = "nil"
  BY <1>1, <1>2 DEF CallOK, InGate
<1>6. MapsOK'
  <2>1. \A i \in IDs : pending'[i] # None => i < nextID'
    BY <1>1, <1>2, <1>4, ProcFacts DEF MapsOK
  <2>2. \A i, k \in IDs : pending'[i] # None /\ pending'[i] = pending'[k] => i = k
    BY <1>1, <1>4, <1>5 DEF MapsOK, InPending
  <2> QED
    BY <1>1, <1>2, <1>4, <2>1, <2>2 DEF MapsOK
<1>7. ASSUME NEW d \in Calls, d # c PROVE CallOK(d)'
  <2>1. InPending(d)' <=> InPending(d)
    BY <1>2, <1>4, <1>7, ProcFacts DEF InPending
  <2> QED
    BY <1>1, <1>2, <1>3, <1>7, <2>1, CallKept
<1>8. CallOK(c)'
  <2>1. InPending(c)'
    BY <1>2, <1>4 DEF InPending
  <2> QED
    BY <1>2, <1>3, <1>5, <2>1 DEF CallOK, CallPC, InGate
<1> QED
  BY <1>6, <1>7, <1>8, CalledAgain

\* A send that throws ends the connection and fails the call just registered.
LEMMA CallSentFails ==
  ASSUME Typed, SlotsCounted, Called, SlotsCounted', NEW c \in Calls, CallSendFails(c)
  PROVE  Called'
<1>1. MapsOK /\ \A d \in Calls : CallOK(d)
  BY CalledParts
<1>2. /\ cause = "nil" /\ nextID' = nextID + 1 /\ pc[c] = "acquired"
      /\ terminate("ErrSend", {c}) /\ Goto(c, "failed") /\ "ErrSend" \in Causes
  BY NotReadyFacts DEF CallSendFails, Causes
<1>3. PICK more \in SUBSET Calls : more = {c} /\ terminate("ErrSend", more)
  BY <1>2
<1>4. /\ cause' = "ErrSend" /\ pending' = NoEntry /\ resolver' = NoEntry
      /\ result' \in [Calls -> Results \cup {"nil"}]
      /\ \A d \in Calls : /\ InPending(d) \/ d \in more => result'[d] = "ErrSend"
                          /\ ~InPending(d) /\ d \notin more => result'[d] = result[d]
      /\ \A d \in slots' : d \in slots /\ ~InPending(d) /\ d \notin more
  BY <1>2, <1>3, TerminateFacts
<1>5. pc'[c] = "failed" /\ \A d \in Calls : d # c => pc'[d] = pc[d]
  BY <1>2, GotoFacts, ProcFacts DEF PCs, CallPC
<1>6. \A d \in Calls : ~InPending(d)'
  BY <1>4, ProcFacts DEF InPending, NoEntry
<1>7. MapsOK'
  BY <1>4 DEF MapsOK, NoEntry
<1>8. ASSUME NEW d \in Calls PROVE CallOK(d)'
  <2>1. CASE d = c
    BY <1>3, <1>4, <1>5, <1>6, <2>1 DEF CallOK, CallPC, InGate
  <2>2. CASE d # c /\ InPending(d)
    <3>1. pc'[d] = "await" /\ result'[d] = "ErrSend" /\ d \notin slots'
      BY <1>1, <1>4, <1>5, <2>2 DEF CallOK
    <3> QED
      BY <1>4, <1>6, <3>1 DEF CallOK, CallPC, InGate
  <2>3. CASE d # c /\ ~InPending(d)
    BY <1>1, <1>2, <1>3, <1>4, <1>5, <1>6, <2>3 DEF CallOK
  <2> QED
    BY <2>1, <2>2, <2>3
<1> QED
  BY <1>7, <1>8, CalledAgain

LEMMA NextCalled == RuntimeInv /\ [Next]_vars => Called'
<1> SUFFICES ASSUME RuntimeInv, [Next]_vars PROVE Called'
  OBVIOUS
<1>0. Typed /\ SlotsCounted /\ Called /\ SlotsCounted'
  BY Parts, NextSlots
<1>1. MapsOK /\ \A d \in Calls : CallOK(d)
  BY <1>0, CalledParts
<1>L. /\ {"encode", "queued", "polling", "acquired", "failed", "returned"} \subseteq CallPC
      /\ InGate = {"queued", "polling", "acquired"} /\ CallPC \subseteq PCs /\ RequestPC \subseteq PCs
  BY DEF CallPC, InGate, PCs
<1>p. \A c \in Calls : pc[c] # "await" => ~InPending(c)
  BY <1>1 DEF CallOK
<1>q. ASSUME NEW r \in Requests, NEW label \in PCs, Goto(r, label)
      PROVE  \A c \in Calls : pc'[c] = pc[c]
  BY <1>0, <1>q, GotoFacts, ProcFacts
<1>2. CASE Ends
  BY <1>0, <1>2, CallsEnded DEF Ends
<1>3. CASE Silent
  BY <1>0, <1>3, CallsQuiet DEF Silent
<1>4. ASSUME NEW c \in Calls, CallStep(c) PROVE Called'
  <2>1. CASE CallStart(c)
    <3>1. /\ pc[c] = "idle" /\ result[c] = "nil" /\ c \notin slots /\ ~InPending(c)
          /\ UNCHANGED <<cause, pending, resolver, nextID, result>>
      BY <1>1, <1>p, <2>1, <1>L DEF CallStart, CallOK
    <3>2. \/ Goto(c, "returned") /\ slots' = slots
          \/ Goto(c, "encode") /\ slots' = slots \cup {c}
      BY <2>1 DEF CallStart, Return
    <3>3. result \in [Calls -> Results \cup {"nil"}]
      BY <1>0 DEF Called
    <3>4. CASE Goto(c, "returned") /\ slots' = slots
      BY <1>0, <1>L, <3>1, <3>3, <3>4, CallMoves
    <3>5. CASE Goto(c, "encode") /\ slots' = slots \cup {c}
      BY <1>0, <1>L, <3>1, <3>3, <3>5, CallMoves
    <3> QED
      BY <3>2, <3>4, <3>5
  <2>2. CASE CallEncodeFails(c) \/ CallCatch(c)
    <3>1. /\ pc[c] \in {"encode", "failed"} /\ ~InPending(c) /\ c \notin slots'
          /\ slots' \subseteq slots
          /\ UNCHANGED <<cause, pending, resolver, nextID, result>> /\ Goto(c, "returned")
      BY <1>p, <2>2 DEF CallEncodeFails, CallCatch, Return, releaseSlots
    <3>2. result \in [Calls -> Results \cup {"nil"}]
      BY <1>0 DEF Called
    <3> QED
      BY <1>0, <1>L, <3>1, <3>2, CallMoves
  <2>3. CASE CallEncode(c)
    <3>1. /\ pc[c] = "encode" /\ ~InPending(c) /\ result[c] = "nil" /\ slots' = slots
          /\ UNCHANGED <<cause, pending, resolver, nextID, result>> /\ Goto(c, "queued")
      BY <1>1, <1>p, <2>3 DEF CallEncode, coreVars, CallOK
    <3>2. result \in [Calls -> Results \cup {"nil"}]
      BY <1>0 DEF Called
    <3> QED
      BY <1>0, <1>L, <3>1, <3>2, CallMoves
  <2>4. CASE CallAbandon(c)
    <3>1. /\ pc[c] = "acquired" /\ ~InPending(c) /\ c \notin slots' /\ slots' \subseteq slots
          /\ UNCHANGED <<cause, pending, resolver, nextID>> /\ Goto(c, "failed")
      BY <1>p, <2>4 DEF CallAbandon, releaseSlots
    <3>2. PICK e \in Results : /\ Settle(c, e)
                               /\ e \in LocalErrors \/ (cause # "nil" /\ e = cause)
      <4>1. CASE AbortedOrNotReady(c) # "nil" /\ Settle(c, AbortedOrNotReady(c))
        BY <1>0, <4>1, NotReadyFacts
      <4>2. CASE Settle(c, "ErrRequestIDsExhausted")
        BY <4>2 DEF Results, LocalErrors
      <4> QED
        BY <2>4, <4>1, <4>2 DEF CallAbandon
    <3>3. /\ result' \in [Calls -> Results \cup {"nil"}] /\ result'[c] = e
          /\ \A d \in Calls : d # c => result'[d] = result[d]
      BY <1>0, <3>2 DEF Called, Settle
    <3> QED
      BY <1>0, <1>L, <3>1, <3>2, <3>3, CallMoves
  <2>5. CASE CallSend(c)
    BY <1>0, <2>5, CallSent
  <2>6. CASE CallSendFails(c)
    BY <1>0, <2>6, CallSentFails
  <2>7. CASE CallReturn(c)
    <3>1. /\ pc[c] = "await" /\ ~InPending(c) /\ c \notin slots /\ slots' = slots
          /\ UNCHANGED <<cause, pending, resolver, nextID, result>> /\ Goto(c, "returned")
      BY <1>1, <1>L, <2>7 DEF CallReturn, Return, coreVars, CallOK
    <3>2. result \in [Calls -> Results \cup {"nil"}]
      BY <1>0 DEF Called
    <3> QED
      BY <1>0, <1>L, <3>1, <3>2, CallMoves
  <2>8. CASE Abort(c)
    <3>1. CASE InPending(c)
      <4>1. PICK i \in IDs : pending[i] = c
        BY <3>1 DEF InPending
      <4>2. {k \in IDs : pending[k] = c} = {i}
        BY <1>1, <4>1, ProcFacts DEF MapsOK
      <4>3. /\ pending' = [k \in IDs |-> IF k \in {i} THEN None ELSE pending[k]]
            /\ resolver' = [k \in IDs |-> IF k \in {i} THEN None ELSE resolver[k]]
            /\ Settle(c, "callCtx.Err") /\ releaseSlots({c})
            /\ UNCHANGED <<cause, nextID, pc>>
        BY <2>8, <4>2 DEF Abort
      <4>4. /\ pending' \in [IDs -> Calls \cup {None}] /\ resolver' = pending'
            /\ \A k \in IDs : pending'[k] = IF k = i THEN None ELSE pending[k]
        BY <1>1, <4>3 DEF MapsOK
      <4> QED
        BY <1>0, <4>1, <4>3, <4>4, CallSettled
    <3>2. CASE ~InPending(c)
      <4>1. UNCHANGED coreVars /\ UNCHANGED <<nextID, pc>>
        BY <2>8, <3>2 DEF Abort, InPending
      <4> QED
        BY <1>0, <4>1, CallsQuiet DEF coreVars
    <3> QED
      BY <3>1, <3>2
  <2> QED
    BY <1>4, <2>1, <2>2, <2>3, <2>4, <2>5, <2>6, <2>7, <2>8 DEF CallStep
<1>5. ASSUME NEW r \in Requests, RequestStep(r) PROVE Called'
  <2>0. {"result", "finish", "done", "queued", "dispatch", "refused"} \subseteq PCs
    BY DEF PCs, RequestPC
  <2>1. CASE HandlerReturns(r) \/ HandlerDropped(r) \/ HandlerResult(r) \/ HandlerSend(r)
             \/ LeaseFinish(r)
    <3>1. /\ UNCHANGED <<cause, pending, resolver, result, slots, nextID>>
          /\ \E label \in PCs : Goto(r, label)
      BY <2>0, <2>1 DEF HandlerReturns, HandlerDropped, HandlerResult, HandlerSend, LeaseFinish,
         coreVars
    <3> QED
      BY <1>0, <1>q, <3>1, CallsQuiet
  <2>2. CASE HandlerOverLimit(r) \/ HandlerSendFails(r)
    <3>1. /\ terminate("ErrSend", {}) /\ nextID' = nextID /\ Goto(r, "finish")
      BY <2>2 DEF HandlerOverLimit, HandlerSendFails
    <3> QED
      BY <1>0, <1>q, <2>0, <3>1, CallsEnded, CauseFacts
  <2>3. ASSUME NEW i \in WireIDs, ReceiveRequest(r, i) PROVE Called'
    <3>1. UNCHANGED <<cause, pending, resolver, result, slots, nextID>> /\ Goto(r, "dispatch")
      BY <2>3 DEF ReceiveRequest, coreVars
    <3> QED
      BY <1>0, <1>q, <2>0, <3>1, CallsQuiet
  <2>4. ASSUME NEW i \in WireIDs, ReceiveRefused(r, i) PROVE Called'
    <3>1. /\ terminate("ErrDuplicate", {}) \/ terminate("ErrFrame", {})
          /\ nextID' = nextID /\ Goto(r, "refused")
      BY <2>4 DEF ReceiveRefused
    <3> QED
      BY <1>0, <1>q, <2>0, <3>1, CallsEnded, CauseFacts
  <2> QED
    BY <1>5, <2>1, <2>2, <2>3, <2>4 DEF RequestStep
<1>6. ASSUME NEW p \in Procs, GateStep(p) PROVE Called'
  <2>1. CASE GateFails(p)
    <3>1. /\ pc[p] \in InGate /\ UNCHANGED <<cause, pending, resolver, slots, nextID>>
          /\ Goto(p, "failed")
      BY <1>L, <2>1 DEF GateFails, GateFailed
    <3>2. CASE p \in Calls
      <4>1. PICK e \in Results : /\ Settle(p, e)
                                 /\ e \in LocalErrors \/ (cause # "nil" /\ e = cause)
        BY <1>0, <2>1, <3>2 DEF GateFails, GateFailed, Typed, Results, LocalErrors
      <4>2. /\ result' \in [Calls -> Results \cup {"nil"}] /\ result'[p] = e
            /\ \A d \in Calls : d # p => result'[d] = result[d]
        BY <1>0, <3>2, <4>1 DEF Called, Settle
      <4>3. ~InPending(p)
        BY <1>p, <1>L, <3>1, <3>2
      <4> QED
        BY <1>0, <1>L, <3>1, <3>2, <4>1, <4>2, <4>3, CallMoves
    <3>3. CASE p \notin Calls
      <4>1. p \in Requests /\ result' = result
        BY <2>1, <3>3 DEF GateFails, GateFailed, Procs
      <4> QED
        BY <1>0, <1>L, <1>q, <3>1, <4>1, CallsQuiet
    <3> QED
      BY <3>2, <3>3
  <2>2. CASE GateCheck(p) \/ PollTimer(p)
    <3>1. /\ pc[p] \in InGate
          /\ UNCHANGED <<cause, pending, resolver, result, slots, nextID>>
          /\ \E label \in InGate : Goto(p, label)
      BY <1>L, <2>2 DEF GateCheck, PollTimer, coreVars
    <3>2. CASE p \in Calls
      <4>1. ~InPending(p) /\ result[p] = "nil" /\ result \in [Calls -> Results \cup {"nil"}]
        BY <1>1, <1>p, <1>L, <3>1, <3>2 DEF CallOK, MapsOK
      <4> QED
        BY <1>0, <1>L, <3>1, <3>2, <4>1, CallMoves
    <3>3. CASE p \notin Calls
      BY <1>0, <1>L, <1>q, <3>1, <3>3, CallsQuiet DEF Procs
    <3> QED
      BY <3>2, <3>3
  <2> QED
    BY <1>6, <2>1, <2>2 DEF GateStep
<1>7. ASSUME NEW i \in IDs, ReceiveResponse(i) PROVE Called'
  <2>1. PICK c \in Calls : c = pending[i] /\ c = resolver[i]
    BY <1>1, <1>7 DEF ReceiveResponse, MapsOK
  <2>2. /\ pending' = [pending EXCEPT ![i] = None] /\ resolver' = [resolver EXCEPT ![i] = None]
        /\ Settle(c, "ok") /\ releaseSlots({c}) /\ UNCHANGED <<cause, nextID, pc>>
    BY <1>7, <2>1 DEF ReceiveResponse
  <2>3. /\ pending' \in [IDs -> Calls \cup {None}] /\ resolver' = pending'
        /\ \A k \in IDs : pending'[k] = IF k = i THEN None ELSE pending[k]
    BY <1>1, <2>2 DEF MapsOK
  <2> QED
    BY <1>0, <2>1, <2>2, <2>3, CallSettled
<1> QED
  BY <1>2, <1>3, <1>4, <1>5, <1>6, <1>7, StepKinds

-----------------------------------------------------------------------------
(* The incoming requests                                                   *)

Incoming == HandlersCounted /\ RequestInv

\* Steps that concern no request.
LEMMA RequestsQuiet ==
  ASSUME Incoming, \A r \in Requests : pc'[r] = pc[r] /\ (r \in sent' => r \in sent),
         UNCHANGED inVars
  PROVE  Incoming'
<1>1. \A r \in Requests : Live(r)' <=> Live(r)
  BY DEF Live
<1>2. LiveRequests' = LiveRequests
  BY <1>1 DEF LiveRequests
<1>3. HandlersCounted'
  BY <1>2 DEF Incoming, HandlersCounted, inVars
<1>4. RequestInv'
  BY <1>1 DEF Incoming, RequestInv, inVars
<1> QED
  BY <1>3, <1>4 DEF Incoming

\* A handler moves on and stays alive.
LEMMA RequestMoves ==
  ASSUME Typed, Incoming, NEW r \in Requests, NEW label \in RequestPC, Goto(r, label), Live(r),
         label \notin {"unsent", "done", "refused"}, UNCHANGED inVars,
         \/ sent' = sent /\ (r \in sent => label = "finish")
         \/ sent' = sent \cup {r} /\ label = "finish"
  PROVE  Incoming'
<1>1. pc'[r] = label /\ \A q \in Requests : q # r => pc'[q] = pc[q]
  BY GotoFacts, ProcFacts DEF PCs
<1>2. \A q \in Requests : Live(q)' <=> Live(q)
  BY <1>1 DEF Live
<1>3. LiveRequests' = LiveRequests
  BY <1>2 DEF LiveRequests
<1>4. HandlersCounted'
  BY <1>3 DEF Incoming, HandlersCounted, inVars
<1>5. RequestInv'
  BY <1>1, <1>2 DEF Incoming, RequestInv, inVars
<1> QED
  BY <1>4, <1>5 DEF Incoming

LEMMA NextIncoming == RuntimeInv /\ [Next]_vars => Incoming'
<1> SUFFICES ASSUME RuntimeInv, [Next]_vars PROVE Incoming'
  OBVIOUS
<1>0. Typed /\ Incoming /\ Called
  BY Parts DEF Incoming
<1>L. /\ {"idle", "encode", "queued", "polling", "acquired", "failed", "await", "returned"}
           \subseteq PCs
      /\ {"unsent", "dispatch", "result", "queued", "polling", "acquired", "failed", "finish",
          "done", "refused"} = RequestPC
      /\ RequestPC \subseteq PCs
  BY DEF PCs, CallPC, RequestPC
<1>c. ASSUME NEW c \in Calls, NEW label \in PCs, Goto(c, label)
      PROVE  \A r \in Requests : pc'[r] = pc[r]
  BY <1>0, <1>c, GotoFacts, ProcFacts
<1>h. handlers \in Nat /\ MaxHandlers \in Nat
  BY <1>0, FS_CardinalityType, ProcFacts DEF Incoming, HandlersCounted
<1>1. CASE Ends \/ Silent \/ \E i \in IDs : ReceiveResponse(i)
  <2>1. UNCHANGED <<pc, inVars, sent>>
    BY <1>1 DEF Ends, Silent, ReceiveResponse
  <2> QED
    BY <1>0, <2>1, RequestsQuiet
<1>2. ASSUME NEW c \in Calls, CallStep(c) PROVE Incoming'
  <2>1. UNCHANGED inVars /\ (sent' = sent \/ sent' = sent \cup {c})
    <3>1. CASE CallStart(c) \/ CallEncodeFails(c) \/ CallEncode(c) \/ Abort(c)
      BY <3>1 DEF CallStart, CallEncodeFails, CallEncode, Abort
    <3>2. CASE CallAbandon(c) \/ CallSend(c) \/ CallSendFails(c)
      BY <3>2 DEF CallAbandon, CallSend, CallSendFails
    <3>3. CASE CallCatch(c) \/ CallReturn(c)
      BY <3>3 DEF CallCatch, CallReturn
    <3> QED
      BY <1>2, <3>1, <3>2, <3>3 DEF CallStep
  <2>2. pc' = pc \/ \E label \in PCs : Goto(c, label)
    <3>1. CASE CallStart(c) \/ CallEncodeFails(c) \/ CallEncode(c) \/ Abort(c)
      BY <1>L, <3>1 DEF CallStart, CallEncodeFails, CallEncode, Abort, Return
    <3>2. CASE CallAbandon(c) \/ CallSend(c) \/ CallSendFails(c)
      BY <1>L, <3>2 DEF CallAbandon, CallSend, CallSendFails
    <3>3. CASE CallCatch(c) \/ CallReturn(c)
      BY <1>L, <3>3 DEF CallCatch, CallReturn, Return
    <3> QED
      BY <1>2, <3>1, <3>2, <3>3 DEF CallStep
  <2>3. \A r \in Requests : pc'[r] = pc[r] /\ (r \in sent' => r \in sent)
    BY <1>c, <2>1, <2>2, ProcFacts
  <2> QED
    BY <1>0, <2>1, <2>3, RequestsQuiet
<1>3. ASSUME NEW p \in Procs, GateStep(p) PROVE Incoming'
  <2>1. /\ UNCHANGED <<inVars, sent>> /\ pc[p] \in InGate
        /\ \E label \in {"failed", "queued", "polling", "acquired"} : Goto(p, label)
    BY <1>3 DEF GateStep, GateFails, GateFailed, GateCheck, PollTimer, InGate
  <2>2. CASE p \in Calls
    <3>1. \A r \in Requests : pc'[r] = pc[r]
      BY <1>L, <1>c, <2>1, <2>2
    <3> QED
      BY <1>0, <2>1, <3>1, RequestsQuiet
  <2>3. CASE p \in Requests
    <3>1. Live(p) /\ p \notin sent
      BY <1>0, <2>1, <2>3 DEF Live, InGate, Incoming, RequestInv
    <3> QED
      BY <1>0, <1>L, <2>1, <2>3, <3>1, RequestMoves
  <2> QED
    BY <2>2, <2>3 DEF Procs
<1>4. ASSUME NEW r \in Requests, RequestStep(r) PROVE Incoming'
  <2>1. CASE HandlerReturns(r) \/ HandlerDropped(r) \/ HandlerResult(r)
    <3>1. /\ UNCHANGED <<inVars, sent>> /\ pc[r] \in {"dispatch", "result"}
          /\ \E label \in {"result", "finish", "queued"} : Goto(r, label)
      BY <2>1 DEF HandlerReturns, HandlerDropped, HandlerResult
    <3>2. Live(r) /\ r \notin sent
      BY <1>0, <3>1 DEF Live, Incoming, RequestInv
    <3> QED
      BY <1>0, <1>L, <3>1, <3>2, RequestMoves
  <2>2. CASE HandlerOverLimit(r) \/ HandlerSend(r) \/ HandlerSendFails(r)
    <3>1. /\ UNCHANGED inVars /\ (sent' = sent \/ sent' = sent \cup {r})
          /\ pc[r] \in {"result", "acquired", "failed"} /\ Goto(r, "finish")
      BY <2>2 DEF HandlerOverLimit, HandlerSend, HandlerSendFails
    <3>2. Live(r)
      BY <3>1 DEF Live
    <3> QED
      BY <1>0, <1>L, <3>1, <3>2, RequestMoves
  <2>3. CASE LeaseFinish(r)
    <3>1. /\ pc[r] = "finish" /\ Goto(r, "done") /\ UNCHANGED <<reqID, sent>>
          /\ activeIDs' = activeIDs \ {reqID[r]} /\ handlers' = handlers - 1
      BY <2>3 DEF LeaseFinish
    <3>2. pc'[r] = "done" /\ \A q \in Requests : q # r => pc'[q] = pc[q]
      BY <1>0, <1>L, <3>1, GotoFacts, ProcFacts
    <3>3. Live(r) /\ ~Live(r)' /\ \A q \in Requests : q # r => (Live(q)' <=> Live(q))
      BY <3>1, <3>2 DEF Live
    <3>4. LiveRequests' = LiveRequests \ {r} /\ r \in LiveRequests
      BY <3>3 DEF LiveRequests
    <3>5. IsFiniteSet(LiveRequests') /\ Cardinality(LiveRequests') = Cardinality(LiveRequests) - 1
      BY <1>0, <3>4, FS_RemoveElement DEF Incoming, HandlersCounted
    <3>6. HandlersCounted'
      BY <1>0, <1>h, <3>1, <3>5 DEF Incoming, HandlersCounted
    <3>7. RequestInv'
      BY <1>0, <1>L, <3>1, <3>2, <3>3 DEF Incoming, RequestInv
    <3> QED
      BY <3>6, <3>7 DEF Incoming
  <2>4. ASSUME NEW i \in WireIDs, ReceiveRequest(r, i) PROVE Incoming'
    <3>1. /\ pc[r] = "unsent" /\ Goto(r, "dispatch") /\ sent' = sent /\ handlers < MaxHandlers
          /\ reqID' = [reqID EXCEPT ![r] = i]
          /\ activeIDs' = activeIDs \cup {i} /\ handlers' = handlers + 1
      BY <2>4 DEF ReceiveRequest
    <3>2. pc'[r] = "dispatch" /\ \A q \in Requests : q # r => pc'[q] = pc[q]
      BY <1>0, <1>L, <3>1, GotoFacts, ProcFacts
    <3>3. Live(r)' /\ ~Live(r) /\ \A q \in Requests : q # r => (Live(q)' <=> Live(q))
      BY <3>1, <3>2 DEF Live
    <3>4. LiveRequests' = LiveRequests \cup {r} /\ r \notin LiveRequests
      BY <3>3 DEF LiveRequests
    <3>5. IsFiniteSet(LiveRequests') /\ Cardinality(LiveRequests') = Cardinality(LiveRequests) + 1
      BY <1>0, <3>4, CountAdded DEF Incoming, HandlersCounted
    <3>6. HandlersCounted'
      BY <1>0, <1>h, <3>1, <3>5 DEF Incoming, HandlersCounted
    <3>7. reqID'[r] = i /\ \A q \in Requests : q # r => reqID'[q] = reqID[q]
      BY <1>0, <3>1 DEF Typed
    <3>8. RequestInv'
      BY <1>0, <1>L, <3>1, <3>2, <3>3, <3>7 DEF Incoming, RequestInv
    <3> QED
      BY <3>6, <3>8 DEF Incoming
  <2>5. ASSUME NEW i \in WireIDs, ReceiveRefused(r, i) PROVE Incoming'
    <3>1. /\ pc[r] = "unsent" /\ Goto(r, "refused") /\ UNCHANGED <<sent, activeIDs, handlers>>
          /\ reqID' = [reqID EXCEPT ![r] = i]
      BY <2>5 DEF ReceiveRefused
    <3>2. pc'[r] = "refused" /\ \A q \in Requests : q # r => pc'[q] = pc[q]
      BY <1>0, <1>L, <3>1, GotoFacts, ProcFacts
    <3>3. ~Live(r)' /\ ~Live(r) /\ \A q \in Requests : q # r => (Live(q)' <=> Live(q))
      BY <3>1, <3>2 DEF Live
    <3>4. LiveRequests' = LiveRequests
      BY <3>3 DEF LiveRequests
    <3>5. HandlersCounted'
      BY <1>0, <3>1, <3>4 DEF Incoming, HandlersCounted
    <3>6. \A q \in Requests : q # r => reqID'[q] = reqID[q]
      BY <1>0, <3>1 DEF Typed
    <3>7. RequestInv'
      BY <1>0, <1>L, <3>1, <3>2, <3>3, <3>6 DEF Incoming, RequestInv
    <3> QED
      BY <3>5, <3>7 DEF Incoming
  <2> QED
    BY <1>4, <2>1, <2>2, <2>3, <2>4, <2>5 DEF RequestStep
<1> QED
  BY <1>1, <1>2, <1>3, <1>4, StepKinds

-----------------------------------------------------------------------------
(* Types                                                                   *)

\* terminate keeps the types.
LEMMA TerminateTypes ==
  ASSUME Typed, NEW e \in Causes, NEW more, terminate(e, more)
  PROVE  cause' \in Causes \cup {"nil"} /\ open' \in BOOLEAN
<1>1. (cause' = cause /\ open' = open) \/ (cause' = e /\ open' = FALSE)
  BY DEF terminate, coreVars
<1> QED
  BY <1>1 DEF Typed

\* A jump that leaves the rest of the types alone.
LEMMA JumpTypes ==
  ASSUME Typed, NEW p \in Procs, NEW label \in PCs, Goto(p, label),
         cause' \in Causes \cup {"nil"} /\ open' \in BOOLEAN,
         ret' \in [Calls -> Results \cup {"nil"}], nextID' \in 0 .. MaxID + 1,
         aborted' \subseteq Calls, sent' \subseteq Procs, buffered' \in 0 .. MaxQueued,
         reqID' \in [Requests -> WireIDs \cup {None}], activeIDs' \subseteq WireIDs
  PROVE  Typed'
<1>1. pc' \in [Procs -> PCs]
  BY GotoFacts
<1> QED
  BY <1>1 DEF Typed

LEMMA NextTyped == RuntimeInv /\ [Next]_vars => Typed'
<1> SUFFICES ASSUME RuntimeInv, [Next]_vars PROVE Typed'
  OBVIOUS
<1>0. Typed /\ Called /\ Chained /\ Calls \subseteq Procs /\ Requests \subseteq Procs
  BY Parts, ProcFacts
<1>T. /\ cause \in Causes \cup {"nil"} /\ open \in BOOLEAN
      /\ ret \in [Calls -> Results \cup {"nil"}] /\ nextID \in 0 .. MaxID + 1
      /\ aborted \subseteq Calls /\ sent \subseteq Procs /\ buffered \in 0 .. MaxQueued
      /\ reqID \in [Requests -> WireIDs \cup {None}] /\ activeIDs \subseteq WireIDs
  BY <1>0 DEF Typed
<1>L. {"idle", "encode", "queued", "polling", "acquired", "failed", "await", "returned",
       "unsent", "dispatch", "result", "finish", "done", "refused"} \subseteq PCs
  BY DEF PCs, CallPC, RequestPC
<1>a. ASSUME NEW p \in Procs, pc[p] = "acquired" PROVE buffered + 1 \in 0 .. MaxQueued
  <2>1. buffered < MaxQueued
    BY <1>0, <1>a DEF Chained, GateInv
  <2> QED
    BY <1>T, <2>1, QueuedAssumption
<1>n. nextID <= MaxID => nextID + 1 \in 0 .. MaxID + 1
  BY <1>T, ProcFacts
<1>1. CASE Ends
  <2>1. cause' \in Causes \cup {"nil"} /\ open' \in BOOLEAN
    BY <1>0, <1>1, TerminateTypes DEF Ends
  <2> QED
    BY <1>0, <1>1, <2>1 DEF Ends, inVars, Typed
<1>2. CASE Silent
  <2>1. open' \in BOOLEAN
    BY <1>2, <1>T DEF Silent
  <2>2. buffered' \in 0 .. MaxQueued
    BY <1>2, <1>T, QueuedAssumption DEF Silent
  <2> QED
    BY <1>0, <1>2, <2>1, <2>2 DEF Silent, inVars, Typed
<1>3. ASSUME NEW c \in Calls, CallStep(c) PROVE Typed'
  <2>0. c \in Procs
    BY <1>0
  <2>1. CASE CallStart(c) \/ CallEncodeFails(c)
    <3>1. /\ UNCHANGED <<cause, open, nextID, aborted, sent, buffered, inVars>>
          /\ \/ Goto(c, "encode") /\ ret' = ret
             \/ \E e \in {"ErrArgument", "ErrEncode", "callCtx.Err", "ErrResourceLimit", NotReady} :
                  Return(c, e)
      BY <2>1 DEF CallStart, CallEncodeFails
    <3>2. {"ErrArgument", "ErrEncode", "callCtx.Err", "ErrResourceLimit", NotReady}
            \subseteq Results \cup {"nil"}
      BY <1>0, NotReadyFacts DEF Results, LocalErrors
    <3>3. /\ ret' \in [Calls -> Results \cup {"nil"}]
          /\ \E label \in PCs : Goto(c, label)
      BY <1>L, <1>T, <3>1, <3>2 DEF Return
    <3> QED
      BY <1>0, <1>T, <2>0, <3>1, <3>3, JumpTypes DEF inVars
  <2>2. CASE CallEncode(c) \/ CallAbandon(c)
    <3>1. /\ UNCHANGED <<cause, open, ret, nextID, aborted, sent, buffered, inVars>>
          /\ \E label \in PCs : Goto(c, label)
      BY <1>L, <2>2 DEF CallEncode, CallAbandon, coreVars
    <3> QED
      BY <1>0, <1>T, <2>0, <3>1, JumpTypes DEF inVars
  <2>3. CASE CallSend(c)
    <3>1. /\ UNCHANGED <<cause, open, ret, aborted, inVars>> /\ Goto(c, "await")
          /\ nextID' = nextID + 1 /\ nextID <= MaxID /\ sent' = sent \cup {c}
          /\ buffered' = buffered + 1 /\ pc[c] = "acquired"
      BY <2>3 DEF CallSend
    <3>2. /\ nextID' \in 0 .. MaxID + 1 /\ buffered' \in 0 .. MaxQueued /\ sent' \subseteq Procs
      BY <1>a, <1>n, <1>T, <2>0, <3>1
    <3> QED
      BY <1>0, <1>L, <1>T, <2>0, <3>1, <3>2, JumpTypes DEF inVars
  <2>4. CASE CallSendFails(c)
    <3>1. /\ UNCHANGED <<ret, aborted, sent, buffered, inVars>> /\ Goto(c, "failed")
          /\ nextID' = nextID + 1 /\ nextID <= MaxID /\ terminate("ErrSend", {c})
      BY <2>4 DEF CallSendFails
    <3>2. cause' \in Causes \cup {"nil"} /\ open' \in BOOLEAN
      BY <1>0, <3>1, TerminateTypes, CauseFacts
    <3>3. nextID' \in 0 .. MaxID + 1
      BY <1>n, <3>1
    <3> QED
      BY <1>0, <1>L, <1>T, <2>0, <3>1, <3>2, <3>3, JumpTypes DEF inVars
  <2>5. CASE CallCatch(c) \/ CallReturn(c)
    <3>1. /\ UNCHANGED <<cause, open, nextID, aborted, sent, buffered, inVars>>
          /\ Return(c, result[c])
      BY <2>5 DEF CallCatch, CallReturn, coreVars
    <3>2. ret' \in [Calls -> Results \cup {"nil"}]
      BY <1>0, <1>T, <3>1 DEF Return, Called
    <3> QED
      BY <1>0, <1>L, <1>T, <2>0, <3>1, <3>2, JumpTypes DEF Return, inVars
  <2>6. CASE Abort(c)
    <3>1. /\ UNCHANGED <<cause, open, pc, ret, nextID, sent, buffered, inVars>>
          /\ aborted' = aborted \cup {c}
      BY <2>6 DEF Abort, coreVars
    <3> QED
      BY <1>0, <3>1 DEF Typed, inVars
  <2> QED
    BY <1>3, <2>1, <2>2, <2>3, <2>4, <2>5, <2>6 DEF CallStep
<1>4. ASSUME NEW r \in Requests, RequestStep(r) PROVE Typed'
  <2>0. r \in Procs
    BY <1>0
  <2>1. CASE HandlerReturns(r) \/ HandlerDropped(r) \/ HandlerResult(r)
    <3>1. /\ UNCHANGED <<cause, open, ret, nextID, aborted, sent, buffered, inVars>>
          /\ \E label \in PCs : Goto(r, label)
      BY <1>L, <2>1 DEF HandlerReturns, HandlerDropped, HandlerResult, coreVars
    <3> QED
      BY <1>0, <1>T, <2>0, <3>1, JumpTypes DEF inVars
  <2>2. CASE HandlerOverLimit(r) \/ HandlerSendFails(r)
    <3>1. /\ UNCHANGED <<ret, nextID, aborted, sent, buffered, inVars>>
          /\ Goto(r, "finish") /\ terminate("ErrSend", {})
      BY <2>2 DEF HandlerOverLimit, HandlerSendFails
    <3>2. cause' \in Causes \cup {"nil"} /\ open' \in BOOLEAN
      BY <1>0, <3>1, TerminateTypes, CauseFacts
    <3> QED
      BY <1>0, <1>L, <1>T, <2>0, <3>1, <3>2, JumpTypes DEF inVars
  <2>3. CASE HandlerSend(r)
    <3>1. /\ UNCHANGED <<cause, open, ret, nextID, aborted, inVars>> /\ Goto(r, "finish")
          /\ sent' = sent \cup {r} /\ buffered' = buffered + 1 /\ pc[r] = "acquired"
      BY <2>3 DEF HandlerSend, coreVars
    <3>2. buffered' \in 0 .. MaxQueued /\ sent' \subseteq Procs
      BY <1>a, <1>T, <2>0, <3>1
    <3> QED
      BY <1>0, <1>L, <1>T, <2>0, <3>1, <3>2, JumpTypes DEF inVars
  <2>4. CASE LeaseFinish(r)
    <3>1. /\ UNCHANGED <<cause, open, ret, nextID, aborted, sent, buffered, reqID>>
          /\ Goto(r, "done") /\ activeIDs' \subseteq activeIDs
      BY <2>4 DEF LeaseFinish, coreVars
    <3> QED
      BY <1>0, <1>L, <1>T, <2>0, <3>1, JumpTypes
  <2>5. ASSUME NEW i \in WireIDs, ReceiveRequest(r, i) PROVE Typed'
    <3>1. /\ UNCHANGED <<cause, open, ret, nextID, aborted, sent, buffered>>
          /\ Goto(r, "dispatch") /\ activeIDs' = activeIDs \cup {i}
          /\ reqID' = [reqID EXCEPT ![r] = i]
      BY <2>5 DEF ReceiveRequest, coreVars
    <3>2. reqID' \in [Requests -> WireIDs \cup {None}] /\ activeIDs' \subseteq WireIDs
      BY <1>T, <3>1
    <3> QED
      BY <1>0, <1>L, <1>T, <2>0, <3>1, <3>2, JumpTypes
  <2>6. ASSUME NEW i \in WireIDs, ReceiveRefused(r, i) PROVE Typed'
    <3>1. /\ UNCHANGED <<ret, nextID, aborted, sent, buffered, activeIDs>>
          /\ Goto(r, "refused") /\ reqID' = [reqID EXCEPT ![r] = i]
          /\ terminate("ErrDuplicate", {}) \/ terminate("ErrFrame", {})
      BY <2>6 DEF ReceiveRefused
    <3>2. reqID' \in [Requests -> WireIDs \cup {None}]
      BY <1>T, <3>1
    <3>3. cause' \in Causes \cup {"nil"} /\ open' \in BOOLEAN
      BY <1>0, <3>1, TerminateTypes, CauseFacts
    <3> QED
      BY <1>0, <1>L, <1>T, <2>0, <3>1, <3>2, <3>3, JumpTypes
  <2> QED
    BY <1>4, <2>1, <2>2, <2>3, <2>4, <2>5, <2>6 DEF RequestStep
<1>5. ASSUME NEW p \in Procs, GateStep(p) PROVE Typed'
  <2>1. /\ UNCHANGED <<cause, open, ret, nextID, aborted, sent, buffered, inVars>>
        /\ \E label \in PCs : Goto(p, label)
    BY <1>5, <1>L DEF GateStep, GateFails, GateFailed, GateCheck, PollTimer, coreVars
  <2> QED
    BY <1>0, <1>T, <2>1, JumpTypes DEF inVars
<1>6. ASSUME NEW i \in IDs, ReceiveResponse(i) PROVE Typed'
  BY <1>0, <1>6 DEF ReceiveResponse, inVars, Typed
<1> QED
  BY <1>1, <1>2, <1>3, <1>4, <1>5, <1>6, StepKinds

-----------------------------------------------------------------------------
(* The invariant                                                           *)

LEMMA InitRuntime == Init => RuntimeInv
<1> SUFFICES ASSUME Init PROVE RuntimeInv
  OBVIOUS
<1>p. /\ \A c \in Calls : pc[c] = "idle"
      /\ \A r \in Requests : pc[r] = "unsent"
      /\ pc \in [Procs -> PCs]
  BY ProcFacts DEF Init, PCs, CallPC, RequestPC
<1>1. Typed
  <2>1. cause \in Causes \cup {"nil"} /\ nextID \in 0 .. MaxID + 1 /\ buffered \in 0 .. MaxQueued
    BY ProcFacts DEF Init, IDs
  <2>2. open \in BOOLEAN
    BY DEF Init
  <2>3. /\ ret \in [Calls -> Results \cup {"nil"}] /\ reqID \in [Requests -> WireIDs \cup {None}]
        /\ aborted \subseteq Calls /\ sent \subseteq Procs /\ activeIDs \subseteq WireIDs
    BY DEF Init
  <2> QED
    BY <1>p, <2>1, <2>2, <2>3 DEF Typed
<1>2. SlotsCounted /\ FramesCounted
  BY FS_EmptySet, ProcFacts DEF Init, SlotsCounted, FramesCounted
<1>3. HandlersCounted
  <2>1. LiveRequests = {}
    BY <1>p DEF LiveRequests, Live
  <2> QED
    BY <2>1, FS_EmptySet, ProcFacts DEF Init, HandlersCounted
<1>4. FramesHeld /\ RequestInv
  BY <1>p DEF Init, FramesHeld, RequestInv, RequestPC
<1>5. Chained
  <2>1. queue = <<>> /\ queue \in Seq(Procs) /\ DOMAIN queue = {}
    BY DEF Init
  <2>2. \A p \in Procs : pc[p] \notin InGate
    BY <1>p DEF Procs, InGate
  <2> QED
    BY <2>1, <2>2 DEF Chained, GateInv, InGate
<1>6. Called
  <2>1. \A i \in IDs : pending[i] = None
    BY DEF Init, NoEntry
  <2>2. \A c \in Calls : ~InPending(c) /\ result[c] = "nil"
    BY <2>1, ProcFacts DEF Init, InPending
  <2>3. /\ pending \in [IDs -> Calls \cup {None}] /\ pending = resolver
        /\ result \in [Calls -> Results \cup {"nil"}] /\ slots = {}
    BY DEF Init, NoEntry
  <2> QED
    BY <1>p, <2>1, <2>2, <2>3 DEF Called, PendingInv, InGate, CallPC
<1> QED
  BY <1>1, <1>2, <1>3, <1>4, <1>5, <1>6, Parts

\* RuntimeInv holds in every reachable state.
THEOREM RuntimeCorrect == Spec => []RuntimeInv
<1>1. RuntimeInv /\ [Next]_vars => /\ Typed' /\ SlotsCounted' /\ FramesCounted' /\ HandlersCounted'
                                   /\ FramesHeld' /\ Chained' /\ Called' /\ RequestInv'
  BY NextTyped, NextSlots, NextFrames, NextIncoming, NextChained, NextCalled DEF Incoming
<1> QED
  BY <1>1, InitRuntime, Parts, PTL DEF Spec

\* Whatever order calls, aborts, handler results, messages and the end of the
\* connection come in, no slot, frame byte, pending entry or place in the send
\* gate's chain outlives its call or request, and every counter is exact.
THEOREM LeaksNothing == Spec => []NothingLeaks
<1>1. RuntimeInv => NothingLeaks
  BY DEF RuntimeInv
<1> QED
  BY <1>1, RuntimeCorrect, PTL

\* A peer that reuses an ID only after the response is never refused as a
\* duplicate: when a message event runs, every handler whose response was sent
\* has released its ID.
THEOREM DuplicateIsReal == Spec => ConformingNeverDuplicate
<1> DEFINE P == \A r \in Requests :
                  pc[r] # "refused" /\ pc'[r] = "refused" /\ cause' = "ErrDuplicate" =>
                    \E q \in Requests \ {r} : reqID[q] = reqID'[r] /\ q \notin sent
<1>1. ASSUME RuntimeInv, Next PROVE P
  <2> SUFFICES ASSUME NEW r \in Requests, pc[r] # "refused", pc'[r] = "refused",
                      cause' = "ErrDuplicate"
               PROVE  \E q \in Requests \ {r} : reqID[q] = reqID'[r] /\ q \notin sent
    OBVIOUS
  <2>0. Typed /\ RequestInv /\ Called /\ SlotsCounted
    BY <1>1, Parts
  <2>p. pc \in [Procs -> PCs] /\ r \in Procs
    BY <2>0, ProcFacts DEF Typed
  <2>1. ASSUME NEW x \in Requests, NEW i \in WireIDs, Quiet, ReceiveRefused(x, i)
        PROVE  \E q \in Requests \ {r} : reqID[q] = reqID'[r] /\ q \notin sent
    <3>1. x = r /\ pc[r] = "unsent" /\ cause = "nil"
      BY <2>1, <2>p, ProcFacts DEF ReceiveRefused, Goto
    <3>2. i \in activeIDs
      <4>1. terminate("ErrFrame", {}) => cause' = "ErrFrame"
        BY <3>1 DEF terminate
      <4> QED
        BY <2>1, <4>1 DEF ReceiveRefused
    <3>3. PICK q \in Requests : Live(q) /\ reqID[q] = i
      BY <2>0, <3>2 DEF RequestInv
    <3>4. q # r
      BY <3>1, <3>3 DEF Live
    <3>5. pc[q] \notin {"finish", "done"}
      BY <2>1, <3>3, ProcFacts DEF Quiet, Live
    <3>6. q \notin sent
      BY <2>0, <3>5 DEF RequestInv
    <3>7. reqID'[r] = i
      BY <2>0, <2>1, <3>1 DEF ReceiveRefused, Typed
    <3> QED
      BY <3>3, <3>4, <3>6, <3>7
  <2>2. CASE Ends \/ Silent \/ \E i \in IDs : ReceiveResponse(i)
    BY <2>2 DEF Ends, Silent, ReceiveResponse
  <2>3. ASSUME NEW c \in Calls, CallStep(c) PROVE pc'[r] # "refused"
    <3>1. CASE CallStart(c) \/ CallEncodeFails(c) \/ CallEncode(c) \/ Abort(c)
      BY <2>p, <3>1, ProcFacts DEF CallStart, CallEncodeFails, CallEncode, Abort, Return, Goto
    <3>2. CASE CallAbandon(c) \/ CallSend(c) \/ CallSendFails(c)
      BY <2>p, <3>2, ProcFacts DEF CallAbandon, CallSend, CallSendFails, Goto
    <3>3. CASE CallCatch(c) \/ CallReturn(c)
      BY <2>p, <3>3, ProcFacts DEF CallCatch, CallReturn, Return, Goto
    <3> QED
      BY <2>3, <3>1, <3>2, <3>3 DEF CallStep
  <2>4. ASSUME NEW p \in Procs, GateStep(p) PROVE pc'[r] # "refused"
    BY <2>4, <2>p DEF GateStep, GateFails, GateFailed, GateCheck, PollTimer, Goto
  <2>5. ASSUME NEW x \in Requests, RequestStep(x),
               \A i \in WireIDs : ~(Quiet /\ ReceiveRefused(x, i))
        PROVE  pc'[r] # "refused"
    <3>1. CASE HandlerReturns(x) \/ HandlerDropped(x) \/ HandlerResult(x) \/ HandlerOverLimit(x)
      BY <2>p, <3>1 DEF HandlerReturns, HandlerDropped, HandlerResult, HandlerOverLimit, Goto
    <3>2. CASE HandlerSend(x) \/ HandlerSendFails(x) \/ LeaseFinish(x)
      BY <2>p, <3>2 DEF HandlerSend, HandlerSendFails, LeaseFinish, Goto
    <3>3. ASSUME NEW i \in WireIDs, ReceiveRequest(x, i) PROVE pc'[r] # "refused"
      BY <2>p, <3>3 DEF ReceiveRequest, Goto
    <3> QED
      BY <2>5, <3>1, <3>2, <3>3 DEF RequestStep
  <2> QED
    BY <1>1, <2>1, <2>2, <2>3, <2>4, <2>5, StepKinds
<1>2. RuntimeInv /\ [Next]_vars => [P]_vars
  BY <1>1
<1> HIDE DEF P
<1>3. Spec => [][P]_vars
  BY <1>2, RuntimeCorrect, PTL DEF Spec
<1> QED
  BY <1>3 DEF ConformingNeverDuplicate, P

-----------------------------------------------------------------------------
(* The contract of a call                                                  *)

\* Nothing of a call that the contract shows has changed.
SameCall(d) ==
  /\ pc'[d] \in {"await", "returned"} \/ pc[d] \in {"await", "returned"} => pc'[d] = pc[d]
  /\ result'[d] = result[d] /\ ret'[d] = ret[d] /\ (InPending(d)' <=> InPending(d))

LEMMA SeenKept ==
  ASSUME NEW d \in Calls, SameCall(d)
  PROVE  status'[d] = status[d] /\ settled'[d] = settled[d]
BY DEF SameCall, status, settled

LEMMA Invisible ==
  ASSUME cause' = cause,
         \A d \in Calls : status'[d] = status[d] /\ settled'[d] = settled[d]
  PROVE  UNCHANGED Contract!cvars
<1>1. status' = status /\ settled' = settled
  BY DEF status, settled
<1> QED
  BY <1>1 DEF Contract!cvars

\* One call changes what it shows.
LEMMA SeenChanged ==
  ASSUME NEW c \in Calls, \A d \in Calls \ {c} : SameCall(d), NEW s, status'[c] = s
  PROVE  /\ status' = [status EXCEPT ![c] = s]
         /\ settled' = [settled EXCEPT ![c] = settled'[c]]
<1>1. \A d \in Calls \ {c} : status'[d] = status[d] /\ settled'[d] = settled[d]
  BY SeenKept
<1>2. status' = [status EXCEPT ![c] = s]
  <2>1. /\ status' = [d \in Calls |-> status'[d]]
        /\ [status EXCEPT ![c] = s] = [d \in Calls |-> IF d = c THEN s ELSE status[d]]
    BY DEF status
  <2> QED
    BY <1>1, <2>1
<1>3. settled' = [settled EXCEPT ![c] = settled'[c]]
  <2>1. /\ settled' = [d \in Calls |-> settled'[d]]
        /\ [settled EXCEPT ![c] = settled'[c]]
             = [d \in Calls |-> IF d = c THEN settled'[c] ELSE settled[d]]
    BY DEF settled
  <2> QED
    BY <1>1, <2>1
<1> QED
  BY <1>2, <1>3

\* A call that never got an ID settles with a local error or the cause: at
\* once when it was aborted, otherwise when catch and finally have run.
LEMMA SeenRefused ==
  ASSUME NEW c \in Calls, \A d \in Calls \ {c} : SameCall(d), cause' = cause,
         ~InPending(c), ~InPending(c)', pc[c] \notin {"await", "returned"},
         result[c] # "callCtx.Err", pc'[c] # "await",
         \/ /\ pc'[c] = "returned" /\ result'[c] = result[c]
            /\ ret'[c] \in LocalErrors \/ (cause # "nil" /\ ret'[c] = cause)
         \/ pc'[c] # "returned" /\ ret'[c] = ret[c]
  PROVE  Contract!Next \/ UNCHANGED Contract!cvars
<1>1. status[c] = "idle"
  BY DEF status
<1>2. CASE pc'[c] = "returned" \/ result'[c] = "callCtx.Err"
  <2>1. status'[c] = "returned"
    BY <1>2 DEF status
  <2>2. settled'[c] \in LocalErrors \/ (cause # "nil" /\ settled'[c] = cause)
    BY <1>2 DEF settled, LocalErrors
  <2>3. Contract!Return(c, settled'[c])
    BY <2>1, SeenChanged DEF Contract!Return
  <2>4. Contract!Refuse(c)
    BY <1>1, <2>2, <2>3 DEF Contract!Refuse
  <2> QED
    BY <2>4 DEF Contract!Next
<1>3. CASE ~(pc'[c] = "returned" \/ result'[c] = "callCtx.Err")
  <2>1. status'[c] = "idle" /\ settled'[c] = settled[c]
    BY <1>3 DEF status, settled
  <2> QED
    BY <1>1, <2>1, SeenKept, Invisible
<1> QED
  BY <1>2, <1>3

\* Steps that the contract does not show.
LEMMA SeenNothing ==
  ASSUME cause' = cause, \A d \in Calls : SameCall(d)
  PROVE  UNCHANGED Contract!cvars
BY SeenKept, Invisible

\* The end of the connection loses every open call.
LEMMA SeenEnd ==
  ASSUME SlotsCounted, Called, NEW e \in Causes, NEW more \in SUBSET Calls, terminate(e, more),
         \A c \in more : pc[c] \notin {"await", "returned"} /\ result[c] = "nil"
                         /\ pc'[c] \notin {"await", "returned"},
         \A c \in Calls \ more : pc'[c] = pc[c], ret' = ret,
         more # {} => cause = "nil"
  PROVE  Contract!Next \/ UNCHANGED Contract!cvars
<1>1. CASE cause # "nil"
  <2>1. UNCHANGED coreVars /\ more = {}
    BY <1>1, TerminateFacts
  <2>2. \A d \in Calls : SameCall(d)
    BY <2>1 DEF SameCall, coreVars, InPending
  <2> QED
    BY <2>1, <2>2, SeenNothing DEF coreVars
<1>2. CASE cause = "nil"
  <2>1. /\ cause' = e /\ pending' = NoEntry
        /\ \A c \in Calls : /\ InPending(c) \/ c \in more => result'[c] = e
                            /\ ~InPending(c) /\ c \notin more => result'[c] = result[c]
    BY <1>2, TerminateFacts
  <2>2. \A c \in Calls : ~InPending(c)' /\ CallOK(c)
    BY <2>1, ProcFacts, CalledParts DEF InPending, NoEntry
  <2>3. e \notin {"ok", "callCtx.Err", "nil"}
    BY DEF Causes
  <2>4. ASSUME NEW c \in Calls
        PROVE  /\ status'[c] = IF status[c] = "open" THEN "lost" ELSE status[c]
               /\ settled'[c] = settled[c]
    <3>1. CASE c \in more
      <4>1. ~InPending(c)
        BY <2>2, <3>1 DEF CallOK
      <4>2. status[c] = "idle" /\ settled[c] = ret[c]
        BY <3>1, <4>1 DEF status, settled
      <4>3. status'[c] = "idle" /\ settled'[c] = ret[c]
        BY <2>1, <2>2, <2>3, <3>1 DEF status, settled
      <4> QED
        BY <4>2, <4>3
    <3>2. CASE c \notin more /\ InPending(c)
      <4>1. pc[c] = "await" /\ result[c] = "nil" /\ result'[c] = e /\ pc'[c] = "await"
        BY <2>1, <2>2, <3>2 DEF CallOK
      <4>2. status[c] = "open" /\ settled[c] = ret[c]
        BY <3>2, <4>1 DEF status, settled
      <4>3. status'[c] = "lost" /\ settled'[c] = ret[c]
        BY <2>2, <2>3, <4>1 DEF status, settled
      <4> QED
        BY <4>2, <4>3
    <3>3. CASE c \notin more /\ ~InPending(c)
      <4>1. status[c] # "open"
        BY <3>3 DEF status
      <4>2. SameCall(c)
        BY <2>1, <2>2, <3>3 DEF SameCall
      <4> QED
        BY <4>1, <4>2, SeenKept
    <3> QED
      BY <3>1, <3>2, <3>3
  <2>5. status' = [c \in Calls |-> IF status[c] = "open" THEN "lost" ELSE status[c]]
    BY <2>4 DEF status
  <2>6. settled' = settled
    BY <2>4 DEF settled
  <2>7. Contract!Terminate
    BY <1>2, <2>1, <2>5, <2>6 DEF Contract!Terminate
  <2> QED
    BY <2>7 DEF Contract!Next
<1> QED
  BY <1>1, <1>2

LEMMA SeenCallStep ==
  ASSUME RuntimeInv, NEW c \in Calls, CallStep(c)
  PROVE  Contract!Next \/ UNCHANGED Contract!cvars
<1>0. Typed /\ Called /\ SlotsCounted /\ c \in Procs /\ Calls \subseteq Procs
  BY Parts, ProcFacts
<1>1. MapsOK /\ \A d \in Calls : CallOK(d)
  BY <1>0, CalledParts
<1>L. /\ {"idle", "encode", "queued", "polling", "acquired", "failed", "await", "returned"}
           \subseteq PCs
      /\ InGate = {"queued", "polling", "acquired"}
  BY DEF PCs, CallPC, InGate
<1>g. ASSUME NEW label \in PCs, Goto(c, label)
      PROVE  pc'[c] = label /\ \A d \in Calls \ {c} : pc'[d] = pc[d]
  BY <1>0, <1>g, GotoFacts
<1>r. ret \in [Calls -> Results \cup {"nil"}] /\ result \in [Calls -> Results \cup {"nil"}]
  BY <1>0 DEF Typed, Called
<1>2. CASE CallStart(c) \/ CallEncodeFails(c)
  <2>1. /\ pc[c] \in {"idle", "encode"} /\ UNCHANGED <<cause, pending, result>>
        /\ \/ Goto(c, "encode") /\ ret' = ret
           \/ \E e \in LocalErrors \cup ({cause} \ {"nil"}) : Return(c, e)
    <3>1. NotReady # "nil" => NotReady \in LocalErrors \cup ({cause} \ {"nil"})
      BY <1>0, NotReadyFacts
    <3>2. {"ErrArgument", "callCtx.Err", "ErrResourceLimit", "ErrEncode"} \subseteq LocalErrors
      BY DEF LocalErrors
    <3>3. CASE CallStart(c)
      BY <3>1, <3>2, <3>3 DEF CallStart
    <3>4. CASE CallEncodeFails(c)
      BY <3>1, <3>2, <3>4 DEF CallEncodeFails
    <3> QED
      BY <1>2, <3>3, <3>4
  <2>2. \A d \in Calls : InPending(d)' <=> InPending(d)
    BY <2>1 DEF InPending
  <2>3. ~InPending(c) /\ result[c] = "nil"
    BY <1>1, <2>1 DEF CallOK
  <2>4. CASE Goto(c, "encode") /\ ret' = ret
    <3>1. \A d \in Calls : SameCall(d)
      BY <1>L, <1>g, <2>1, <2>2, <2>4 DEF SameCall
    <3> QED
      BY <2>1, <3>1, SeenNothing
  <2>5. ASSUME NEW e \in LocalErrors \cup ({cause} \ {"nil"}), Return(c, e)
        PROVE  Contract!Next \/ UNCHANGED Contract!cvars
    <3>1. /\ pc'[c] = "returned" /\ ret'[c] = e
          /\ \A d \in Calls \ {c} : pc'[d] = pc[d] /\ ret'[d] = ret[d]
      BY <1>L, <1>g, <1>r, <2>5 DEF Return
    <3>2. \A d \in Calls \ {c} : SameCall(d)
      BY <2>1, <2>2, <3>1 DEF SameCall
    <3> QED
      BY <2>1, <2>2, <2>3, <3>1, <3>2, SeenRefused
  <2> QED
    BY <2>1, <2>4, <2>5
<1>3. CASE CallEncode(c)
  <2>1. pc[c] = "encode" /\ Goto(c, "queued") /\ UNCHANGED <<cause, pending, result, ret>>
    BY <1>3 DEF CallEncode, coreVars
  <2>2. \A d \in Calls : SameCall(d)
    BY <1>L, <1>g, <2>1 DEF SameCall, InPending
  <2> QED
    BY <2>1, <2>2, SeenNothing
<1>4. CASE CallAbandon(c)
  <2>1. /\ pc[c] = "acquired" /\ Goto(c, "failed") /\ UNCHANGED <<cause, pending, ret>>
        /\ \E e : Settle(c, e)
    BY <1>4 DEF CallAbandon
  <2>2. /\ pc'[c] = "failed"
        /\ \A d \in Calls \ {c} : pc'[d] = pc[d] /\ result'[d] = result[d]
    BY <1>L, <1>g, <1>r, <2>1 DEF Settle
  <2>3. \A d \in Calls : InPending(d)' <=> InPending(d)
    BY <2>1 DEF InPending
  <2>4. ~InPending(c) /\ result[c] = "nil"
    BY <1>1, <1>L, <2>1 DEF CallOK
  <2>5. \A d \in Calls \ {c} : SameCall(d)
    BY <2>1, <2>2, <2>3 DEF SameCall
  <2> QED
    BY <2>1, <2>2, <2>3, <2>4, <2>5, SeenRefused
<1>5. CASE CallSend(c)
  <2>1. /\ pc[c] = "acquired" /\ cause = "nil" /\ nextID \in IDs /\ Goto(c, "await")
        /\ pending' = [pending EXCEPT ![nextID] = c] /\ UNCHANGED <<cause, result, ret>>
    BY <1>0, <1>5, NotReadyFacts, ProcFacts DEF CallSend, Typed, IDs
  <2>2. /\ pending[nextID] = None /\ pending'[nextID] = c
        /\ \A k \in IDs : k # nextID => pending'[k] = pending[k]
    BY <1>1, <2>1, ProcFacts DEF MapsOK
  <2>3. InPending(c)' /\ \A d \in Calls \ {c} : InPending(d)' <=> InPending(d)
    BY <2>1, <2>2, ProcFacts DEF InPending
  <2>4. ~InPending(c) /\ result[c] = "nil"
    BY <1>1, <1>L, <2>1 DEF CallOK
  <2>5. pc'[c] = "await" /\ \A d \in Calls \ {c} : SameCall(d)
    BY <1>L, <1>g, <2>1, <2>3 DEF SameCall
  <2>6. status[c] = "idle" /\ status'[c] = "open" /\ settled'[c] = settled[c]
    BY <2>1, <2>3, <2>4, <2>5 DEF status, settled
  <2>7. status' = [status EXCEPT ![c] = "open"] /\ settled' = settled
    BY <2>5, <2>6, SeenChanged DEF settled
  <2>8. Contract!Admit(c)
    BY <2>1, <2>6, <2>7 DEF Contract!Admit, Contract!Become
  <2> QED
    BY <2>8 DEF Contract!Next
<1>6. CASE CallSendFails(c)
  <2>1. /\ pc[c] = "acquired" /\ cause = "nil" /\ terminate("ErrSend", {c}) /\ Goto(c, "failed")
        /\ ret' = ret
    BY <1>0, <1>6, NotReadyFacts DEF CallSendFails
  <2>2. pc'[c] = "failed" /\ \A d \in Calls \ {c} : pc'[d] = pc[d]
    BY <1>L, <1>g, <2>1
  <2>3. result[c] = "nil"
    BY <1>1, <1>L, <2>1 DEF CallOK
  <2>4. PICK more \in SUBSET Calls : more = {c}
    BY <1>0
  <2>5. /\ terminate("ErrSend", more) /\ "ErrSend" \in Causes
        /\ \A d \in more : /\ pc[d] \notin {"await", "returned"} /\ result[d] = "nil"
                           /\ pc'[d] \notin {"await", "returned"}
        /\ \A d \in Calls \ more : pc'[d] = pc[d]
    BY <2>1, <2>2, <2>3, <2>4, CauseFacts
  <2> QED
    BY <1>0, <2>1, <2>5, SeenEnd
<1>7. CASE CallCatch(c)
  <2>1. /\ pc[c] = "failed" /\ Return(c, result[c]) /\ UNCHANGED <<cause, pending, result>>
    BY <1>7 DEF CallCatch
  <2>2. /\ pc'[c] = "returned" /\ ret'[c] = result[c]
        /\ \A d \in Calls \ {c} : pc'[d] = pc[d] /\ ret'[d] = ret[d]
    BY <1>L, <1>g, <1>r, <2>1 DEF Return
  <2>3. \A d \in Calls : InPending(d)' <=> InPending(d)
    BY <2>1 DEF InPending
  <2>4. /\ ~InPending(c)
        /\ result[c] \in LocalErrors \/ (cause # "nil" /\ result[c] = cause)
    BY <1>1, <2>1 DEF CallOK
  <2>5. \A d \in Calls \ {c} : SameCall(d)
    BY <2>1, <2>2, <2>3 DEF SameCall
  <2>6. CASE result[c] = "callCtx.Err"
    <3>1. status'[c] = status[c] /\ settled'[c] = settled[c]
      BY <2>1, <2>6 DEF status, settled
    <3> QED
      BY <2>1, <2>5, <3>1, SeenKept, Invisible
  <2>7. CASE result[c] # "callCtx.Err"
    BY <2>1, <2>2, <2>3, <2>4, <2>5, <2>7, SeenRefused
  <2> QED
    BY <2>6, <2>7
<1>8. CASE CallReturn(c)
  <2>1. /\ pc[c] = "await" /\ result[c] # "nil" /\ Return(c, result[c])
        /\ UNCHANGED <<cause, pending, result>>
    BY <1>8 DEF CallReturn, coreVars
  <2>2. /\ pc'[c] = "returned" /\ ret'[c] = result[c]
        /\ \A d \in Calls \ {c} : pc'[d] = pc[d] /\ ret'[d] = ret[d]
    BY <1>L, <1>g, <1>r, <2>1 DEF Return
  <2>3. \A d \in Calls : InPending(d)' <=> InPending(d)
    BY <2>1 DEF InPending
  <2>4. /\ ~InPending(c)
        /\ result[c] \in {"ok", "callCtx.Err"} \/ (cause # "nil" /\ result[c] = cause)
    BY <1>1, <2>1 DEF CallOK
  <2>5. \A d \in Calls \ {c} : SameCall(d)
    BY <2>1, <2>2, <2>3 DEF SameCall
  <2>6. CASE result[c] = "callCtx.Err"
    <3>1. status'[c] = status[c] /\ settled'[c] = settled[c]
      BY <2>1, <2>6 DEF status, settled
    <3> QED
      BY <2>1, <2>5, <3>1, SeenKept, Invisible
  <2>7. CASE result[c] # "callCtx.Err"
    <3>1. /\ status[c] = IF result[c] = "ok" THEN "answered" ELSE "lost"
          /\ status'[c] = "returned" /\ settled'[c] = result[c]
      BY <2>1, <2>2, <2>4, <2>7 DEF status, settled
    <3>2. Contract!Return(c, result[c])
      BY <2>1, <2>5, <3>1, SeenChanged DEF Contract!Return
    <3>3. Contract!Deliver(c) \/ Contract!Fail(c)
      BY <2>4, <2>7, <3>1, <3>2 DEF Contract!Deliver, Contract!Fail
    <3> QED
      BY <3>3 DEF Contract!Next
  <2> QED
    BY <2>6, <2>7
<1>9. CASE Abort(c)
  <2>1. UNCHANGED <<cause, pc, ret>>
    BY <1>9 DEF Abort, coreVars
  <2>2. CASE InPending(c)
    <3>1. /\ pending' = [i \in IDs |-> IF i \in {k \in IDs : pending[k] = c} THEN None
                                       ELSE pending[i]]
          /\ Settle(c, "callCtx.Err")
      BY <1>9, <2>2 DEF Abort, InPending
    <3>2. /\ result'[c] = "callCtx.Err"
          /\ \A d \in Calls \ {c} : result'[d] = result[d]
      BY <1>r, <3>1 DEF Settle
    <3>3. \A d \in Calls \ {c} : InPending(d)' <=> InPending(d)
      BY <3>1, ProcFacts DEF InPending
    <3>4. \A d \in Calls \ {c} : SameCall(d)
      BY <2>1, <3>2, <3>3 DEF SameCall
    <3>5. pc[c] = "await" /\ result[c] = "nil"
      BY <1>1, <2>2 DEF CallOK
    <3>6. status[c] = "open" /\ status'[c] = "returned" /\ settled'[c] = "callCtx.Err"
      BY <2>2, <3>2, <3>5 DEF status, settled
    <3>7. Contract!Return(c, "callCtx.Err")
      BY <2>1, <3>4, <3>6, SeenChanged DEF Contract!Return
    <3>8. Contract!Cancel(c)
      BY <3>6, <3>7 DEF Contract!Cancel
    <3> QED
      BY <3>8 DEF Contract!Next
  <2>3. CASE ~InPending(c)
    <3>1. UNCHANGED <<pending, result>>
      BY <1>9, <2>3 DEF Abort, InPending, coreVars
    <3>2. \A d \in Calls : SameCall(d)
      BY <2>1, <3>1 DEF SameCall, InPending
    <3> QED
      BY <2>1, <3>2, SeenNothing
  <2> QED
    BY <2>2, <2>3
<1> QED
  BY <1>2, <1>3, <1>4, <1>5, <1>6, <1>7, <1>8, <1>9 DEF CallStep

LEMMA SeenStep == RuntimeInv /\ [Next]_vars => [Contract!Next]_Contract!cvars
<1> SUFFICES ASSUME RuntimeInv, [Next]_vars PROVE Contract!Next \/ UNCHANGED Contract!cvars
  OBVIOUS
<1>0. Typed /\ Called /\ SlotsCounted
  BY Parts
<1>1. MapsOK /\ \A d \in Calls : CallOK(d)
  BY <1>0, CalledParts
<1>r. result \in [Calls -> Results \cup {"nil"}]
  BY <1>0 DEF Called
<1>e. ASSUME NEW e \in Causes, terminate(e, {}), \A d \in Calls : pc'[d] = pc[d], ret' = ret
      PROVE  Contract!Next \/ UNCHANGED Contract!cvars
  <2>1. PICK more \in SUBSET Calls : more = {}
    OBVIOUS
  <2>2. /\ terminate(e, more)
        /\ \A d \in more : /\ pc[d] \notin {"await", "returned"} /\ result[d] = "nil"
                           /\ pc'[d] \notin {"await", "returned"}
        /\ \A d \in Calls \ more : pc'[d] = pc[d]
    BY <1>e, <2>1
  <2> QED
    BY <1>0, <1>e, <2>1, <2>2, SeenEnd
<1>s. ASSUME UNCHANGED <<cause, pending, result, ret>>, \A d \in Calls : pc'[d] = pc[d]
      PROVE  UNCHANGED Contract!cvars
  <2>1. \A d \in Calls : SameCall(d)
    BY <1>s DEF SameCall, InPending
  <2> QED
    BY <1>s, <2>1, SeenNothing
<1>q. ASSUME NEW r \in Requests, NEW label \in PCs, Goto(r, label)
      PROVE  \A d \in Calls : pc'[d] = pc[d]
  BY <1>0, <1>q, GotoFacts, ProcFacts
<1>2. CASE Ends
  BY <1>2, <1>e DEF Ends
<1>3. CASE Silent
  BY <1>3, <1>s DEF Silent
<1>4. ASSUME NEW c \in Calls, CallStep(c) PROVE Contract!Next \/ UNCHANGED Contract!cvars
  BY <1>4, SeenCallStep
<1>5. ASSUME NEW r \in Requests, RequestStep(r)
      PROVE  Contract!Next \/ UNCHANGED Contract!cvars
  <2>0. {"result", "finish", "done", "queued", "dispatch", "refused"} \subseteq PCs
    BY DEF PCs, RequestPC
  <2>1. CASE HandlerReturns(r) \/ HandlerDropped(r) \/ HandlerResult(r) \/ HandlerSend(r)
             \/ LeaseFinish(r)
    <3>1. UNCHANGED <<cause, pending, result, ret>> /\ \E label \in PCs : Goto(r, label)
      BY <2>0, <2>1 DEF HandlerReturns, HandlerDropped, HandlerResult, HandlerSend, LeaseFinish,
         coreVars
    <3> QED
      BY <1>q, <1>s, <3>1
  <2>2. CASE HandlerOverLimit(r) \/ HandlerSendFails(r)
    <3>1. terminate("ErrSend", {}) /\ ret' = ret /\ Goto(r, "finish")
      BY <2>2 DEF HandlerOverLimit, HandlerSendFails
    <3> QED
      BY <1>e, <1>q, <2>0, <3>1, CauseFacts
  <2>3. ASSUME NEW i \in WireIDs, ReceiveRequest(r, i)
        PROVE  Contract!Next \/ UNCHANGED Contract!cvars
    <3>1. UNCHANGED <<cause, pending, result, ret>> /\ Goto(r, "dispatch")
      BY <2>3 DEF ReceiveRequest, coreVars
    <3> QED
      BY <1>q, <1>s, <2>0, <3>1
  <2>4. ASSUME NEW i \in WireIDs, ReceiveRefused(r, i)
        PROVE  Contract!Next \/ UNCHANGED Contract!cvars
    <3>1. /\ terminate("ErrDuplicate", {}) \/ terminate("ErrFrame", {})
          /\ ret' = ret /\ Goto(r, "refused")
      BY <2>4 DEF ReceiveRefused
    <3> QED
      BY <1>e, <1>q, <2>0, <3>1, CauseFacts
  <2> QED
    BY <1>5, <2>1, <2>2, <2>3, <2>4 DEF RequestStep
<1>6. ASSUME NEW p \in Procs, GateStep(p) PROVE Contract!Next \/ UNCHANGED Contract!cvars
  <2>0. {"failed", "queued", "polling", "acquired"} \subseteq PCs
    BY DEF PCs, CallPC
  <2>1. /\ pc[p] \in InGate /\ UNCHANGED <<cause, pending, ret>>
        /\ \E label \in {"failed", "queued", "polling", "acquired"} : Goto(p, label)
        /\ result' = result \/ (p \in Calls /\ Goto(p, "failed") /\ \E e : Settle(p, e))
    BY <1>6 DEF GateStep, GateFails, GateFailed, GateCheck, PollTimer, coreVars, InGate
  <2>2. CASE p \in Requests
    BY <1>q, <1>s, <2>0, <2>1, <2>2, ProcFacts
  <2>3. CASE p \in Calls
    <3>1. /\ pc'[p] \in {"failed", "queued", "polling", "acquired"}
          /\ \A d \in Calls \ {p} : pc'[d] = pc[d] /\ result'[d] = result[d]
      BY <1>0, <1>r, <2>0, <2>1, GotoFacts, ProcFacts DEF Settle
    <3>2. \A d \in Calls : InPending(d)' <=> InPending(d)
      BY <2>1 DEF InPending
    <3>3. ~InPending(p) /\ result[p] = "nil" /\ pc[p] \notin {"await", "returned"}
      BY <1>1, <2>1, <2>3 DEF CallOK, InGate
    <3>4. \A d \in Calls \ {p} : SameCall(d)
      BY <2>1, <3>1, <3>2 DEF SameCall
    <3> QED
      BY <2>1, <2>3, <3>1, <3>2, <3>3, <3>4, SeenRefused
  <2> QED
    BY <2>2, <2>3 DEF Procs
<1>7. ASSUME NEW i \in IDs, ReceiveResponse(i) PROVE Contract!Next \/ UNCHANGED Contract!cvars
  <2>1. PICK c \in Calls : c = pending[i] /\ c = resolver[i]
    BY <1>1, <1>7 DEF ReceiveResponse, MapsOK
  <2>2. pending' = [pending EXCEPT ![i] = None] /\ Settle(c, "ok") /\ UNCHANGED <<cause, pc, ret>>
    BY <1>7, <2>1 DEF ReceiveResponse
  <2>3. \A k \in IDs : pending'[k] = IF k = i THEN None ELSE pending[k]
    BY <1>1, <2>2 DEF MapsOK
  <2>4. /\ result'[c] = "ok" /\ \A d \in Calls \ {c} : result'[d] = result[d]
    BY <1>r, <2>2 DEF Settle
  <2>5. InPending(c) /\ ~InPending(c)' /\ \A d \in Calls \ {c} : InPending(d)' <=> InPending(d)
    BY <1>1, <2>1, <2>3, ProcFacts DEF MapsOK, InPending
  <2>6. \A d \in Calls \ {c} : SameCall(d)
    BY <2>2, <2>4, <2>5 DEF SameCall
  <2>7. pc[c] = "await" /\ result[c] = "nil"
    BY <1>1, <2>5 DEF CallOK
  <2>8. status[c] = "open" /\ status'[c] = "answered" /\ settled'[c] = settled[c]
    BY <2>2, <2>4, <2>5, <2>7 DEF status, settled
  <2>9. status' = [status EXCEPT ![c] = "answered"] /\ settled' = settled
    BY <2>6, <2>8, SeenChanged DEF settled
  <2>10. Contract!Answer(c)
    BY <2>2, <2>8, <2>9 DEF Contract!Answer, Contract!Become
  <2> QED
    BY <2>10 DEF Contract!Next
<1> QED
  BY <1>2, <1>3, <1>4, <1>5, <1>6, <1>7, StepKinds

\* The TypeScript connection implements the contract of a call for every
\* number of calls, IDs and requests: an open call gets exactly one outcome,
\* and termination takes all open calls at once.
THEOREM ContractImplemented == Spec => ImplementsContract
<1>1. Init => Contract!Init
  <2> SUFFICES ASSUME Init PROVE Contract!Init
    OBVIOUS
  <2>1. \A c \in Calls : ~InPending(c) /\ pc[c] = "idle" /\ result[c] = "nil" /\ ret[c] = "nil"
    BY ProcFacts DEF Init, InPending, NoEntry
  <2>2. status = [c \in Calls |-> "idle"] /\ settled = [c \in Calls |-> "nil"]
    BY <2>1 DEF status, settled
  <2> QED
    BY <2>2 DEF Init, Contract!Init
<1> QED
  BY <1>1, RuntimeCorrect, SeenStep, PTL DEF Spec, ImplementsContract, Contract!Spec

=============================================================================
