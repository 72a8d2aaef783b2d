------------------------- MODULE GoConnectionProofs -------------------------
(***************************************************************************)
(* Theorems about GoConnection for every set of calls, requests and wire   *)
(* IDs and every MaxID.                                                    *)
(***************************************************************************)
EXTENDS GoConnection, TLAPS

-----------------------------------------------------------------------------
(* Type correctness                                                        *)

\* Terminal selection keeps the types of the state it publishes.
LEMMA SelectTerminalType ==
  ASSUME TypeOK, NEW e \in Causes, selectTerminal(e)
  PROVE  /\ cause' \in Causes \cup {"nil"}
         /\ claims' \subseteq Calls
         /\ teardown' \in {"off", "complete", "cancel", "done"}
         /\ pending' \in [IDs -> Calls \cup {None}]
         /\ incoming' \in [WireIDs -> IncomingCall]
         /\ \A i \in WireIDs : incoming'[i] = incoming[i] \/ incoming'[i].deferred = None
<1>1. CASE cause # "nil"
  BY <1>1 DEF TypeOK, selectTerminal, connVars
<1>2. CASE cause = "nil"
  <2>1. Free \in IncomingCall
    BY DEF Free, IncomingCall
  <2>2. claims' \subseteq Calls
    BY <1>2 DEF TypeOK, selectTerminal
  <2>3. \A i \in WireIDs : incoming'[i].deferred = None
    BY <1>2 DEF selectTerminal, Free
  <2>4. QED
    BY <1>2, <2>1, <2>2, <2>3 DEF TypeOK, selectTerminal
<1>3. QED
  BY <1>1, <1>2

\* A step of a call's goroutine leaves the requests where they are.
LEMMA GotoCall ==
  ASSUME TypeOK, NEW c \in Calls, NEW s \in CallPC, Goto(c, s)
  PROVE  /\ pc' \in [Procs -> CallPC \cup RequestPC]
         /\ \A d \in Calls : pc'[d] \in CallPC
         /\ \A r \in Requests : pc'[r] = pc[r]
BY ProcsAssumption DEF TypeOK, Goto, Procs

\* The deferred requests an incoming map holds are requests.
LEMMA DeferredType ==
  TypeOK => \A i \in WireIDs : incoming[i].deferred \in Requests \cup {None}
BY DEF TypeOK, IncomingCall

\* Every step keeps TypeOK.
LEMMA TypeStep == TypeOK /\ [Next]_vars => TypeOK'
<1> SUFFICES ASSUME TypeOK, [Next]_vars PROVE TypeOK'
  OBVIOUS
<1> USE MaxIDAssumption, ProcsAssumption
<1>1. CASE ConnectionStep
  <2>1. CASE Close
    <3>1. "ErrClosed" \in Causes
      BY DEF Causes
    <3>2. selectTerminal("ErrClosed")
      BY <2>1 DEF Close
    <3>3. QED
      BY <2>1, <3>1, <3>2, SelectTerminalType
      DEF TypeOK, Close, callVars, recvVars, lifeVars, wireVars
  <2>2. CASE TeardownClose
    BY <2>2 DEF TypeOK, TeardownClose, callVars, recvVars, wireVars
  <2>3. CASE TeardownCancel
    BY <2>3 DEF TypeOK, TeardownCancel, callVars, recvVars, wireVars
  <2>4. CASE ContextDone
    BY <2>4 DEF TypeOK, ContextDone, connVars, callVars, recvVars, wireVars
  <2>5. CASE ObserveContext
    <3>1. "ctx.Err" \in Causes
      BY DEF Causes
    <3>2. /\ cause' \in Causes \cup {"nil"}
          /\ claims' \subseteq Calls
          /\ teardown' \in {"off", "complete", "cancel", "done"}
          /\ pending' \in [IDs -> Calls \cup {None}]
          /\ incoming' \in [WireIDs -> IncomingCall]
          /\ \A i \in WireIDs : incoming'[i] = incoming[i] \/ incoming'[i].deferred = None
      BY <2>5, <3>1, SelectTerminalType DEF TypeOK, ObserveContext, connVars
    <3>3. QED
      BY <2>5, <3>2 DEF TypeOK, ObserveContext, callVars, recvVars, wireVars
  <2>6. CASE Wait
    BY <2>6 DEF TypeOK, Wait, connVars, callVars, recvVars, wireVars
  <2>7. QED
    BY <1>1, <2>1, <2>2, <2>3, <2>4, <2>5, <2>6 DEF ConnectionStep
<1>2. CASE ReceiveStep
  <2>1. CASE ReadError
    <3>1. "ErrRead" \in Causes
      BY DEF Causes
    <3>2. selectTerminal("ErrRead")
      BY <2>1 DEF ReadError
    <3>3. QED
      BY <2>1, <3>1, <3>2, SelectTerminalType
      DEF TypeOK, ReadError, Receive, callVars, lifeVars, wireVars
  <2>2. CASE claimResponse
    BY <2>2 DEF TypeOK, claimResponse, Receive, callVars, lifeVars, wireVars
  <2>3. CASE DecodeOk
    BY <2>3 DEF TypeOK, DecodeOk, Receive, complete, Results, connVars, lifeVars, wireVars
  <2>4. CASE DecodeError
    <3>1. "ErrResponse" \in Causes
      BY DEF Causes
    <3>2. selectTerminal("ErrResponse")
      BY <2>4 DEF DecodeError
    <3>3. QED
      BY <2>4, <3>1, <3>2, SelectTerminalType
      DEF TypeOK, DecodeError, Receive, callVars, lifeVars, wireVars
  <2>5. CASE DecodeFailed
    BY <2>5 DEF TypeOK, DecodeFailed, Receive, complete, Results, connVars, lifeVars, wireVars
  <2>6. CASE DuplicateExit
    <3>1. "ErrDuplicate" \in Causes
      BY DEF Causes
    <3>2. selectTerminal("ErrDuplicate")
      BY <2>6 DEF DuplicateExit
    <3>3. QED
      BY <2>6, <3>1, <3>2, SelectTerminalType
      DEF TypeOK, DuplicateExit, Receive, callVars, lifeVars, wireVars
  <2>7. QED
    BY <1>2, <2>1, <2>2, <2>3, <2>4, <2>5, <2>6 DEF ReceiveStep
<1>3. ASSUME NEW i \in IDs, ReadResponse(i) PROVE TypeOK'
  BY <1>3 DEF TypeOK, ReadResponse, Receive, connVars, callVars, lifeVars, wireVars
<1>4. ASSUME NEW r \in Requests, NEW i \in WireIDs, ReadRequest(r, i) PROVE TypeOK'
  BY <1>4 DEF TypeOK, ReadRequest, Receive, Goto, Procs, RequestPC, connVars, callVars,
              lifeVars, wireVars
<1>5. ASSUME NEW p \in Procs, AcquireGate(p) \/ WriteStep(p) PROVE TypeOK'
  <2>1. CASE AcquireGate(p)
    BY <2>1 DEF TypeOK, AcquireGate, Goto, Procs, CallPC, RequestPC, connVars, callVars,
                recvVars, lifeVars, wireVars
  <2>2. CASE WritePrefix(p)
    BY <2>2 DEF TypeOK, WritePrefix, connVars, callVars, recvVars, lifeVars
  <2>3. CASE WriteAccept(p)
    BY <2>3 DEF TypeOK, WriteAccept, Goto, Procs, CallPC, RequestPC, connVars, callVars,
                recvVars, lifeVars
  <2>4. CASE WriteReturn(p)
    BY <2>4 DEF TypeOK, WriteReturn, Goto, Procs, CallPC, RequestPC, connVars, callVars,
                recvVars, lifeVars, wireVars
  <2>5. CASE WriteError(p)
    BY <2>5 DEF TypeOK, WriteError, Goto, Procs, CallPC, RequestPC, connVars, callVars,
                recvVars, lifeVars, wireVars
  <2>6. CASE WriteFailed(p)
    <3>1. "ErrWrite" \in Causes
      BY DEF Causes
    <3>2. selectTerminal("ErrWrite")
      BY <2>6 DEF WriteFailed
    <3>3. QED
      BY <2>6, <3>1, <3>2, SelectTerminalType
      DEF TypeOK, WriteFailed, Goto, Procs, CallPC, RequestPC, callVars, recvVars,
          lifeVars, wireVars
  <2>7. QED
    BY <1>5, <2>1, <2>2, <2>3, <2>4, <2>5, <2>6 DEF WriteStep
<1>6. ASSUME NEW c \in Calls, CallStep(c) PROVE TypeOK'
  <2> USE GotoCall, DeferredType
          DEF Return, CallPC, Results, LocalErrors, recvVars, lifeVars, wireVars
  <2>0. callReady(c) \in Results \cup {"nil"}
    BY DEF TypeOK, callReady
  <2>1. CASE CallReject(c)
    BY <2>1 DEF TypeOK, CallReject, connVars
  <2>2. CASE CallStart(c)
    BY <2>0, <2>2 DEF TypeOK, CallStart, connVars
  <2>3. CASE CallEncode(c)
    BY <2>0, <2>3 DEF TypeOK, CallEncode, connVars
  <2>4. CASE CallGateLost(c)
    BY <2>4 DEF TypeOK, CallGateLost, connVars
  <2>5. CASE CallRefuse(c)
    BY <2>0, <2>5 DEF TypeOK, CallRefuse, connVars
  <2>6. CASE CallAdmit(c)
    BY <2>6 DEF TypeOK, CallAdmit, IDs
  <2>7. CASE CallDone(c)
    BY <2>7 DEF TypeOK, CallDone, connVars
  <2>8. CASE CallCancel(c)
    <3>1. pending' \in [IDs -> Calls \cup {None}]
      BY <2>8 DEF TypeOK, CallCancel
    <3>2. /\ completed' \in [Calls -> Nat]
          /\ result' \in [Calls -> Results \cup {"nil"}]
          /\ ret' \in [Calls -> Results \cup {"nil"}]
      BY <2>8 DEF TypeOK, CallCancel
    <3>3. QED
      BY <2>8, <3>1, <3>2 DEF TypeOK, CallCancel
  <2>9. CASE CallContextDone(c)
    BY <2>9 DEF TypeOK, CallContextDone, connVars, callVars
  <2>10. CASE TeardownComplete(c)
    BY <2>10 DEF TypeOK, TeardownComplete, complete
  <2>11. QED
    BY <1>6, <2>1, <2>2, <2>3, <2>4, <2>5, <2>6, <2>7, <2>8, <2>9, <2>10 DEF CallStep
<1>7. ASSUME NEW r \in Requests, HandlerStep(r) PROVE TypeOK'
  <2> USE DEF Goto, Procs, CallPC, RequestPC, callVars, lifeVars, wireVars
  <2>1. CASE admitIncoming(r)
    <3>1. incoming' \in [WireIDs -> IncomingCall]
      <4>1. CASE AdmitDispatch(r)
        <5>1. Active \in IncomingCall
          BY DEF Active, IncomingCall
        <5>2. QED
          BY <4>1, <5>1 DEF TypeOK, AdmitDispatch
      <4>2. CASE AdmitDeferred(r)
        <5>1. \A i \in WireIDs : [incoming[i] EXCEPT !.deferred = r] \in IncomingCall
          BY DEF TypeOK, IncomingCall
        <5>2. QED
          BY <4>2, <5>1 DEF TypeOK, AdmitDeferred
      <4>3. CASE AdmitDiscard(r) \/ AdmitTerminal(r)
        BY <4>3 DEF TypeOK, AdmitDiscard, AdmitTerminal
      <4>4. QED
        BY <2>1, <4>1, <4>2, <4>3 DEF admitIncoming
    <3>2. \A i \in WireIDs : incoming'[i].deferred # None =>
             reqID[incoming'[i].deferred] = i /\ pc'[incoming'[i].deferred] # "unsent"
      BY <2>1 DEF TypeOK, admitIncoming, AdmitDiscard, AdmitDispatch, AdmitDeferred,
                  AdmitTerminal, Active, IncomingCall
    <3>3. /\ recvPC' \in {"read", "duplicate", "exit"}
          /\ \E s \in {"dropped", "dispatch", "deferred"} : pc' = [pc EXCEPT ![r] = s]
      BY <2>1 DEF admitIncoming, AdmitDiscard, AdmitDispatch, AdmitDeferred, AdmitTerminal,
                  Receive
    <3>4. /\ pc' \in [Procs -> CallPC \cup RequestPC]
          /\ \A c \in Calls : pc'[c] \in CallPC
          /\ \A q \in Requests : pc'[q] \in RequestPC
      BY <3>3 DEF TypeOK
    <3>5. QED
      BY <2>1, <3>1, <3>2, <3>3, <3>4 DEF TypeOK, admitIncoming
  <2>2. CASE Dispatch(r)
    BY <2>2 DEF TypeOK, Dispatch, connVars, recvVars
  <2>3. CASE HandlerGateLost(r)
    BY <2>3 DEF TypeOK, HandlerGateLost, connVars, recvVars
  <2>4. CASE HandlerAbandon(r)
    BY <2>4 DEF TypeOK, HandlerAbandon, connVars, recvVars
  <2>5. CASE HandlerAdmit(r)
    <3>1. incoming' \in [WireIDs -> IncomingCall]
      BY <2>5 DEF TypeOK, HandlerAdmit, markIncomingWriting, IncomingCall
    <3>2. \A i \in WireIDs : incoming'[i].deferred = incoming[i].deferred
      BY <2>5 DEF TypeOK, HandlerAdmit, markIncomingWriting, IncomingCall
    <3>3. QED
      BY <2>5, <3>1, <3>2 DEF TypeOK, HandlerAdmit, recvVars
  <2>6. CASE completeIncomingWrite(r)
    <3>1. reqID[r] \in WireIDs
      BY <2>6 DEF TypeOK, completeIncomingWrite
    <3>2. incoming' \in [WireIDs -> IncomingCall]
      BY <2>6, <3>1 DEF TypeOK, completeIncomingWrite, IncomingCall, Free, Active
    <3>3. incoming[reqID[r]].deferred \in Requests \cup {None}
      BY <3>1 DEF TypeOK, IncomingCall
    <3>4. /\ pc' \in [Procs -> CallPC \cup RequestPC]
          /\ \A c \in Calls : pc'[c] \in CallPC
          /\ \A q \in Requests : pc'[q] \in RequestPC
      BY <2>6, <3>3 DEF TypeOK, completeIncomingWrite
    <3>5. /\ \A i \in WireIDs : incoming'[i] = incoming[i] \/ incoming'[i].deferred = None
          /\ \A q \in Requests : pc'[q] # pc[q] => reqID[q] \in WireIDs /\ pc'[q] # "unsent"
      BY <2>6, <3>1, <3>3 DEF TypeOK, completeIncomingWrite, Free, Active
    <3>6. QED
      <4>1. \A i \in WireIDs : incoming'[i].deferred # None =>
               reqID[incoming'[i].deferred] = i /\ pc'[incoming'[i].deferred] # "unsent"
        BY <3>5, DeferredType DEF TypeOK
      <4>2. \A q \in Requests : pc'[q] # "unsent" => reqID[q] \in WireIDs
        BY <3>5 DEF TypeOK
      <4> HIDE DEF CallPC, RequestPC
      <4>3. QED
        BY <2>6, <3>2, <3>4, <4>1, <4>2 DEF TypeOK, completeIncomingWrite, recvVars
  <2>7. QED
    BY <1>7, <2>1, <2>2, <2>3, <2>4, <2>5, <2>6 DEF HandlerStep
<1>8. CASE UNCHANGED vars
  BY <1>8 DEF TypeOK, vars, connVars, callVars, recvVars, lifeVars, wireVars
<1>9. QED
  BY <1>1, <1>2, <1>3, <1>4, <1>5, <1>6, <1>7, <1>8 DEF Next

\* The initial state of NewConnection is well typed.
LEMMA TypeInit == Init => TypeOK
<1> SUFFICES ASSUME Init PROVE TypeOK
  OBVIOUS
<1> USE MaxIDAssumption, ProcsAssumption
<1>1. incoming \in [WireIDs -> IncomingCall]
  BY DEF Init, Free, IncomingCall
<1>2. /\ pc \in [Procs -> CallPC \cup RequestPC]
      /\ \A c \in Calls : pc[c] \in CallPC
      /\ \A r \in Requests : pc[r] \in RequestPC /\ pc[r] = "unsent"
  BY DEF Init, Procs, CallPC, RequestPC
<1>3. /\ nextID \in 0 .. MaxID + 1 /\ closes \in Nat
      /\ pending \in [IDs -> Calls \cup {None}]
      /\ completed \in [Calls -> Nat]
      /\ \A i \in WireIDs : incoming[i].deferred = None
  BY DEF Init, Free, IDs
<1>4. QED
  BY <1>1, <1>2, <1>3 DEF Init, TypeOK

\* Every variable keeps its type in every behaviour of a connection.
THEOREM TypeCorrect == Spec => []TypeOK
BY TypeInit, TypeStep, PTL DEF Spec

-----------------------------------------------------------------------------
(* Ownership of outcomes                                                   *)

\* No call crosses admission or returns.
SamePhase ==
  /\ ret' = ret
  /\ \A c \in Calls :
       \/ pc'[c] = pc[c]
       \/ /\ pc[c] \in {"idle", "encode", "gate", "admit"}
          /\ pc'[c] \in {"idle", "encode", "gate", "admit"}
       \/ Admitted(c) /\ Admitted(c)'

SameReceive == \A c \in Calls : InReceive(c)' <=> InReceive(c)

\* A step that moves no outcome keeps the ownership invariant.
LEMMA OwnerQuiet ==
  ASSUME OwnerInv, SamePhase, SameReceive,
         UNCHANGED <<cause, claims, pending, nextID, callID, completed, result>>,
         claims # {} => teardown' = teardown,
         recvPC' = "decodeFailed" => recvPC = "decodeFailed"
  PROVE  OwnerInv'
<1> USE DEF OwnerInv, SamePhase, SameReceive
<1>1. \A c \in Calls : InPending(c)' <=> InPending(c)
  BY DEF InPending
<1>2. \A c \in Calls : Admitted(c)' <=> Admitted(c)
  BY DEF Admitted
<1>3. ExactlyOneOwner'
  BY <1>1, <1>2 DEF ExactlyOneOwner
<1>4. IDsNeverReused' /\ CompletedOnce'
  BY DEF IDsNeverReused, CompletedOnce
<1>5. ReturnIsOutcome'
  BY DEF ReturnIsOutcome, Admitted
<1>6. \A c \in Calls :
        /\ callID'[c] # None => callID'[c] < nextID'
        /\ Admitted(c)' => callID'[c] # None
        /\ pc'[c] \in {"idle", "encode", "gate", "admit"} => callID'[c] = None
        /\ callID'[c] = None => completed'[c] = 0
        /\ ret'[c] # "nil" => pc'[c] = "returned"
  BY <1>2 DEF Admitted
<1>7. QED
  BY <1>3, <1>4, <1>5, <1>6

\* Terminal selection hands every pending call to the teardown and keeps
\* the ownership invariant.
LEMMA OwnerTerminal ==
  ASSUME TypeOK, OwnerInv, SamePhase, SameReceive,
         NEW e \in Causes, selectTerminal(e),
         UNCHANGED <<nextID, callID, completed, result>>
  PROVE  OwnerInv'
<1> USE DEF OwnerInv
<1>0. e # "nil"
  BY DEF Causes
<1>1. CASE cause # "nil"
  <2>1. UNCHANGED connVars
    BY <1>1 DEF selectTerminal
  <2>2. \A c \in Calls : InPending(c)' <=> InPending(c)
    BY <2>1 DEF InPending, connVars
  <2>3. \A c \in Calls : Admitted(c)' <=> Admitted(c)
    BY DEF SamePhase, Admitted
  <2>4. ExactlyOneOwner'
    BY <2>1, <2>2, <2>3 DEF ExactlyOneOwner, SameReceive, connVars
  <2>5. IDsNeverReused' /\ CompletedOnce' /\ ReturnIsOutcome'
    BY <2>1 DEF IDsNeverReused, CompletedOnce, ReturnIsOutcome, SamePhase, Admitted, connVars
  <2>6. QED
    BY <1>1, <2>1, <2>3, <2>4, <2>5 DEF SamePhase, Admitted, connVars
<1>2. CASE cause = "nil"
  <2>1. /\ cause' = e /\ teardown' = "complete"
        /\ pending' = [i \in IDs |-> None]
        /\ claims' = {pending[i] : i \in IDs} \ {None}
    BY <1>2 DEF selectTerminal
  <2>2. claims = {}
    BY <1>2
  <2>3. \A c \in Calls : ~InPending(c)'
    BY <2>1, ProcsAssumption DEF InPending, Procs
  <2>4. \A c \in Calls : c \in claims' <=> InPending(c)
    BY <2>1, ProcsAssumption DEF InPending, Procs
  <2>5. \A c \in Calls : Admitted(c)' <=> Admitted(c)
    BY DEF SamePhase, Admitted
  <2>6. ExactlyOneOwner'
    BY <2>2, <2>3, <2>4, <2>5 DEF ExactlyOneOwner, SameReceive
  <2>7. IDsNeverReused' /\ CompletedOnce'
    BY <2>1 DEF IDsNeverReused, CompletedOnce
  <2>8. ReturnIsOutcome'
    BY DEF ReturnIsOutcome, SamePhase, Admitted
  <2>9. \A c \in Calls :
          /\ callID'[c] # None => callID'[c] < nextID'
          /\ Admitted(c)' => callID'[c] # None
          /\ pc'[c] \in {"idle", "encode", "gate", "admit"} => callID'[c] = None
          /\ callID'[c] = None => completed'[c] = 0
          /\ ret'[c] # "nil" => pc'[c] = "returned"
    BY <2>5 DEF SamePhase, Admitted
  <2>10. QED
    BY <1>0, <2>1, <2>6, <2>7, <2>8, <2>9
<1>3. QED
  BY <1>1, <1>2

\* A call that has no ID yet may return anything but success.
LEMMA OwnerRefused ==
  ASSUME TypeOK, OwnerInv, NEW c \in Calls,
         pc[c] \in {"idle", "encode", "gate", "admit"},
         NEW res \in Results \ {"ok"}, Return(c, res),
         UNCHANGED <<connVars, nextID, callID, completed, result, recvVars>>
  PROVE  OwnerInv'
<1> USE DEF OwnerInv
<1>1. /\ pc' = [pc EXCEPT ![c] = "returned"] /\ ret' = [ret EXCEPT ![c] = res]
      /\ callID[c] = None
  BY DEF Return, Goto
<1>2. /\ pc'[c] = "returned" /\ ret'[c] = res
      /\ \A d \in Calls : d # c => pc'[d] = pc[d] /\ ret'[d] = ret[d]
  BY <1>1 DEF TypeOK, Procs
<1>3. \A d \in Calls : /\ InPending(d)' <=> InPending(d)
                       /\ InReceive(d)' <=> InReceive(d)
                       /\ Admitted(d)' <=> Admitted(d)
  BY <1>2 DEF InPending, InReceive, Admitted, connVars, recvVars
<1>4. ExactlyOneOwner'
  BY <1>3 DEF ExactlyOneOwner, connVars
<1>5. IDsNeverReused' /\ CompletedOnce'
  BY DEF IDsNeverReused, CompletedOnce, connVars
<1>6. ReturnIsOutcome'
  BY <1>1, <1>2 DEF ReturnIsOutcome
<1>7. QED
  BY <1>1, <1>2, <1>3, <1>4, <1>5, <1>6 DEF connVars, recvVars

\* Admission gives the call a fresh ID and the pending map its outcome.
LEMMA OwnerAdmit ==
  ASSUME TypeOK, OwnerInv, NEW c \in Calls, CallAdmit(c)
  PROVE  OwnerInv'
<1> USE DEF OwnerInv
<1>0. /\ nextID \in IDs /\ nextID' = nextID + 1 /\ nextID \in Int /\ cause = "nil"
      /\ callID[c] = None
      /\ ~Admitted(c)
  BY MaxIDAssumption DEF CallAdmit, callReady, TypeOK, IDs, Admitted
<1>1. /\ pending' = [pending EXCEPT ![nextID] = c]
      /\ pc'[c] = "write" /\ callID'[c] = nextID
      /\ \A d \in Calls : d # c => pc'[d] = pc[d] /\ callID'[d] = callID[d]
      /\ UNCHANGED <<cause, claims, teardown, completed, result, ret, recvPC, recvArg>>
  BY DEF CallAdmit, Goto, TypeOK, Procs, recvVars
<1>2. pending[nextID] = None
  <2>1. pending[nextID] \in Calls \cup {None}
    BY <1>0 DEF TypeOK
  <2>2. ASSUME pending[nextID] # None PROVE FALSE
    <3>1. callID[pending[nextID]] = nextID
      BY <1>0, <2>2 DEF IDsNeverReused
    <3>2. nextID < nextID
      BY <1>0, <2>1, <2>2, <3>1, ProcsAssumption
    <3>3. QED
      BY <1>0, <3>2
  <2>3. QED
    BY <2>2
<1>3. \A d \in Calls : /\ InReceive(d)' <=> InReceive(d)
                       /\ d # c => (Admitted(d)' <=> Admitted(d))
                       /\ d # c => (InPending(d)' <=> InPending(d))
  BY <1>0, <1>1, <1>2, ProcsAssumption DEF InPending, InReceive, Admitted, TypeOK, Procs
<1>4. InPending(c)' /\ Admitted(c)'
  BY <1>0, <1>1 DEF InPending, Admitted, TypeOK
<1>5. ~InReceive(c) /\ c \notin claims /\ completed[c] = 0
  BY <1>0 DEF ExactlyOneOwner
<1>6. ExactlyOneOwner'
  BY <1>1, <1>3, <1>4, <1>5 DEF ExactlyOneOwner
<1>7. IDsNeverReused'
  <2>1. \A d \in Calls : callID[d] # nextID
    BY <1>0, ProcsAssumption DEF TypeOK, IDs
  <2>2. \A d, f \in Calls : d # f /\ callID'[d] # None => callID'[d] # callID'[f]
    BY <1>1, <2>1 DEF IDsNeverReused
  <2>3. ASSUME NEW i \in IDs, pending'[i] # None PROVE callID'[pending'[i]] = i
    <3>1. CASE i = nextID
      BY <1>0, <1>1, <3>1 DEF TypeOK
    <3>2. CASE i # nextID
      <4>1. pending'[i] = pending[i] /\ pending[i] \in Calls /\ callID[pending[i]] = i
        BY <1>1, <2>3, <3>2 DEF TypeOK, IDsNeverReused
      <4>2. pending[i] # c
        BY <1>0, <4>1, ProcsAssumption DEF IDs
      <4>3. QED
        BY <1>1, <4>1, <4>2
    <3>3. QED
      BY <3>1, <3>2
  <2>4. QED
    BY <2>2, <2>3 DEF IDsNeverReused
<1>8. CompletedOnce' /\ ReturnIsOutcome'
  BY <1>0, <1>1 DEF CompletedOnce, ReturnIsOutcome
<1>9. \A d \in Calls :
        /\ callID'[d] # None => callID'[d] < nextID'
        /\ Admitted(d)' => callID'[d] # None
        /\ pc'[d] \in {"idle", "encode", "gate", "admit"} => callID'[d] = None
        /\ callID'[d] = None => completed'[d] = 0
        /\ ret'[d] # "nil" => pc'[d] = "returned"
  <2>1. \A d \in Calls : callID[d] # None => callID[d] \in Int
    BY MaxIDAssumption DEF TypeOK, IDs
  <2>2. \A d \in Calls : callID'[d] # None => callID'[d] < nextID'
    BY <1>0, <1>1, <2>1
  <2>3. nextID # None
    BY <1>0, ProcsAssumption
  <2>4. QED
    <3>1. \A d \in Calls \ {c} : Admitted(d)' => callID'[d] # None
      BY <1>1, <1>3
    <3>2. \A d \in Calls : pc'[d] \in {"idle", "encode", "gate", "admit"} => callID'[d] = None
      BY <1>1
    <3>3. \A d \in Calls : callID'[d] = None => completed'[d] = 0
      BY <1>1, <2>3
    <3>4. \A d \in Calls : ret'[d] # "nil" => pc'[d] = "returned"
      BY <1>0, <1>1 DEF CallAdmit
    <3>5. QED
      BY <1>1, <2>2, <2>3, <3>1, <3>2, <3>3, <3>4
<1>10. QED
  BY <1>0, <1>1, <1>6, <1>7, <1>8, <1>9

\* The owner of a call's outcome settles it: the receive loop or the teardown.
LEMMA OwnerComplete ==
  ASSUME TypeOK, OwnerInv, NEW c \in Calls, NEW res, complete(c, res),
         InReceive(c) \/ c \in claims,
         ~InReceive(c)', c \notin claims',
         \A d \in Calls \ {c} : /\ InReceive(d)' <=> InReceive(d)
                                /\ d \in claims' <=> d \in claims,
         claims' \subseteq claims,
         recvPC' = "decodeFailed" => recvPC = "decodeFailed",
         UNCHANGED <<cause, teardown, pending, nextID, pc>>
  PROVE  OwnerInv'
<1> USE DEF OwnerInv
<1>1. /\ completed[c] = 0 /\ Admitted(c) /\ ~InPending(c)
  BY DEF ExactlyOneOwner
<1>2. /\ completed'[c] = 1 /\ UNCHANGED <<callID, ret>>
      /\ \A d \in Calls : d # c => completed'[d] = completed[d] /\ result'[d] = result[d]
  BY <1>1 DEF complete, TypeOK
<1>3. \A d \in Calls : /\ InPending(d)' <=> InPending(d)
                       /\ Admitted(d)' <=> Admitted(d)
  BY DEF InPending, Admitted
<1>4. ExactlyOneOwner'
  BY <1>1, <1>2, <1>3 DEF ExactlyOneOwner
<1>5. IDsNeverReused' /\ CompletedOnce'
  BY <1>2 DEF IDsNeverReused, CompletedOnce
<1>6. pc[c] # "returned" /\ ret[c] = "nil"
  BY <1>1 DEF Admitted
<1>7. ReturnIsOutcome'
  BY <1>2, <1>6 DEF ReturnIsOutcome
<1>8. QED
  BY <1>1, <1>2, <1>3, <1>4, <1>5, <1>7 DEF Admitted

\* A matched response takes the call out of the pending map.
LEMMA OwnerResponse ==
  ASSUME TypeOK, OwnerInv, claimResponse
  PROVE  OwnerInv'
<1> USE DEF OwnerInv
<1>0. /\ recvPC = "response" /\ recvArg \in IDs
      /\ UNCHANGED <<cause, claims, teardown, nextID, pc, callID, completed, result, ret>>
  BY DEF claimResponse, TypeOK, callVars
<1>1. CASE pending[recvArg] = None
  <2>1. SameReceive /\ SamePhase /\ recvPC' = "read" /\ UNCHANGED pending
    BY <1>0, <1>1 DEF claimResponse, Receive, SameReceive, SamePhase, InReceive
  <2>2. QED
    BY <1>0, <2>1, OwnerQuiet
<1>2. CASE pending[recvArg] # None
  <2>1. PICK c \in Calls :
        /\ pending[recvArg] = c /\ callID[c] = recvArg
        /\ recvPC' = "decode" /\ recvArg' = c
        /\ pending' = [pending EXCEPT ![recvArg] = None]
    BY <1>0, <1>2 DEF claimResponse, Receive, TypeOK, IDsNeverReused
  <2>2. InPending(c)
    BY <1>0, <2>1 DEF InPending
  <2>3. ~InReceive(c) /\ c \notin claims /\ completed[c] = 0 /\ Admitted(c)
    BY <2>1, <2>2 DEF ExactlyOneOwner
  <2>4. \A d \in Calls : InReceive(d)' <=> d = c
    BY <2>1 DEF InReceive
  <2>5. \A d \in Calls : ~InReceive(d)
    BY <1>0 DEF InReceive
  <2>6. ~InPending(c)'
    <3>1. SUFFICES ASSUME NEW i \in IDs PROVE pending'[i] # c
      BY DEF InPending
    <3>2. c # None
      BY <1>2, <2>1
    <3>3. CASE i = recvArg
      BY <2>1, <3>2, <3>3 DEF TypeOK
    <3>4. CASE i # recvArg
      BY <2>1, <3>2, <3>4 DEF TypeOK, IDsNeverReused
    <3>5. QED
      BY <3>3, <3>4
  <2>7. \A d \in Calls : d # c => (InPending(d)' <=> InPending(d))
    BY <1>0, <2>1, ProcsAssumption DEF InPending, TypeOK, Procs
  <2>8. \A d \in Calls : Admitted(d)' <=> Admitted(d)
    BY <1>0 DEF Admitted
  <2>9. ExactlyOneOwner'
    <3>1. ASSUME NEW d \in Calls, d # c
          PROVE  /\ InPending(d)' <=> InPending(d)
                 /\ InReceive(d)' <=> InReceive(d)
                 /\ Admitted(d)' <=> Admitted(d)
      BY <2>4, <2>5, <2>7, <2>8, <3>1
    <3>2. InReceive(c)' /\ Admitted(c)'
      BY <2>1, <2>3, <2>4, <2>8
    <3>3. QED
      BY <1>0, <2>1, <2>3, <2>6, <3>1, <3>2 DEF ExactlyOneOwner
  <2>10. IDsNeverReused'
    BY <1>0, <2>1 DEF IDsNeverReused, TypeOK
  <2>11. CompletedOnce' /\ ReturnIsOutcome'
    BY <1>0 DEF CompletedOnce, ReturnIsOutcome
  <2>12. \A i \in IDs : pending[i] = None => pending'[i] = None
    BY <2>1 DEF TypeOK
  <2>13. QED
    BY <1>0, <2>1, <2>8, <2>9, <2>10, <2>11, <2>12
<1>3. QED
  BY <1>1, <1>2

\* A call that finds its context done while its entry is in the map settles
\* itself.
LEMMA OwnerCancel ==
  ASSUME TypeOK, OwnerInv, NEW c \in Calls, CallCancel(c)
  PROVE  OwnerInv'
<1> USE DEF OwnerInv
<1>0. /\ Admitted(c) /\ callID[c] \in IDs
      /\ UNCHANGED <<cause, claims, teardown, nextID, callID, recvPC, recvArg>>
  BY DEF CallCancel, Admitted, TypeOK, recvVars
<1>1. pending[callID[c]] = c
  <2>1. pending[callID[c]] \in Calls
    BY <1>0 DEF CallCancel, TypeOK
  <2>2. QED
    BY <1>0, <2>1, ProcsAssumption DEF IDsNeverReused, Procs
<1>2. ~InReceive(c) /\ c \notin claims /\ completed[c] = 0 /\ cause = "nil"
  BY <1>0, <1>1, ProcsAssumption DEF ExactlyOneOwner, InPending, Procs
<1>3. /\ completed'[c] = 1 /\ result'[c] = "callCtx.Err" /\ ret'[c] = "callCtx.Err"
      /\ pc'[c] = "returned"
      /\ \A d \in Calls : d # c => /\ completed'[d] = completed[d]
                                   /\ result'[d] = result[d] /\ ret'[d] = ret[d]
                                   /\ pc'[d] = pc[d]
      /\ pending' = [pending EXCEPT ![callID[c]] = None]
  BY <1>2 DEF CallCancel, Return, Goto, TypeOK, Procs
<1>4. ~InPending(c)'
  BY <1>0, <1>1, <1>3, ProcsAssumption DEF InPending, IDsNeverReused, TypeOK, Procs
<1>5. \A d \in Calls : d # c => /\ InPending(d)' <=> InPending(d)
                                /\ Admitted(d)' <=> Admitted(d)
  BY <1>0, <1>1, <1>3, ProcsAssumption DEF InPending, Admitted, TypeOK, Procs
<1>6. \A d \in Calls : InReceive(d)' <=> InReceive(d)
  BY <1>0 DEF InReceive
<1>7. ~Admitted(c)'
  BY <1>3 DEF Admitted
<1>8. ExactlyOneOwner'
  BY <1>0, <1>2, <1>3, <1>4, <1>5, <1>6, <1>7 DEF ExactlyOneOwner
<1>9. IDsNeverReused'
  BY <1>0, <1>3 DEF IDsNeverReused, TypeOK
<1>10. CompletedOnce' /\ ReturnIsOutcome'
  BY <1>0, <1>3 DEF CompletedOnce, ReturnIsOutcome
<1>11. \A i \in IDs : pending[i] = None => pending'[i] = None
  BY <1>3 DEF TypeOK
<1>12. \A d \in Calls :
        /\ callID'[d] # None => callID'[d] < nextID'
        /\ Admitted(d)' => callID'[d] # None
        /\ pc'[d] \in {"idle", "encode", "gate", "admit"} => callID'[d] = None
        /\ callID'[d] = None => completed'[d] = 0
        /\ ret'[d] # "nil" => pc'[d] = "returned"
  BY <1>0, <1>3, <1>5, <1>7
<1>13. QED
  BY <1>0, <1>2, <1>8, <1>9, <1>10, <1>12

\* A settled call returns its recorded result.
LEMMA OwnerDone ==
  ASSUME TypeOK, OwnerInv, NEW c \in Calls, CallDone(c)
  PROVE  OwnerInv'
<1> USE DEF OwnerInv
<1>0. /\ Admitted(c) /\ completed[c] = 1 /\ callID[c] # None
      /\ UNCHANGED <<connVars, nextID, callID, completed, result, recvPC, recvArg>>
  BY DEF CallDone, Admitted, TypeOK, recvVars, CompletedOnce
<1>1. /\ pc'[c] = "returned" /\ ret'[c] = result[c]
      /\ \A d \in Calls : d # c => pc'[d] = pc[d] /\ ret'[d] = ret[d]
  BY DEF CallDone, Return, Goto, TypeOK, Procs
<1>2. \A d \in Calls : /\ InPending(d)' <=> InPending(d)
                       /\ InReceive(d)' <=> InReceive(d)
                       /\ d # c => (Admitted(d)' <=> Admitted(d))
  BY <1>0, <1>1 DEF InPending, InReceive, Admitted, connVars
<1>3. ~Admitted(c)'
  BY <1>1 DEF Admitted
<1>4. ExactlyOneOwner'
  BY <1>0, <1>1, <1>2, <1>3 DEF ExactlyOneOwner, connVars
<1>5. IDsNeverReused' /\ CompletedOnce'
  BY <1>0 DEF IDsNeverReused, CompletedOnce, connVars
<1>6. ReturnIsOutcome'
  BY <1>0, <1>1 DEF ReturnIsOutcome
<1>7. QED
  BY <1>0, <1>1, <1>2, <1>3, <1>4, <1>5, <1>6 DEF connVars

\* Every step keeps the ownership invariant.
LEMMA OwnerStep == TypeOK /\ OwnerInv /\ [Next]_vars => OwnerInv'
<1> SUFFICES ASSUME TypeOK, OwnerInv, [Next]_vars PROVE OwnerInv'
  OBVIOUS
<1>a. {"ErrClosed", "ctx.Err", "ErrRead", "ErrResponse", "ErrDuplicate", "ErrWrite"} \subseteq Causes
  BY DEF Causes
<1>1. CASE ConnectionStep
  <2> USE DEF SamePhase, SameReceive, InReceive, callVars, recvVars
  <2>1. CASE Close
    BY <1>a, <2>1, OwnerTerminal DEF Close
  <2>2. CASE TeardownClose
    BY <2>2, OwnerQuiet DEF TeardownClose
  <2>3. CASE TeardownCancel
    <3>1. claims = {}
      BY <2>3 DEF TeardownCancel, OwnerInv
    <3>2. QED
      BY <2>3, <3>1, OwnerQuiet DEF TeardownCancel
  <2>4. CASE ContextDone
    BY <2>4, OwnerQuiet DEF ContextDone, connVars
  <2>5. CASE ObserveContext
    <3>1. CASE selectTerminal("ctx.Err")
      BY <1>a, <2>5, <3>1, OwnerTerminal DEF ObserveContext
    <3>2. CASE UNCHANGED connVars
      BY <2>5, <3>2, OwnerQuiet DEF ObserveContext, connVars
    <3>3. QED
      BY <2>5, <3>1, <3>2 DEF ObserveContext
  <2>6. CASE Wait
    BY <2>6, OwnerQuiet DEF Wait, connVars
  <2>7. QED
    BY <1>1, <2>1, <2>2, <2>3, <2>4, <2>5, <2>6 DEF ConnectionStep
<1>2. CASE ReceiveStep
  <2> USE DEF SamePhase, callVars, Receive
  <2>1. CASE ReadError
    BY <1>a, <2>1, OwnerTerminal DEF ReadError, SameReceive, InReceive
  <2>2. CASE claimResponse
    BY <2>2, OwnerResponse
  <2>3. CASE DecodeOk
    <3>1. PICK c \in Calls : c = recvArg
      BY <2>3 DEF DecodeOk, TypeOK
    <3>2. /\ InReceive(c) /\ complete(c, "ok") /\ \A d \in Calls : ~InReceive(d)'
          /\ \A d \in Calls \ {c} : ~InReceive(d)
          /\ UNCHANGED <<cause, claims, teardown, pending, nextID, pc>>
          /\ recvPC' = "read"
      BY <2>3, <3>1 DEF DecodeOk, InReceive, connVars
    <3>3. c \notin claims
      BY <3>2 DEF OwnerInv, ExactlyOneOwner
    <3>4. QED
      BY <3>2, <3>3, OwnerComplete
  <2>4. CASE DecodeError
    BY <1>a, <2>4, OwnerTerminal DEF DecodeError, SameReceive, InReceive
  <2>5. CASE DecodeFailed
    <3>1. PICK c \in Calls : c = recvArg
      BY <2>5 DEF DecodeFailed, TypeOK
    <3>2. /\ InReceive(c) /\ complete(c, cause) /\ \A d \in Calls : ~InReceive(d)'
          /\ \A d \in Calls \ {c} : ~InReceive(d)
          /\ UNCHANGED <<cause, claims, teardown, pending, nextID, pc>>
          /\ recvPC' = "read"
      BY <2>5, <3>1 DEF DecodeFailed, InReceive, connVars
    <3>3. c \notin claims
      BY <3>2 DEF OwnerInv, ExactlyOneOwner
    <3>4. QED
      BY <3>2, <3>3, OwnerComplete
  <2>6. CASE DuplicateExit
    BY <1>a, <2>6, OwnerTerminal DEF DuplicateExit, SameReceive, InReceive
  <2>7. QED
    BY <1>2, <2>1, <2>2, <2>3, <2>4, <2>5, <2>6 DEF ReceiveStep
<1>3. ASSUME NEW i \in IDs, ReadResponse(i) PROVE OwnerInv'
  BY <1>3, OwnerQuiet DEF ReadResponse, Receive, SamePhase, SameReceive, InReceive, connVars,
                          callVars
<1>4. ASSUME NEW r \in Requests, NEW i \in WireIDs, ReadRequest(r, i) PROVE OwnerInv'
  <2>1. \A c \in Calls : pc'[c] = pc[c]
    BY <1>4, ProcsAssumption DEF ReadRequest, Goto, TypeOK, Procs
  <2>2. QED
    BY <1>4, <2>1, OwnerQuiet DEF ReadRequest, Receive, SamePhase, SameReceive, InReceive,
                                  connVars, callVars
<1>5. ASSUME NEW p \in Procs, AcquireGate(p) \/ WriteStep(p) PROVE OwnerInv'
  <2>0. SameReceive /\ UNCHANGED <<nextID, callVars, recvVars>>
    BY <1>5 DEF AcquireGate, WriteStep, WritePrefix, WriteAccept, WriteReturn, WriteError,
                WriteFailed, SameReceive, InReceive, recvVars
  <2>1. SamePhase
    <3>1. ASSUME NEW c \in Calls, pc'[c] # pc[c]
          PROVE  \/ pc[c] = "gate" /\ pc'[c] = "admit"
                 \/ Admitted(c) /\ Admitted(c)'
      BY <1>5, <3>1 DEF AcquireGate, WriteStep, WritePrefix, WriteAccept, WriteReturn,
                        WriteError, WriteFailed, Goto, TypeOK, Admitted, Procs
    <3>2. QED
      BY <2>0, <3>1 DEF SamePhase, callVars
  <2>2. CASE WriteFailed(p)
    BY <1>a, <2>0, <2>1, <2>2, OwnerTerminal DEF WriteFailed, callVars
  <2>3. CASE ~WriteFailed(p)
    <3>1. UNCHANGED connVars
      BY <1>5, <2>3 DEF AcquireGate, WriteStep, WritePrefix, WriteAccept, WriteReturn, WriteError
    <3>2. QED
      BY <2>0, <2>1, <3>1, OwnerQuiet DEF callVars, connVars, recvVars
  <2>4. QED
    BY <2>2, <2>3
<1>6. ASSUME NEW c \in Calls, CallStep(c) PROVE OwnerInv'
  <2>0. /\ callReady(c) \in Results \cup {"nil"} /\ callReady(c) # "ok"
        /\ cause \in Results \cup {"nil"} /\ cause # "ok"
        /\ {"ErrArgument", "ErrEncode", "ErrRequestIDsExhausted", "callCtx.Err"}
             \subseteq Results \ {"ok"}
        /\ "nil" \notin Results
    BY DEF TypeOK, callReady, Results, Causes, LocalErrors
  <2>1. CASE CallReject(c)
    BY <2>0, <2>1, OwnerRefused DEF CallReject
  <2>2. CASE CallStart(c)
    <3>1. CASE callReady(c) = "nil"
      BY <2>2, <3>1, OwnerQuiet DEF CallStart, SamePhase, SameReceive, InReceive, connVars,
                                    recvVars, Goto, TypeOK, Procs
    <3>2. CASE callReady(c) # "nil"
      BY <2>0, <2>2, <3>2, OwnerRefused DEF CallStart
    <3>3. QED
      BY <3>1, <3>2
  <2>3. CASE CallEncode(c)
    <3>1. CASE Goto(c, "gate") /\ UNCHANGED ret
      BY <2>3, <3>1, OwnerQuiet DEF CallEncode, SamePhase, SameReceive, InReceive, connVars,
                                    recvVars, Goto, TypeOK, Procs
    <3>2. CASE Return(c, "ErrEncode")
      BY <2>0, <2>3, <3>2, OwnerRefused DEF CallEncode
    <3>3. CASE callReady(c) # "nil" /\ Return(c, callReady(c))
      BY <2>0, <2>3, <3>3, OwnerRefused DEF CallEncode
    <3>4. QED
      BY <2>3, <3>1, <3>2, <3>3 DEF CallEncode
  <2>4. CASE CallGateLost(c)
    BY <2>0, <2>4, OwnerRefused DEF CallGateLost
  <2>5. CASE CallRefuse(c)
    BY <2>0, <2>5, OwnerRefused DEF CallRefuse
  <2>6. CASE CallAdmit(c)
    BY <2>6, OwnerAdmit
  <2>7. CASE CallDone(c)
    BY <2>7, OwnerDone
  <2>8. CASE CallCancel(c)
    BY <2>8, OwnerCancel
  <2>9. CASE CallContextDone(c)
    BY <2>9, OwnerQuiet DEF CallContextDone, SamePhase, SameReceive, InReceive, connVars,
                            callVars, recvVars
  <2>10. CASE TeardownComplete(c)
    <3>1. /\ c \in claims /\ complete(c, cause) /\ claims' = claims \ {c}
          /\ UNCHANGED <<cause, teardown, pending, nextID, pc, recvPC, recvArg>>
      BY <2>10 DEF TeardownComplete, recvVars
    <3>2. ~InReceive(c)
      BY <3>1 DEF OwnerInv, ExactlyOneOwner
    <3>3. \A d \in Calls : InReceive(d)' <=> InReceive(d)
      BY <3>1 DEF InReceive
    <3>4. QED
      BY <3>1, <3>2, <3>3, OwnerComplete
  <2>11. QED
    BY <1>6, <2>1, <2>2, <2>3, <2>4, <2>5, <2>6, <2>7, <2>8, <2>9, <2>10 DEF CallStep
<1>7. ASSUME NEW r \in Requests, HandlerStep(r) PROVE OwnerInv'
  <2>1. \A c \in Calls : pc'[c] = pc[c]
    <3>1. CASE completeIncomingWrite(r)
      <4>1. incoming[reqID[r]].deferred \in Requests \cup {None}
        BY <3>1, DeferredType DEF completeIncomingWrite, TypeOK
      <4>2. QED
        BY <3>1, <4>1, ProcsAssumption DEF completeIncomingWrite, Goto, TypeOK, Procs
    <3>2. CASE ~completeIncomingWrite(r)
      BY <1>7, <3>2, ProcsAssumption
      DEF HandlerStep, admitIncoming, AdmitDiscard, AdmitDispatch, AdmitDeferred, AdmitTerminal,
          Dispatch, HandlerGateLost, HandlerAbandon, HandlerAdmit, Goto, TypeOK, Procs
    <3>3. QED
      BY <3>1, <3>2
  <2>2. /\ UNCHANGED <<cause, claims, teardown, pending, nextID, callVars>>
        /\ \/ UNCHANGED recvVars
           \/ recvPC = "request" /\ recvPC' \in {"read", "duplicate", "exit"}
    BY <1>7 DEF HandlerStep, admitIncoming, AdmitDiscard, AdmitDispatch, AdmitDeferred,
                AdmitTerminal, Receive, Dispatch, HandlerGateLost, HandlerAbandon, HandlerAdmit,
                completeIncomingWrite, connVars
  <2>3. SameReceive /\ SamePhase
    BY <2>1, <2>2 DEF SameReceive, SamePhase, InReceive, recvVars, callVars
  <2>4. QED
    BY <2>2, <2>3, OwnerQuiet DEF callVars, recvVars
<1>8. CASE UNCHANGED vars
  BY <1>8, OwnerQuiet DEF vars, SamePhase, SameReceive, InReceive, connVars, callVars, recvVars
<1>9. QED
  BY <1>1, <1>2, <1>3, <1>4, <1>5, <1>6, <1>7, <1>8 DEF Next

\* Nothing has an owner initially.
LEMMA OwnerInit == Init => OwnerInv
<1> SUFFICES ASSUME Init PROVE OwnerInv
  OBVIOUS
<1>1. \A c \in Calls : ~InPending(c) /\ ~InReceive(c) /\ ~Admitted(c) /\ pc[c] = "idle"
  BY ProcsAssumption DEF Init, InPending, InReceive, Admitted, Procs
<1>2. QED
  BY <1>1 DEF Init, OwnerInv, IDsNeverReused, CompletedOnce, ExactlyOneOwner, ReturnIsOutcome

\* The ownership invariant holds in every behaviour.
THEOREM Ownership == Spec => []OwnerInv
BY TypeCorrect, OwnerInit, OwnerStep, PTL DEF Spec

\* Every admitted, unsettled call has exactly one owner that settles it.
THEOREM OneOwner == Spec => []ExactlyOneOwner
<1>1. OwnerInv => ExactlyOneOwner
  BY DEF OwnerInv
<1>2. QED
  BY Ownership, <1>1, PTL

\* No interleaving of response, cancellation and teardown settles a call
\* twice.
THEOREM SettledOnce == Spec => []CompletedOnce
<1>1. OwnerInv => CompletedOnce
  BY DEF OwnerInv
<1>2. QED
  BY Ownership, <1>1, PTL

\* What Call returns is what the owner of its outcome settled: success only
\* with a decoded response, and never nil for an outcome another owner took.
THEOREM ReturnsOutcome == Spec => []ReturnIsOutcome
<1>1. OwnerInv => ReturnIsOutcome
  BY DEF OwnerInv
<1>2. QED
  BY Ownership, <1>1, PTL

-----------------------------------------------------------------------------
(* Termination                                                             *)

\* Terminal selection starts the cleanup owner together with the cause.
LEMMA LifeTerminal ==
  ASSUME LifeInv, NEW e \in Causes, selectTerminal(e), UNCHANGED closes
  PROVE  LifeInv'
<1>0. e # "nil"
  BY DEF Causes
<1>1. CASE cause # "nil"
  BY <1>1 DEF LifeInv, TerminalDrained, selectTerminal, connVars
<1>2. CASE cause = "nil"
  BY <1>0, <1>2 DEF LifeInv, TerminalDrained, selectTerminal
<1>3. QED
  BY <1>1, <1>2

\* Steps that leave the connection state alone.
LEMMA LifeQuiet == LifeInv /\ UNCHANGED <<connVars, closes>> => LifeInv'
BY DEF LifeInv, TerminalDrained, connVars

\* Every step keeps LifeInv; the map updates of a goroutine that lost against
\* terminal selection find the maps drained.
LEMMA LifeStep == TypeOK /\ LifeInv /\ [Next]_vars => LifeInv'
<1> SUFFICES ASSUME TypeOK, LifeInv, [Next]_vars PROVE LifeInv'
  OBVIOUS
<1>a. {"ErrClosed", "ctx.Err", "ErrRead", "ErrResponse", "ErrDuplicate", "ErrWrite"} \subseteq Causes
  BY DEF Causes
<1>1. CASE ConnectionStep
  <2>1. CASE Close
    BY <1>a, <2>1, LifeTerminal DEF Close, lifeVars
  <2>2. CASE TeardownClose
    BY <2>2 DEF TeardownClose, LifeInv, TerminalDrained
  <2>3. CASE TeardownCancel
    BY <2>3 DEF TeardownCancel, LifeInv, TerminalDrained
  <2>4. CASE ContextDone
    BY <2>4, LifeQuiet DEF ContextDone
  <2>5. CASE ObserveContext
    BY <1>a, <2>5, LifeQuiet, LifeTerminal DEF ObserveContext
  <2>6. CASE Wait
    BY <2>6, LifeQuiet DEF Wait
  <2>7. QED
    BY <1>1, <2>1, <2>2, <2>3, <2>4, <2>5, <2>6 DEF ConnectionStep
<1>2. CASE ReceiveStep
  <2>1. CASE claimResponse
    <3>1. ASSUME cause # "nil" PROVE pending' = pending
      BY <2>1, <3>1 DEF claimResponse, LifeInv, TerminalDrained, TypeOK
    <3>2. QED
      BY <2>1, <3>1 DEF claimResponse, LifeInv, TerminalDrained, lifeVars
  <2>2. CASE DecodeOk \/ DecodeFailed
    BY <2>2, LifeQuiet DEF DecodeOk, DecodeFailed, lifeVars
  <2>3. CASE ReadError \/ DecodeError \/ DuplicateExit
    BY <1>a, <2>3, LifeTerminal DEF ReadError, DecodeError, DuplicateExit, lifeVars
  <2>4. QED
    BY <1>2, <2>1, <2>2, <2>3 DEF ReceiveStep
<1>3. ASSUME NEW i \in IDs, ReadResponse(i) PROVE LifeInv'
  BY <1>3, LifeQuiet DEF ReadResponse, lifeVars
<1>4. ASSUME NEW r \in Requests, NEW i \in WireIDs, ReadRequest(r, i) PROVE LifeInv'
  BY <1>4, LifeQuiet DEF ReadRequest, lifeVars
<1>5. ASSUME NEW p \in Procs, AcquireGate(p) \/ WriteStep(p) PROVE LifeInv'
  <2>1. CASE WriteFailed(p)
    BY <1>a, <2>1, LifeTerminal DEF WriteFailed, lifeVars
  <2>2. CASE ~WriteFailed(p)
    BY <1>5, <2>2, LifeQuiet DEF AcquireGate, WriteStep, WritePrefix, WriteAccept, WriteReturn,
                                 WriteError, lifeVars
  <2>3. QED
    BY <2>1, <2>2
<1>6. ASSUME NEW c \in Calls, CallStep(c) PROVE LifeInv'
  <2>1. CASE CallAdmit(c)
    BY <2>1 DEF CallAdmit, callReady, LifeInv, TerminalDrained, lifeVars
  <2>2. CASE CallCancel(c)
    <3>1. ASSUME cause # "nil" PROVE \A i \in IDs : pending'[i] = None
      BY <2>2, <3>1 DEF CallCancel, LifeInv, TerminalDrained, TypeOK
    <3>2. QED
      BY <2>2, <3>1 DEF CallCancel, LifeInv, TerminalDrained, lifeVars
  <2>3. CASE TeardownComplete(c)
    BY <2>3 DEF TeardownComplete, LifeInv, TerminalDrained, lifeVars
  <2>4. CASE ~(CallAdmit(c) \/ CallCancel(c) \/ TeardownComplete(c))
    BY <1>6, <2>4, LifeQuiet DEF CallStep, CallReject, CallStart, CallEncode, CallGateLost,
                                 CallRefuse, CallDone, CallContextDone, lifeVars
  <2>5. QED
    BY <2>1, <2>2, <2>3, <2>4
<1>7. ASSUME NEW r \in Requests, HandlerStep(r) PROVE LifeInv'
  <2>1. CASE admitIncoming(r)
    BY <2>1 DEF admitIncoming, AdmitDiscard, AdmitDispatch, AdmitDeferred, AdmitTerminal,
                LifeInv, TerminalDrained, lifeVars
  <2>2. CASE HandlerAdmit(r)
    BY <2>2 DEF HandlerAdmit, LifeInv, TerminalDrained, lifeVars
  <2>3. CASE completeIncomingWrite(r)
    <3>1. ASSUME cause # "nil" PROVE incoming' = incoming
      BY <2>3, <3>1 DEF completeIncomingWrite, LifeInv, TerminalDrained, TypeOK, Free
    <3>2. QED
      BY <2>3, <3>1 DEF completeIncomingWrite, LifeInv, TerminalDrained, lifeVars
  <2>4. CASE Dispatch(r) \/ HandlerGateLost(r) \/ HandlerAbandon(r)
    BY <2>4, LifeQuiet DEF Dispatch, HandlerGateLost, HandlerAbandon, lifeVars
  <2>5. QED
    BY <1>7, <2>1, <2>2, <2>3, <2>4 DEF HandlerStep
<1>8. CASE UNCHANGED vars
  BY <1>8, LifeQuiet DEF vars, lifeVars
<1>9. QED
  BY <1>1, <1>2, <1>3, <1>4, <1>5, <1>6, <1>7, <1>8 DEF Next

\* A new connection is active and its stream open.
LEMMA LifeInit == Init => LifeInv
BY DEF Init, LifeInv, TerminalDrained

\* Terminal publication drains both maps for good.
THEOREM Drained == Spec => []TerminalDrained
<1>1. LifeInv => TerminalDrained
  BY DEF LifeInv
<1>2. QED
  BY TypeCorrect, LifeInit, LifeStep, <1>1, PTL DEF Spec

-----------------------------------------------------------------------------
(* Wait                                                                    *)

\* How far the teardown is tells what has been done, and Wait returned after
\* the last of it and after the receive loop.
WaitInv ==
  /\ teardown \in {"cancel", "done"} => closes = 1
  /\ teardown = "done" => hcancel
  /\ waiter # "nil" => teardown = "done" /\ recvPC = "exit" /\ waiter = cause

\* Steps that leave the lifecycle alone; the receive loop stays exited.
LEMMA WaitQuiet ==
  ASSUME WaitInv, UNCHANGED <<cause, teardown, closes, hcancel, waiter>>,
         recvPC = "exit" => recvPC' = "exit"
  PROVE  WaitInv'
BY DEF WaitInv

\* Terminal selection: the second one changes nothing, the first one finds no
\* teardown and nobody past Wait.
LEMMA WaitTerminal ==
  ASSUME LifeInv, WaitInv, NEW e \in Causes, selectTerminal(e),
         UNCHANGED <<closes, hcancel, waiter>>, recvPC = "exit" => recvPC' = "exit"
  PROVE  WaitInv'
<1>1. CASE cause # "nil"
  BY <1>1, WaitQuiet DEF selectTerminal, connVars
<1>2. CASE cause = "nil"
  BY <1>2 DEF LifeInv, WaitInv, selectTerminal
<1>3. QED
  BY <1>1, <1>2

\* Every step keeps WaitInv.
LEMMA WaitStep == TypeOK /\ LifeInv /\ WaitInv /\ [Next]_vars => WaitInv'
<1> SUFFICES ASSUME TypeOK, LifeInv, WaitInv, [Next]_vars PROVE WaitInv'
  OBVIOUS
<1>a. {"ErrClosed", "ctx.Err", "ErrRead", "ErrResponse", "ErrDuplicate", "ErrWrite"} \subseteq Causes
  BY DEF Causes
<1>1. CASE ConnectionStep
  <2>1. CASE Close
    BY <1>a, <2>1, WaitTerminal DEF Close, lifeVars, recvVars
  <2>2. CASE TeardownClose
    BY <2>2 DEF TeardownClose, LifeInv, WaitInv
  <2>3. CASE TeardownCancel
    BY <2>3 DEF TeardownCancel, WaitInv
  <2>4. CASE ContextDone
    BY <2>4, WaitQuiet DEF ContextDone, connVars, recvVars
  <2>5. CASE ObserveContext
    BY <1>a, <2>5, WaitQuiet, WaitTerminal DEF ObserveContext, connVars, recvVars
  <2>6. CASE Wait
    BY <2>6 DEF Wait, WaitInv, connVars, recvVars
  <2>7. QED
    BY <1>1, <2>1, <2>2, <2>3, <2>4, <2>5, <2>6 DEF ConnectionStep
<1>2. CASE ReceiveStep
  <2>1. CASE claimResponse \/ DecodeOk \/ DecodeFailed
    BY <2>1, WaitQuiet DEF claimResponse, DecodeOk, DecodeFailed, lifeVars, connVars
  <2>2. CASE ReadError \/ DecodeError \/ DuplicateExit
    BY <1>a, <2>2, WaitTerminal DEF ReadError, DecodeError, DuplicateExit, Receive, lifeVars
  <2>3. QED
    BY <1>2, <2>1, <2>2 DEF ReceiveStep
<1>3. ASSUME NEW i \in IDs, ReadResponse(i) PROVE WaitInv'
  BY <1>3, WaitQuiet DEF ReadResponse, connVars, lifeVars
<1>4. ASSUME NEW r \in Requests, NEW i \in WireIDs, ReadRequest(r, i) PROVE WaitInv'
  BY <1>4, WaitQuiet DEF ReadRequest, connVars, lifeVars
<1>5. ASSUME NEW p \in Procs, AcquireGate(p) \/ WriteStep(p) PROVE WaitInv'
  <2>1. CASE WriteFailed(p)
    BY <1>a, <2>1, WaitTerminal DEF WriteFailed, lifeVars, recvVars
  <2>2. CASE ~WriteFailed(p)
    BY <1>5, <2>2, WaitQuiet DEF AcquireGate, WriteStep, WritePrefix, WriteAccept, WriteReturn,
                                 WriteError, connVars, lifeVars, recvVars
  <2>3. QED
    BY <2>1, <2>2
<1>6. ASSUME NEW c \in Calls, CallStep(c) PROVE WaitInv'
  BY <1>6, WaitQuiet DEF CallStep, CallReject, CallStart, CallEncode, CallGateLost, CallRefuse,
                         CallAdmit, CallDone, CallCancel, CallContextDone, TeardownComplete,
                         connVars, lifeVars, recvVars
<1>7. ASSUME NEW r \in Requests, HandlerStep(r) PROVE WaitInv'
  <2>1. CASE admitIncoming(r)
    BY <2>1, WaitQuiet DEF admitIncoming, AdmitDiscard, AdmitDispatch, AdmitDeferred,
                           AdmitTerminal, connVars, lifeVars
  <2>2. CASE ~admitIncoming(r)
    BY <1>7, <2>2, WaitQuiet DEF HandlerStep, HandlerAdmit, completeIncomingWrite, Dispatch,
                                 HandlerGateLost, HandlerAbandon, connVars, lifeVars, recvVars
  <2>3. QED
    BY <2>1, <2>2
<1>8. CASE UNCHANGED vars
  BY <1>8, WaitQuiet DEF vars, connVars, lifeVars, recvVars
<1>9. QED
  BY <1>1, <1>2, <1>3, <1>4, <1>5, <1>6, <1>7, <1>8 DEF Next

\* Wait returns the permanent cause, and only after every admitted call has
\* been settled, the stream closed once and the handlers cancelled: with the
\* maps drained, the claims completed and the receive loop gone, an unsettled
\* call would have no owner.
THEOREM WaitIsComplete == Spec => []WaitComplete
<1>1. Init => WaitInv
  BY DEF Init, WaitInv
<1>2. TypeOK /\ LifeInv /\ OwnerInv /\ WaitInv => WaitComplete
  <2> SUFFICES ASSUME TypeOK, LifeInv, OwnerInv, WaitInv, waiter # "nil"
               PROVE  /\ waiter = cause /\ closes = 1 /\ hcancel /\ claims = {}
                      /\ \A c \in Calls : Admitted(c) => completed[c] = 1
    BY DEF WaitComplete
  <2>1. waiter = cause /\ closes = 1 /\ hcancel /\ teardown = "done" /\ recvPC = "exit"
    BY DEF WaitInv
  <2>2. claims = {}
    BY <2>1 DEF OwnerInv
  <2>3. ASSUME NEW c \in Calls, Admitted(c) PROVE completed[c] = 1
    <3>1. ~InPending(c)
      BY <2>1, ProcsAssumption DEF LifeInv, TerminalDrained, InPending, Procs
    <3>2. completed[c] # 0
      BY <2>1, <2>2, <2>3, <3>1 DEF OwnerInv, ExactlyOneOwner, InReceive
    <3>3. completed[c] \in Nat /\ completed[c] <= 1
      BY DEF TypeOK, OwnerInv, CompletedOnce
    <3>4. QED
      BY <3>2, <3>3
  <2>4. QED
    BY <2>1, <2>2, <2>3
<1>3. QED
  BY TypeCorrect, Ownership, LifeInit, LifeStep, WaitStep, <1>1, <1>2, PTL DEF Spec

-----------------------------------------------------------------------------
(* Generations of an ID: steps that leave them alone                       *)

\* No request moves and no entry changes.
LEMMA GenerationQuiet ==
  ASSUME TypeOK, GenerationInv, UNCHANGED <<cause, incoming, reqID, accepted>>,
         \A r \in Requests : pc'[r] = pc[r],
         recvPC' = "request" => recvPC = "request" /\ recvArg' = recvArg
  PROVE  GenerationInv'
<1>1. \A i \in WireIDs : incoming[i].deferred # None => incoming[i].deferred \in Requests
  BY DeferredType
<1>2. recvPC = "request" => recvArg \in Requests
  BY DEF TypeOK
<1>3. \A r \in Requests : Live(r)' <=> Live(r)
  BY DEF Live
<1>4. QED
  BY <1>1, <1>2, <1>3 DEF GenerationInv

\* Terminal selection: the entries go, and whoever is live stays alone. A
\* request of the failed write leaves.
LEMMA GenerationTerminal ==
  ASSUME TypeOK, LifeInv, GenerationInv, NEW e \in Causes, selectTerminal(e),
         UNCHANGED <<reqID, accepted>>,
         \A r \in Requests : pc'[r] = pc[r] \/ (pc[r] = "failed" /\ pc'[r] = "exit"),
         recvPC' = "request" => recvPC = "request" /\ recvArg' = recvArg
  PROVE  GenerationInv'
<1>0. e # "nil"
  BY DEF Causes
<1>1. cause' # "nil" /\ \A i \in WireIDs : incoming'[i] = Free
  <2>1. CASE cause # "nil"
    BY <2>1 DEF selectTerminal, connVars, LifeInv, TerminalDrained
  <2>2. CASE cause = "nil"
    BY <1>0, <2>2 DEF selectTerminal
  <2>3. QED
    BY <2>1, <2>2
<1>2. \A i \in WireIDs : incoming'[i].deferred = None /\ incoming'[i].state # "active"
  BY <1>1 DEF Free
<1>3. \A r \in Requests : Live(r)' => Live(r)
  BY DEF Live
<1>4. recvPC' = "request" => pc'[recvArg'] = "buffered"
  BY DEF GenerationInv, TypeOK
<1>5. QED
  BY <1>1, <1>2, <1>3, <1>4 DEF GenerationInv

\* A step of a call is no step of a request.
LEMMA CallIsQuiet ==
  ASSUME TypeOK, NEW c \in Calls, CallStep(c)
  PROVE  /\ \A r \in Requests : pc'[r] = pc[r]
         /\ UNCHANGED <<cause, incoming, reqID, accepted, recvPC, recvArg>>
BY ProcsAssumption DEF TypeOK, CallStep, CallReject, CallStart, CallEncode, CallGateLost, CallRefuse,
   CallAdmit, CallDone, CallCancel, CallContextDone, TeardownComplete, Return, Goto, Procs,
   connVars, recvVars, wireVars

-----------------------------------------------------------------------------
(* Generations of an ID: steps of a request                                *)

\* A write step of a request: the phase of its entry covers the whole write.
LEMMA GenerationWrite ==
  ASSUME TypeOK, LifeInv, GenerationInv, NEW r \in Requests, AcquireGate(r) \/ WriteStep(r)
  PROVE  GenerationInv'
<1> USE ProcsAssumption
<1>0. /\ \A i \in WireIDs : incoming[i].deferred \in Requests \cup {None}
      /\ pc \in [Procs -> CallPC \cup RequestPC] /\ r \in Procs /\ r \notin Calls
  BY DeferredType DEF TypeOK, Procs
<1>1. CASE AcquireGate(r)
  BY <1>0, <1>1 DEF AcquireGate, Goto, GenerationInv, Live, TypeOK, connVars, recvVars, wireVars, Procs
<1>2. CASE WritePrefix(r)
  BY <1>2, GenerationQuiet DEF WritePrefix, connVars, recvVars
<1>3. CASE WriteAccept(r)
  BY <1>0, <1>3 DEF WriteAccept, Goto, GenerationInv, Live, TypeOK, connVars, recvVars, Procs
<1>4. CASE WriteReturn(r)
  BY <1>0, <1>4 DEF WriteReturn, Goto, GenerationInv, Live, TypeOK, connVars, recvVars, wireVars, Procs
<1>5. CASE WriteError(r)
  BY <1>0, <1>5 DEF WriteError, Goto, GenerationInv, Live, TypeOK, connVars, recvVars, wireVars, Procs
<1>6. CASE WriteFailed(r)
  <2>1. "ErrWrite" \in Causes
    BY DEF Causes
  <2>2. \A q \in Requests : pc'[q] = pc[q] \/ (pc[q] = "failed" /\ pc'[q] = "exit")
    BY <1>0, <1>6 DEF WriteFailed, Goto, Procs
  <2>3. QED
    BY <1>6, <2>1, <2>2, GenerationTerminal DEF WriteFailed, recvVars, wireVars
<1>7. QED
  BY <1>1, <1>2, <1>3, <1>4, <1>5, <1>6 DEF WriteStep

\* A frame is read: a new request that nothing knows of yet.
LEMMA GenerationRead ==
  ASSUME TypeOK, GenerationInv, NEW r \in Requests, NEW i \in WireIDs, ReadRequest(r, i)
  PROVE  GenerationInv'
<1> USE ProcsAssumption
<1>0. /\ \A j \in WireIDs : incoming[j].deferred \in Requests \cup {None}
      /\ pc \in [Procs -> CallPC \cup RequestPC] /\ r \in Procs
  BY DeferredType DEF TypeOK, Procs
<1>1. QED
  BY <1>0 DEF ReadRequest, Receive, Goto, GenerationInv, Live, TypeOK, connVars, wireVars, Procs

\* Admission, by the state of the ID.
LEMMA GenerationAdmit ==
  ASSUME TypeOK, LifeInv, GenerationInv, NEW r \in Requests, admitIncoming(r)
  PROVE  GenerationInv'
<1> USE ProcsAssumption
<1>0. /\ \A j \in WireIDs : incoming[j].deferred \in Requests \cup {None}
      /\ pc \in [Procs -> CallPC \cup RequestPC] /\ r \in Procs
      /\ pc[r] = "buffered" /\ reqID[r] \in WireIDs
      /\ UNCHANGED <<cause, reqID, accepted>>
  BY DeferredType DEF TypeOK, Procs, admitIncoming, GenerationInv, wireVars
<1>1. CASE AdmitDiscard(r) \/ AdmitTerminal(r)
  BY <1>0, <1>1 DEF AdmitDiscard, AdmitTerminal, Receive, Goto, GenerationInv, Live, Procs
<1>2. CASE AdmitDispatch(r)
  <2>1. cause = "nil" /\ incoming[reqID[r]].state = "free"
    BY <1>2 DEF AdmitDispatch
  <2>2. \A q \in Requests : reqID[q] = reqID[r] => ~Live(q)
    BY <2>1 DEF GenerationInv, Live
  <2>3. /\ pc'[r] = "dispatch" /\ \A q \in Requests : q # r => pc'[q] = pc[q]
        /\ recvPC' = "read"
    BY <1>0, <1>2 DEF AdmitDispatch, Goto, Receive, Procs
  <2>4. /\ incoming'[reqID[r]].state = "active" /\ incoming'[reqID[r]].deferred = None
        /\ \A i \in WireIDs : i # reqID[r] => incoming'[i] = incoming[i]
    BY <1>0, <1>2 DEF AdmitDispatch, TypeOK, Active
  <2>5. \A q \in Requests : q # r /\ reqID[q] = reqID[r] => pc[q] # "deferred"
    BY <1>0, <2>1, ProcsAssumption DEF GenerationInv, Procs
  <2>6. QED
    BY <1>0, <2>1, <2>2, <2>3, <2>4, <2>5 DEF GenerationInv, Live, TypeOK
<1>3. CASE AdmitDeferred(r)
  BY <1>0, <1>3 DEF AdmitDeferred, Receive, Goto, GenerationInv, Live, TypeOK, Procs
<1>4. QED
  BY <1>1, <1>2, <1>3 DEF admitIncoming

\* A handler moves on to its response write.
LEMMA GenerationHandle ==
  ASSUME TypeOK, LifeInv, GenerationInv, NEW r \in Requests,
         Dispatch(r) \/ HandlerGateLost(r) \/ HandlerAbandon(r) \/ HandlerAdmit(r)
  PROVE  GenerationInv'
<1> USE ProcsAssumption
<1>0. /\ \A j \in WireIDs : incoming[j].deferred \in Requests \cup {None}
      /\ pc \in [Procs -> CallPC \cup RequestPC] /\ r \in Procs
  BY DeferredType DEF TypeOK, Procs
<1>1. CASE Dispatch(r)
  BY <1>0, <1>1 DEF Dispatch, Goto, GenerationInv, Live, TypeOK, connVars, recvVars, wireVars, Procs
<1>2. CASE HandlerGateLost(r) \/ HandlerAbandon(r)
  <2>1. cause # "nil" /\ \A i \in WireIDs : incoming[i].state # "active" /\ incoming[i].deferred = None
    BY <1>2 DEF HandlerGateLost, HandlerAbandon, LifeInv, TerminalDrained, Free
  <2>2. QED
    BY <1>0, <1>2, <2>1 DEF HandlerGateLost, HandlerAbandon, Goto, GenerationInv, Live, TypeOK,
       connVars, recvVars, wireVars, Procs
<1>3. CASE HandlerAdmit(r)
  <2>1. /\ cause = "nil" /\ UNCHANGED <<cause, reqID, accepted, recvPC, recvArg>>
        /\ pc[r] = "admit" /\ pc'[r] = "write" /\ \A q \in Requests : q # r => pc'[q] = pc[q]
    BY <1>0, <1>3 DEF HandlerAdmit, Goto, Procs, recvVars, wireVars
  <2>2. reqID[r] \in WireIDs
    BY <2>1 DEF TypeOK
  <2>3. /\ incoming'[reqID[r]].state = "writing"
        /\ incoming'[reqID[r]].deferred = incoming[reqID[r]].deferred
        /\ \A i \in WireIDs : i # reqID[r] => incoming'[i] = incoming[i]
    BY <1>3, <2>2 DEF HandlerAdmit, markIncomingWriting, TypeOK, IncomingCall
  <2>4. \A q \in Requests : q # r /\ reqID[q] = reqID[r] => ~Live(q)
    BY <2>1 DEF GenerationInv, Live
  <2>5. \A q, s \in Requests : q # s /\ reqID[q] = reqID[s] => ~(Live(q)' /\ Live(s)')
    BY <2>1 DEF GenerationInv, Live
  <2>6. QED
    BY <1>0, <2>1, <2>2, <2>3, <2>4, <2>5 DEF GenerationInv, Live, TypeOK
<1>4. QED
  BY <1>1, <1>2, <1>3

\* The response write has returned: the ID is released, or its deferred
\* request becomes the one live generation.
LEMMA GenerationSettle ==
  ASSUME TypeOK, LifeInv, GenerationInv, NEW r \in Requests, completeIncomingWrite(r)
  PROVE  GenerationInv'
<1> USE ProcsAssumption
<1> DEFINE i == reqID[r]
           d == incoming[i].deferred
<1>0. /\ \A j \in WireIDs : incoming[j].deferred \in Requests \cup {None}
      /\ pc \in [Procs -> CallPC \cup RequestPC] /\ r \in Procs
      /\ pc[r] = "settle" /\ i \in WireIDs
      /\ UNCHANGED <<cause, reqID, accepted, recvPC, recvArg>>
  BY DeferredType DEF TypeOK, Procs, completeIncomingWrite, recvVars, wireVars
<1>1. \A q \in Requests : q # r /\ reqID[q] = i => ~Live(q)
  BY <1>0 DEF GenerationInv, Live
<1>2. CASE incoming[i].state = "free" /\ Goto(r, "exit") /\ UNCHANGED incoming
  BY <1>0, <1>2 DEF Goto, GenerationInv, Live, Procs, TypeOK
<1>3. CASE d = None /\ incoming[i].state # "free" /\ incoming' = [incoming EXCEPT ![i] = Free] /\ Goto(r, "exit")
  <2>1. /\ pc'[r] = "exit" /\ \A q \in Requests : q # r => pc'[q] = pc[q]
    BY <1>0, <1>3 DEF Goto, Procs
  <2>2. /\ incoming'[i].state = "free" /\ incoming'[i].deferred = None
        /\ \A j \in WireIDs : j # i => incoming'[j] = incoming[j]
    BY <1>0, <1>3 DEF TypeOK, Free
  <2>3. cause = "nil" => \A q \in Requests : reqID[q] = i => pc[q] # "deferred"
    BY <1>3 DEF GenerationInv, Procs
  <2>4. QED
    BY <1>0, <1>1, <2>1, <2>2, <2>3 DEF GenerationInv, Live, TypeOK
<1>4. CASE /\ d # None /\ incoming[i].state # "free" /\ incoming' = [incoming EXCEPT ![i] = Active]
           /\ pc' = [pc EXCEPT ![r] = "exit", ![d] = "dispatch"]
  <2>1. d \in Requests /\ d # r /\ pc[d] = "deferred" /\ reqID[d] = i
    BY <1>0, <1>4 DEF GenerationInv, TypeOK
  <2>2. /\ pc'[r] = "exit" /\ pc'[d] = "dispatch"
        /\ \A q \in Requests : q # r /\ q # d => pc'[q] = pc[q]
    BY <1>0, <1>4, <2>1 DEF Procs
  <2>3. /\ incoming'[i].state = "active" /\ incoming'[i].deferred = None
        /\ \A j \in WireIDs : j # i => incoming'[j] = incoming[j]
    BY <1>0, <1>4 DEF TypeOK, Active
  <2>4. cause = "nil" => \A q \in Requests : reqID[q] = i /\ q # d => pc[q] # "deferred"
    BY <2>1 DEF GenerationInv
  <2>5. \A j \in WireIDs : j # i => incoming[j].deferred # d
    BY <1>4, <2>1 DEF TypeOK
  <2>6. \A q, s \in Requests : q # s /\ reqID[q] = reqID[s] => ~(Live(q)' /\ Live(s)')
    BY <1>0, <1>1, <2>1, <2>2 DEF GenerationInv, Live
  <2>7. QED
    BY <1>0, <1>1, <2>1, <2>2, <2>3, <2>4, <2>5, <2>6 DEF GenerationInv, Live, TypeOK
<1>5. QED
  BY <1>2, <1>3, <1>4 DEF completeIncomingWrite

\* Every step keeps the generations apart.
LEMMA GenerationStep == TypeOK /\ LifeInv /\ GenerationInv /\ [Next]_vars => GenerationInv'
<1> SUFFICES ASSUME TypeOK, LifeInv, GenerationInv, [Next]_vars PROVE GenerationInv'
  OBVIOUS
<1>a. {"ErrClosed", "ctx.Err", "ErrRead", "ErrResponse", "ErrDuplicate", "ErrWrite"} \subseteq Causes
  BY DEF Causes
<1>1. CASE ConnectionStep
  <2>1. CASE Close
    BY <1>a, <2>1, GenerationTerminal DEF Close, recvVars, wireVars
  <2>2. CASE TeardownClose \/ TeardownCancel \/ ContextDone \/ Wait
    BY <2>2, GenerationQuiet DEF TeardownClose, TeardownCancel, ContextDone, Wait, connVars,
       recvVars, wireVars
  <2>3. CASE ObserveContext
    BY <1>a, <2>3, GenerationQuiet, GenerationTerminal DEF ObserveContext, connVars, recvVars, wireVars
  <2>4. QED
    BY <1>1, <2>1, <2>2, <2>3 DEF ConnectionStep
<1>2. CASE ReceiveStep
  <2>1. CASE claimResponse \/ DecodeOk \/ DecodeFailed
    BY <2>1, GenerationQuiet DEF claimResponse, DecodeOk, DecodeFailed, Receive, connVars, wireVars
  <2>2. CASE ReadError \/ DecodeError \/ DuplicateExit
    BY <1>a, <2>2, GenerationTerminal DEF ReadError, DecodeError, DuplicateExit, Receive, wireVars
  <2>3. QED
    BY <1>2, <2>1, <2>2 DEF ReceiveStep
<1>3. ASSUME NEW i \in IDs, ReadResponse(i) PROVE GenerationInv'
  BY <1>3, GenerationQuiet DEF ReadResponse, Receive, connVars, wireVars
<1>4. ASSUME NEW r \in Requests, NEW i \in WireIDs, ReadRequest(r, i) PROVE GenerationInv'
  BY <1>4, GenerationRead
<1>5. ASSUME NEW c \in Calls, AcquireGate(c) \/ WriteStep(c) PROVE GenerationInv'
  <2>1. \A r \in Requests : pc'[r] = pc[r]
    BY <1>5, ProcsAssumption DEF TypeOK, AcquireGate, WriteStep, WritePrefix, WriteAccept,
       WriteReturn, WriteError, WriteFailed, Goto, Procs
  <2>2. CASE WriteFailed(c)
    BY <1>a, <2>1, <2>2, GenerationTerminal DEF WriteFailed, recvVars, wireVars
  <2>3. CASE WriteAccept(c)
    <3>1. /\ UNCHANGED <<cause, incoming, reqID, recvPC, recvArg>>
          /\ \A r \in Requests : r \in accepted' <=> r \in accepted
      BY <2>3, ProcsAssumption DEF WriteAccept, connVars, recvVars
    <3>2. \A i \in WireIDs : incoming[i].deferred \in Requests \cup {None}
      BY DeferredType
    <3>3. recvPC = "request" => recvArg \in Requests
      BY DEF TypeOK
    <3>4. \A r \in Requests : Live(r)' <=> Live(r)
      BY <2>1 DEF Live
    <3>5. QED
      BY <2>1, <3>1, <3>2, <3>3, <3>4 DEF GenerationInv
  <2>4. CASE AcquireGate(c) \/ WritePrefix(c) \/ WriteReturn(c) \/ WriteError(c)
    BY <2>1, <2>4, GenerationQuiet DEF AcquireGate, WritePrefix, WriteReturn, WriteError, connVars,
       recvVars, wireVars
  <2>5. QED
    BY <1>5, <2>2, <2>3, <2>4 DEF WriteStep
<1>6. ASSUME NEW r \in Requests, AcquireGate(r) \/ WriteStep(r) PROVE GenerationInv'
  BY <1>6, GenerationWrite
<1>7. ASSUME NEW c \in Calls, CallStep(c) PROVE GenerationInv'
  BY <1>7, CallIsQuiet, GenerationQuiet
<1>8. ASSUME NEW r \in Requests, HandlerStep(r) PROVE GenerationInv'
  BY <1>8, GenerationAdmit, GenerationHandle, GenerationSettle DEF HandlerStep
<1>9. CASE UNCHANGED vars
  BY <1>9, GenerationQuiet DEF vars, connVars, recvVars, wireVars
<1>10. QED
  BY <1>1, <1>2, <1>3, <1>4, <1>5, <1>6, <1>7, <1>8, <1>9 DEF Next, Procs

-----------------------------------------------------------------------------
(* Generations of an ID and admission: the theorems                        *)

\* Each wire ID has one live handler generation at most, and its entry tells
\* which phase that one is in.
THEOREM Generations == Spec => []GenerationInv
<1>1. Init => GenerationInv
  BY ProcsAssumption DEF Init, GenerationInv, Live, Free, Procs
<1>2. QED
  BY <1>1, TypeCorrect, LifeInit, LifeStep, GenerationStep, PTL DEF Spec

\* One wire ID has at most one live handler and one deferred request, also
\* while the response write of the previous generation still returns.
THEOREM OneGeneration == Spec => []OneGenerationPerID
<1>1. GenerationInv => OneGenerationPerID
  BY DEF GenerationInv, OneGenerationPerID
<1>2. QED
  BY <1>1, Generations, PTL

\* A request is taken for a duplicate only while another request of its ID is
\* still unanswered on the wire.
THEOREM NoFalseDuplicate == Spec => ConformingNeverDuplicate
<1> DEFINE OtherUnanswered ==
             recvPC # "duplicate" /\ recvPC' = "duplicate" =>
               \E q \in Requests \ {recvArg} : reqID[q] = reqID[recvArg] /\ q \notin accepted
<1>1. TypeOK /\ GenerationInv /\ [Next]_vars => [OtherUnanswered]_vars
  <2> SUFFICES ASSUME TypeOK, GenerationInv, Next, recvPC # "duplicate", recvPC' = "duplicate"
               PROVE  \E q \in Requests \ {recvArg} : reqID[q] = reqID[recvArg] /\ q \notin accepted
    OBVIOUS
  <2>1. PICK r \in Requests : admitIncoming(r) /\ AdmitTerminal(r)
    <3>1. ~ConnectionStep
      BY DEF ConnectionStep, Close, TeardownClose, TeardownCancel, ContextDone, ObserveContext,
         Wait, recvVars
    <3>2. ~ReceiveStep
      BY DEF ReceiveStep, ReadError, claimResponse, DecodeOk, DecodeError, DecodeFailed,
         DuplicateExit, Receive
    <3>3. \A i \in IDs : ~ReadResponse(i)
      BY DEF ReadResponse, Receive
    <3>4. \A r \in Requests, i \in WireIDs : ~ReadRequest(r, i)
      BY DEF ReadRequest, Receive
    <3>5. \A p \in Procs : ~(AcquireGate(p) \/ WriteStep(p))
      BY DEF AcquireGate, WriteStep, WritePrefix, WriteAccept, WriteReturn, WriteError,
         WriteFailed, recvVars
    <3>6. \A c \in Calls : ~CallStep(c)
      BY CallIsQuiet
    <3>7. PICK r \in Requests : HandlerStep(r)
      BY <3>1, <3>2, <3>3, <3>4, <3>5, <3>6 DEF Next
    <3>8. admitIncoming(r)
      BY <3>7 DEF HandlerStep, Dispatch, HandlerGateLost, HandlerAbandon, HandlerAdmit,
         completeIncomingWrite, recvVars
    <3>9. AdmitTerminal(r)
      BY <3>8 DEF admitIncoming, AdmitDiscard, AdmitDispatch, AdmitDeferred, Receive
    <3>10. QED
      BY <3>8, <3>9
  <2>2. recvPC = "request" /\ recvArg = r /\ pc[r] = "buffered" /\ reqID[r] \in WireIDs
    BY <2>1 DEF admitIncoming, GenerationInv, TypeOK
  <2>3. CASE incoming[reqID[r]].state = "active"
    BY <2>2, <2>3 DEF GenerationInv
  <2>4. CASE incoming[reqID[r]].deferred # None
    <3> DEFINE d == incoming[reqID[r]].deferred
    <3>1. d \in Requests /\ reqID[d] = reqID[r] /\ pc[d] = "deferred"
      BY <2>2, <2>4, DeferredType DEF TypeOK, GenerationInv
    <3>2. d \notin accepted /\ d # r
      BY <2>2, <3>1 DEF GenerationInv
    <3>3. QED
      BY <2>2, <3>1, <3>2
  <2>5. QED
    BY <2>1, <2>3, <2>4 DEF AdmitTerminal
<1>2. QED
  BY <1>1, TypeCorrect, Generations, PTL DEF Spec, ConformingNeverDuplicate

\* Once terminal selection has won, no request is dispatched, no response
\* write begins and no call is admitted.
THEOREM NothingStarts == Spec => NothingStartsAfterTerminal
<1> DEFINE Stays ==
             cause # "nil" =>
               /\ \A r \in Requests : pc[r] # "dispatch" => pc'[r] # "dispatch"
               /\ \A p \in Procs : pc[p] # "write" => pc'[p] # "write"
               /\ nextID' = nextID
<1>1. TypeOK /\ LifeInv /\ [Next]_vars => [Stays]_vars
  <2> SUFFICES ASSUME TypeOK, LifeInv, Next, cause # "nil"
               PROVE  /\ \A p \in Procs : \/ pc'[p] = pc[p]
                                          \/ pc'[p] \notin {"dispatch", "write"}
                      /\ nextID' = nextID
    BY DEF Procs
  <2>0. pc \in [Procs -> CallPC \cup RequestPC] /\ Calls \subseteq Procs /\ Requests \subseteq Procs
    BY DEF TypeOK, Procs
  <2>1. CASE ConnectionStep
    BY <2>1 DEF ConnectionStep, Close, TeardownClose, TeardownCancel, ContextDone, ObserveContext, Wait
  <2>2. CASE ReceiveStep
    BY <2>2 DEF ReceiveStep, ReadError, claimResponse, DecodeOk, DecodeError, DecodeFailed, DuplicateExit
  <2>3. ASSUME NEW i \in IDs, ReadResponse(i) PROVE pc' = pc /\ nextID' = nextID
    BY <2>3 DEF ReadResponse
  <2>4. ASSUME NEW r \in Requests, NEW i \in WireIDs, ReadRequest(r, i)
        PROVE  pc' = [pc EXCEPT ![r] = "buffered"] /\ nextID' = nextID
    BY <2>4 DEF ReadRequest, Goto
  <2>5. ASSUME NEW q \in Procs, AcquireGate(q) \/ WriteStep(q)
        PROVE  /\ \A p \in Procs : pc'[p] = pc[p] \/ pc'[p] \notin {"dispatch", "write"}
               /\ nextID' = nextID
    BY <2>0, <2>5 DEF AcquireGate, WriteStep, WritePrefix, WriteAccept, WriteReturn, WriteError,
       WriteFailed, Goto
  <2>6. ASSUME NEW c \in Calls, CallStep(c)
        PROVE  /\ \A p \in Procs : pc'[p] = pc[p] \/ pc'[p] \notin {"dispatch", "write"}
               /\ nextID' = nextID
    BY <2>0, <2>6 DEF CallStep, CallReject, CallStart, CallEncode, CallGateLost, CallRefuse,
       CallAdmit, CallDone, CallCancel, CallContextDone, TeardownComplete, Return, Goto, callReady
  <2>7. ASSUME NEW r \in Requests, HandlerStep(r)
        PROVE  /\ \A p \in Procs : pc'[p] = pc[p] \/ pc'[p] \notin {"dispatch", "write"}
               /\ nextID' = nextID
    <3>1. CASE admitIncoming(r)
      BY <2>0, <3>1 DEF admitIncoming, AdmitDiscard, AdmitDispatch, AdmitDeferred, AdmitTerminal, Goto
    <3>2. CASE Dispatch(r) \/ HandlerGateLost(r) \/ HandlerAbandon(r) \/ HandlerAdmit(r)
      BY <2>0, <3>2 DEF Dispatch, HandlerGateLost, HandlerAbandon, HandlerAdmit, Goto
    <3>3. CASE completeIncomingWrite(r)
      <4>1. reqID[r] \in WireIDs
        BY <3>3 DEF completeIncomingWrite, TypeOK
      <4>2. incoming[reqID[r]].state = "free"
        BY <4>1 DEF LifeInv, TerminalDrained, Free
      <4>3. QED
        BY <2>0, <3>3, <4>2 DEF completeIncomingWrite, Goto
    <3>4. QED
      BY <2>7, <3>1, <3>2, <3>3 DEF HandlerStep
  <2>8. QED
    BY <2>0, <2>1, <2>2, <2>3, <2>4, <2>5, <2>6, <2>7 DEF Next
<1>2. QED
  BY <1>1, TypeCorrect, LifeInit, LifeStep, PTL DEF Spec, NothingStartsAfterTerminal

-----------------------------------------------------------------------------
(* The write gate                                                          *)

\* The holder of the gate is the one writer between its admission and the
\* release, and only the holder has a torn frame whose writer is not about to
\* select the terminal cause.
Holding == {"admit", "write", "accepted"}

GateInv == \A p \in Procs : pc[p] \in Holding <=> gate = p

TornEndsConnection ==
  \A p \in midFrame : (gate = p /\ pc[p] = "write") \/ pc[p] = "failed" \/ cause # "nil"

\* Steps of which no writer is aware.
LEMMA GateQuiet ==
  ASSUME TypeOK, GateInv, TornEndsConnection, UNCHANGED <<gate, midFrame>>,
         \A p \in Procs : pc'[p] \in Holding <=> pc[p] \in Holding,
         \A p \in Procs : pc[p] \in {"write", "failed"} => pc'[p] = pc[p] \/ cause' # "nil",
         cause # "nil" => cause' # "nil"
  PROVE  GateInv' /\ TornEndsConnection'
<1>1. GateInv'
  BY DEF GateInv
<1>2. midFrame \subseteq Procs
  BY DEF TypeOK
<1>3. QED
  BY <1>1, <1>2 DEF TornEndsConnection

\* The connection is over after a terminal selection.
LEMMA Selected ==
  ASSUME NEW e \in Causes, selectTerminal(e)
  PROVE  cause' # "nil"
BY DEF selectTerminal, connVars, Causes

LEMMA GateStep ==
  TypeOK /\ GenerationInv /\ GateInv /\ TornEndsConnection /\ [Next]_vars
    => GateInv' /\ TornEndsConnection'
<1> SUFFICES ASSUME TypeOK, GenerationInv, GateInv, TornEndsConnection, [Next]_vars
             PROVE  GateInv' /\ TornEndsConnection'
  OBVIOUS
<1>a. {"ErrClosed", "ctx.Err", "ErrRead", "ErrResponse", "ErrDuplicate", "ErrWrite"} \subseteq Causes
  BY DEF Causes
<1>b. /\ pc \in [Procs -> CallPC \cup RequestPC] /\ midFrame \subseteq Procs
      /\ Calls \subseteq Procs /\ Requests \subseteq Procs /\ None \notin Procs
  BY ProcsAssumption DEF TypeOK, Procs
<1>1. CASE ConnectionStep
  BY <1>a, <1>1, GateQuiet, Selected DEF ConnectionStep, Close, TeardownClose, TeardownCancel, ContextDone,
     ObserveContext, Wait, connVars, wireVars
<1>2. CASE ReceiveStep
  BY <1>a, <1>2, GateQuiet, Selected DEF ReceiveStep, ReadError, claimResponse, DecodeOk, DecodeError,
     DecodeFailed, DuplicateExit, connVars, wireVars
<1>3. ASSUME NEW i \in IDs, ReadResponse(i) PROVE GateInv' /\ TornEndsConnection'
  BY <1>3, GateQuiet DEF ReadResponse, connVars, wireVars
<1>4. ASSUME NEW r \in Requests, NEW i \in WireIDs, ReadRequest(r, i)
      PROVE  GateInv' /\ TornEndsConnection'
  BY <1>b, <1>4, GateQuiet DEF ReadRequest, Goto, Holding, connVars, wireVars
<1>5. ASSUME NEW p \in Procs, AcquireGate(p) \/ WriteStep(p) PROVE GateInv' /\ TornEndsConnection'
  <2>1. CASE AcquireGate(p)
    BY <1>b, <2>1 DEF AcquireGate, Goto, GateInv, TornEndsConnection, Holding, connVars, wireVars
  <2>2. CASE WritePrefix(p)
    BY <1>b, <2>2 DEF WritePrefix, GateInv, TornEndsConnection, Holding, connVars
  <2>3. CASE WriteAccept(p)
    BY <1>b, <2>3 DEF WriteAccept, Goto, GateInv, TornEndsConnection, Holding, connVars
  <2>4. CASE WriteReturn(p) \/ WriteError(p)
    <3>1. gate = p /\ gate' = None
      BY <2>4 DEF WriteReturn, WriteError, GateInv, Holding
    <3>2. \A q \in Procs \ {p} : pc'[q] = pc[q] /\ pc[q] \notin Holding
      BY <1>b, <2>4, <3>1 DEF WriteReturn, WriteError, Goto, GateInv
    <3>3. pc'[p] \notin Holding
      BY <1>b, <2>4 DEF WriteReturn, WriteError, Goto, Holding
    <3>4. GateInv'
      BY <1>b, <3>1, <3>2, <3>3 DEF GateInv
    <3>5. pc[p] = "write" => pc'[p] = "failed"
      BY <1>b, <2>4 DEF WriteReturn, WriteError, Goto
    <3>6. UNCHANGED <<cause, midFrame>> /\ (pc[p] # "failed")
      BY <2>4 DEF WriteReturn, WriteError, connVars, wireVars
    <3>7. QED
      BY <1>b, <3>1, <3>2, <3>4, <3>5, <3>6 DEF TornEndsConnection
  <2>5. CASE WriteFailed(p)
    BY <1>a, <1>b, <2>5, GateQuiet, Selected DEF WriteFailed, Goto, Holding, wireVars
  <2>6. QED
    BY <1>5, <2>1, <2>2, <2>3, <2>4, <2>5 DEF WriteStep
<1>6. ASSUME NEW c \in Calls, CallStep(c) PROVE GateInv' /\ TornEndsConnection'
  <2>1. CASE CallReject(c) \/ CallStart(c) \/ CallEncode(c) \/ CallGateLost(c) \/ CallDone(c)
             \/ CallContextDone(c) \/ TeardownComplete(c) \/ CallCancel(c)
    BY <1>b, <2>1, GateQuiet DEF CallReject, CallStart, CallEncode, CallGateLost, CallDone, CallCancel,
       CallContextDone, TeardownComplete, Return, Goto, Holding, connVars, wireVars
  <2>2. CASE CallRefuse(c)
    BY <1>b, <2>2 DEF CallRefuse, Return, Goto, GateInv, TornEndsConnection, Holding, connVars, wireVars
  <2>3. CASE CallAdmit(c)
    BY <1>b, <2>3, GateQuiet DEF CallAdmit, Goto, Holding, wireVars
  <2>4. QED
    BY <1>6, <2>1, <2>2, <2>3 DEF CallStep
<1>7. ASSUME NEW r \in Requests, HandlerStep(r) PROVE GateInv' /\ TornEndsConnection'
  <2>1. CASE admitIncoming(r)
    <3>1. pc[r] = "buffered"
      BY <2>1 DEF admitIncoming, GenerationInv
    <3>2. QED
      BY <1>b, <2>1, <3>1, GateQuiet DEF admitIncoming, AdmitDiscard, AdmitDispatch, AdmitDeferred,
         AdmitTerminal, Goto, Holding, wireVars
  <2>2. CASE HandlerAbandon(r)
    BY <1>b, <2>2 DEF HandlerAbandon, Goto, GateInv, TornEndsConnection, Holding, connVars, wireVars
  <2>3. CASE HandlerAdmit(r) \/ Dispatch(r) \/ HandlerGateLost(r)
    BY <1>b, <2>3, GateQuiet DEF HandlerAdmit, Dispatch, HandlerGateLost, Goto, Holding, connVars, wireVars
  <2>4. CASE completeIncomingWrite(r)
    <3>1. reqID[r] \in WireIDs
      BY <2>4 DEF completeIncomingWrite, TypeOK
    <3>2. incoming[reqID[r]].deferred # None =>
            incoming[reqID[r]].deferred \in Requests /\ pc[incoming[reqID[r]].deferred] = "deferred"
      BY <3>1, DeferredType DEF GenerationInv
    <3>3. QED
      BY <1>b, <2>4, <3>2, GateQuiet DEF completeIncomingWrite, Goto, Holding, wireVars
  <2>5. QED
    BY <1>7, <2>1, <2>2, <2>3, <2>4 DEF HandlerStep
<1>8. CASE UNCHANGED vars
  BY <1>8, GateQuiet DEF vars, connVars, wireVars
<1>9. QED
  BY <1>1, <1>2, <1>3, <1>4, <1>5, <1>6, <1>7, <1>8 DEF Next

\* A frame of which the stream holds only a prefix is being written by the
\* holder of the gate, or its writer is between releaseWriteGate and
\* selectTerminal, or the connection is over: no torn frame outlives the
\* connection's active phase unseen, and the window of Call and handleRequest
\* between those two calls is the only one in which another frame can follow it.
THEOREM TornFramesEnd == Spec => []TornEndsConnection
<1>1. Init => GateInv /\ TornEndsConnection
  BY ProcsAssumption DEF Init, GateInv, TornEndsConnection, Holding, Procs
<1>2. QED
  BY TypeCorrect, Generations, GateStep, <1>1, PTL DEF Spec

\* At most one goroutine is between admission and the release of the gate:
\* two frames are never written at the same time.
THEOREM OneWriter == Spec => [](\A p, q \in Procs : pc[p] \in Holding /\ pc[q] \in Holding => p = q)
<1>1. Init => GateInv /\ TornEndsConnection
  BY ProcsAssumption DEF Init, GateInv, TornEndsConnection, Holding, Procs
<1>2. GateInv => \A p, q \in Procs : pc[p] \in Holding /\ pc[q] \in Holding => p = q
  BY DEF GateInv
<1>3. QED
  BY TypeCorrect, Generations, GateStep, <1>1, <1>2, PTL DEF Spec

-----------------------------------------------------------------------------
(* What settles a call                                                     *)

\* A step of a handler or of its admission is no step of a call.
LEMMA HandlerQuiet ==
  ASSUME TypeOK, NEW r \in Requests, HandlerStep(r)
  PROVE  /\ \A c \in Calls : pc'[c] = pc[c] /\ (InReceive(c)' <=> InReceive(c))
         /\ UNCHANGED <<cause, pending, completed, result, ret>>
<1>1. pc \in [Procs -> CallPC \cup RequestPC] /\ Calls \subseteq Procs /\ Requests \cap Calls = {}
  BY ProcsAssumption DEF TypeOK, Procs
<1>2. CASE completeIncomingWrite(r)
  <2>1. reqID[r] \in WireIDs
    BY <1>2 DEF completeIncomingWrite, TypeOK
  <2>2. incoming[reqID[r]].deferred \in Requests \cup {None}
    BY <2>1, DeferredType
  <2>3. QED
    BY <1>1, <1>2, <2>2 DEF completeIncomingWrite, Goto, InReceive, callVars, recvVars
<1>3. CASE admitIncoming(r)
  BY <1>1, <1>3 DEF admitIncoming, AdmitDiscard, AdmitDispatch, AdmitDeferred, AdmitTerminal, Goto,
     Receive, InReceive, callVars
<1>4. CASE Dispatch(r) \/ HandlerGateLost(r) \/ HandlerAbandon(r) \/ HandlerAdmit(r)
  BY <1>1, <1>4 DEF Dispatch, HandlerGateLost, HandlerAbandon, HandlerAdmit, Goto, InReceive,
     connVars, callVars, recvVars
<1>5. QED
  BY <1>2, <1>3, <1>4 DEF HandlerStep

\* No call is settled or admitted by the step.
LEMMA OutcomeQuiet ==
  ASSUME OutcomeInv, UNCHANGED <<cause, completed, result>>,
         \A c \in Calls : Admitted(c)' => Admitted(c) \/ completed[c] = 0
  PROVE  OutcomeInv'
BY DEF OutcomeInv

\* Terminal selection: whatever was settled before was a response.
LEMMA OutcomeTerminal ==
  ASSUME OutcomeInv, NEW e \in Causes, selectTerminal(e), UNCHANGED <<completed, result>>,
         \A c \in Calls : Admitted(c)' => Admitted(c)
  PROVE  OutcomeInv'
<1>1. CASE cause # "nil"
  BY <1>1 DEF OutcomeInv, selectTerminal, connVars
<1>2. CASE cause = "nil"
  BY <1>2 DEF OutcomeInv
<1>3. QED
  BY <1>1, <1>2

\* complete with a decoded response or the permanent cause.
LEMMA OutcomeComplete ==
  ASSUME TypeOK, OwnerInv, OutcomeInv, NEW c \in Calls, NEW res, complete(c, res),
         res = "ok" \/ (cause # "nil" /\ res = cause), UNCHANGED <<cause, pc>>
  PROVE  OutcomeInv'
<1>1. \A d \in Calls : Admitted(d)' <=> Admitted(d)
  BY DEF Admitted
<1>2. /\ completed'[c] = completed[c] + 1 /\ result'[c] = res
      /\ \A d \in Calls : d # c => completed'[d] = completed[d] /\ result'[d] = result[d]
  BY DEF complete, TypeOK
<1>3. completed[c] \in Nat
  BY DEF TypeOK
<1>4. QED
  BY <1>1, <1>2, <1>3 DEF OutcomeInv

\* Every step keeps OutcomeInv.
LEMMA OutcomeStep == TypeOK /\ OwnerInv /\ OutcomeInv /\ [Next]_vars => OutcomeInv'
<1> SUFFICES ASSUME TypeOK, OwnerInv, OutcomeInv, [Next]_vars PROVE OutcomeInv'
  OBVIOUS
<1>a. {"ErrClosed", "ctx.Err", "ErrRead", "ErrResponse", "ErrDuplicate", "ErrWrite"} \subseteq Causes
  BY DEF Causes
<1>b. pc \in [Procs -> CallPC \cup RequestPC] /\ Calls \subseteq Procs /\ Requests \cap Calls = {}
  BY ProcsAssumption DEF TypeOK, Procs
<1>c. ASSUME pc' = pc PROVE \A c \in Calls : Admitted(c)' <=> Admitted(c)
  BY <1>c DEF Admitted
<1>1. CASE ConnectionStep
  <2>1. CASE Close
    BY <1>a, <1>c, <2>1, OutcomeTerminal DEF Close, callVars
  <2>2. CASE TeardownClose \/ TeardownCancel \/ ContextDone \/ Wait
    BY <1>c, <2>2, OutcomeQuiet DEF TeardownClose, TeardownCancel, ContextDone, Wait, connVars, callVars
  <2>3. CASE ObserveContext
    BY <1>a, <1>c, <2>3, OutcomeQuiet, OutcomeTerminal DEF ObserveContext, connVars, callVars
  <2>4. QED
    BY <1>1, <2>1, <2>2, <2>3 DEF ConnectionStep
<1>2. CASE ReceiveStep
  <2>1. CASE claimResponse
    BY <1>c, <2>1, OutcomeQuiet DEF claimResponse, callVars
  <2>2. CASE DecodeOk
    BY <2>2, OutcomeComplete DEF DecodeOk, TypeOK, connVars
  <2>3. CASE DecodeFailed
    <3>1. cause # "nil" /\ recvArg \in Calls
      BY <2>3 DEF DecodeFailed, OwnerInv, TypeOK
    <3>2. QED
      BY <2>3, <3>1, OutcomeComplete DEF DecodeFailed, connVars
  <2>4. CASE ReadError \/ DecodeError \/ DuplicateExit
    BY <1>a, <1>c, <2>4, OutcomeTerminal DEF ReadError, DecodeError, DuplicateExit, callVars
  <2>5. QED
    BY <1>2, <2>1, <2>2, <2>3, <2>4 DEF ReceiveStep
<1>3. ASSUME NEW i \in IDs, ReadResponse(i) PROVE OutcomeInv'
  BY <1>c, <1>3, OutcomeQuiet DEF ReadResponse, connVars, callVars
<1>4. ASSUME NEW r \in Requests, NEW i \in WireIDs, ReadRequest(r, i) PROVE OutcomeInv'
  <2>1. \A c \in Calls : Admitted(c)' <=> Admitted(c)
    BY <1>b, <1>4 DEF ReadRequest, Goto, Admitted
  <2>2. QED
    BY <1>4, <2>1, OutcomeQuiet DEF ReadRequest, connVars, callVars
<1>5. ASSUME NEW p \in Procs, AcquireGate(p) \/ WriteStep(p) PROVE OutcomeInv'
  <2>1. \A c \in Calls : Admitted(c)' <=> Admitted(c)
    BY <1>b, <1>5 DEF AcquireGate, WriteStep, WritePrefix, WriteAccept, WriteReturn, WriteError,
       WriteFailed, Goto, Admitted
  <2>2. CASE WriteFailed(p)
    BY <1>a, <2>1, <2>2, OutcomeTerminal DEF WriteFailed, callVars
  <2>3. CASE ~WriteFailed(p)
    BY <1>5, <2>1, <2>3, OutcomeQuiet DEF AcquireGate, WriteStep, WritePrefix, WriteAccept,
       WriteReturn, WriteError, connVars, callVars
  <2>4. QED
    BY <2>2, <2>3
<1>6. ASSUME NEW c \in Calls, CallStep(c) PROVE OutcomeInv'
  <2>1. CASE CallReject(c) \/ CallStart(c) \/ CallEncode(c) \/ CallGateLost(c) \/ CallRefuse(c)
               \/ CallDone(c) \/ CallContextDone(c)
    <3>1. \A d \in Calls : Admitted(d)' => Admitted(d)
      BY <1>b, <2>1 DEF CallReject, CallStart, CallEncode, CallGateLost, CallRefuse, CallDone,
         CallContextDone, Return, Goto, Admitted
    <3>2. QED
      BY <2>1, <3>1, OutcomeQuiet DEF CallReject, CallStart, CallEncode, CallGateLost, CallRefuse,
         CallDone, CallContextDone, connVars, callVars
  <2>2. CASE CallAdmit(c)
    <3>1. completed[c] = 0
      BY <2>2 DEF CallAdmit, OwnerInv
    <3>2. \A d \in Calls : d # c => (Admitted(d)' <=> Admitted(d))
      BY <1>b, <2>2 DEF CallAdmit, Goto, Admitted
    <3>3. QED
      BY <2>2, <3>1, <3>2, OutcomeQuiet DEF CallAdmit
  <2>3. CASE CallCancel(c)
    <3>1. /\ ~Admitted(c)' /\ completed'[c] # 0
          /\ \A d \in Calls : d # c => /\ Admitted(d)' <=> Admitted(d)
                                       /\ completed'[d] = completed[d] /\ result'[d] = result[d]
      BY <1>b, <2>3 DEF CallCancel, Return, Goto, Admitted, TypeOK
    <3>2. cause' = cause
      BY <2>3 DEF CallCancel
    <3>3. QED
      BY <3>1, <3>2 DEF OutcomeInv
  <2>4. CASE TeardownComplete(c)
    <3>1. cause # "nil"
      BY <2>4 DEF TeardownComplete, OwnerInv
    <3>2. QED
      BY <2>4, <3>1, OutcomeComplete DEF TeardownComplete
  <2>5. QED
    BY <1>6, <2>1, <2>2, <2>3, <2>4 DEF CallStep
<1>7. ASSUME NEW r \in Requests, HandlerStep(r) PROVE OutcomeInv'
  BY <1>7, HandlerQuiet, OutcomeQuiet DEF Admitted
<1>8. CASE UNCHANGED vars
  BY <1>c, <1>8, OutcomeQuiet DEF vars, connVars, callVars
<1>9. QED
  BY <1>1, <1>2, <1>3, <1>4, <1>5, <1>6, <1>7, <1>8 DEF Next

-----------------------------------------------------------------------------
(* The contract's view of a step                                           *)

\* A call whose owner, phase and success stay the same keeps its status.
LEMMA StatusKept ==
  ASSUME NEW c \in Calls, pc'[c] = "returned" <=> pc[c] = "returned",
         Admitted(c)' <=> Admitted(c), InPending(c)' <=> InPending(c),
         InReceive(c)' <=> InReceive(c), result'[c] = "ok" <=> result[c] = "ok"
  PROVE  status'[c] = status[c]
BY DEF status

\* If that holds of every call, the contract sees nothing.
LEMMA Invisible ==
  ASSUME UNCHANGED <<cause, ret>>, \A c \in Calls : status'[c] = status[c]
  PROVE  UNCHANGED Contract!cvars
<1>1. status' = status
  BY DEF status
<1>2. QED
  BY <1>1 DEF Contract!cvars

\* If it holds of all calls but one, the contract sees that one.
LEMMA StatusChanged ==
  ASSUME NEW c \in Calls, NEW x, status'[c] = x, \A d \in Calls \ {c} : status'[d] = status[d]
  PROVE  status' = [status EXCEPT ![c] = x]
BY DEF status

\* The owner of an outcome determines the status of its call.
LEMMA StatusOf ==
  ASSUME OwnerInv, OutcomeInv, NEW c \in Calls
  PROVE  /\ pc[c] \in {"idle", "encode", "gate", "admit"} => status[c] = "idle"
         /\ InPending(c) => status[c] = "open"
         /\ InReceive(c) => status[c] = "answered"
         /\ c \in claims => status[c] = "lost"
         /\ Admitted(c) /\ ~InPending(c) /\ ~InReceive(c) =>
              status[c] = IF result[c] = "ok" THEN "answered" ELSE "lost"
<1>1. pc[c] \in {"idle", "encode", "gate", "admit"} => ~Admitted(c) /\ result[c] # "ok"
  BY DEF OwnerInv, OutcomeInv, Admitted
<1>2. InPending(c) \/ InReceive(c) \/ c \in claims => Admitted(c) /\ result[c] # "ok"
  BY DEF OwnerInv, OutcomeInv, ExactlyOneOwner
<1>3. Admitted(c) => pc[c] # "returned"
  BY DEF Admitted
<1>4. QED
  BY <1>1, <1>2, <1>3 DEF status, OwnerInv, ExactlyOneOwner

\* Terminal selection is the contract's Terminate, or invisible if it lost.
LEMMA SeenTerminal ==
  ASSUME TypeOK, OwnerInv, OutcomeInv, NEW e \in Causes, selectTerminal(e),
         UNCHANGED <<result, ret>>,
         \A c \in Calls : /\ pc'[c] = "returned" <=> pc[c] = "returned"
                          /\ Admitted(c)' <=> Admitted(c)
                          /\ InReceive(c)' <=> InReceive(c)
  PROVE  Contract!Next \/ UNCHANGED Contract!cvars
<1>1. CASE cause # "nil"
  <2>1. UNCHANGED <<cause, pending>>
    BY <1>1 DEF selectTerminal, connVars
  <2>2. \A c \in Calls : InPending(c)' <=> InPending(c)
    BY <2>1 DEF InPending
  <2>3. QED
    BY <2>1, <2>2, StatusKept, Invisible
<1>2. CASE cause = "nil"
  <2>1. cause' = e /\ \A i \in IDs : pending'[i] = None
    BY <1>2 DEF selectTerminal
  <2>2. \A c \in Calls : ~InPending(c)'
    BY <2>1, ProcsAssumption DEF InPending, Procs
  <2>3. ASSUME NEW c \in Calls
        PROVE  status'[c] = IF status[c] = "open" THEN "lost" ELSE status[c]
    <3>1. CASE InPending(c)
      <4>1. Admitted(c) /\ ~InReceive(c) /\ result[c] # "ok"
        BY <3>1 DEF OwnerInv, OutcomeInv, ExactlyOneOwner
      <4>2. pc[c] # "returned"
        BY <4>1 DEF Admitted
      <4>3. status'[c] = "lost"
        BY <2>2, <4>1, <4>2 DEF status
      <4>4. QED
        BY <3>1, <4>3, StatusOf
    <3>2. CASE ~InPending(c)
      <4>1. status[c] # "open"
        BY <3>2 DEF status
      <4>2. QED
        BY <2>2, <3>2, <4>1, StatusKept
    <3>3. QED
      BY <3>1, <3>2
  <2>4. status' = [c \in Calls |-> IF status[c] = "open" THEN "lost" ELSE status[c]]
    BY <2>3 DEF status
  <2>5. Contract!Terminate
    BY <1>2, <2>1, <2>4 DEF Contract!Terminate
  <2>6. QED
    BY <2>5 DEF Contract!Next
<1>3. QED
  BY <1>1, <1>2

\* A call that returns without an ID is the contract's Refuse.
LEMMA SeenRefusal ==
  ASSUME TypeOK, OwnerInv, OutcomeInv, NEW c \in Calls,
         pc[c] \in {"idle", "encode", "gate", "admit"},
         NEW res, Return(c, res), res \in LocalErrors \/ (cause # "nil" /\ res = cause),
         UNCHANGED <<cause, pending, result, recvPC, recvArg>>
  PROVE  Contract!Next
<1>1. /\ pc'[c] = "returned" /\ ret' = [ret EXCEPT ![c] = res]
      /\ \A d \in Calls \ {c} : pc'[d] = pc[d]
  BY DEF Return, Goto, TypeOK, Procs
<1>2. status'[c] = "returned"
  BY <1>1 DEF status
<1>3. \A d \in Calls \ {c} : status'[d] = status[d]
  BY <1>1, StatusKept DEF Admitted, InPending, InReceive
<1>4. status' = [status EXCEPT ![c] = "returned"]
  BY <1>2, <1>3, StatusChanged
<1>5. status[c] = "idle"
  BY StatusOf
<1>6. Contract!Return(c, res)
  BY <1>1, <1>4 DEF Contract!Return
<1>7. Contract!Refuse(c)
  BY <1>5, <1>6 DEF Contract!Refuse
<1>8. QED
  BY <1>7 DEF Contract!Next

\* A step of a call's own goroutine, or of the teardown on its behalf.
LEMMA SeenCall ==
  ASSUME TypeOK, OwnerInv, OutcomeInv, NEW c \in Calls, CallStep(c)
  PROVE  Contract!Next \/ UNCHANGED Contract!cvars
<1>a. pc \in [Procs -> CallPC \cup RequestPC] /\ Calls \subseteq Procs
  BY DEF TypeOK, Procs
<1>b. callReady(c) = "nil" \/ callReady(c) \in LocalErrors \/ (cause # "nil" /\ callReady(c) = cause)
  BY DEF callReady, LocalErrors
<1>c. ASSUME NEW l, Goto(c, l), pc[c] \notin {"returned", "write", "accepted", "failed", "wait"},
             l \notin {"returned", "write", "accepted", "failed", "wait"},
             UNCHANGED <<cause, ret, pending, result, recvPC, recvArg>>
      PROVE  UNCHANGED Contract!cvars
  <2>1. \A d \in Calls : /\ pc'[d] = "returned" <=> pc[d] = "returned"
                         /\ Admitted(d)' <=> Admitted(d)
    BY <1>a, <1>c DEF Goto, Admitted
  <2>2. QED
    BY <1>c, <2>1, StatusKept, Invisible DEF InPending, InReceive
<1>1. CASE CallReject(c)
  BY <1>1, SeenRefusal DEF CallReject, LocalErrors, connVars, recvVars
<1>2. CASE CallStart(c)
  <2>1. CASE callReady(c) = "nil"
    BY <1>2, <2>1, <1>c DEF CallStart, connVars, recvVars
  <2>2. CASE callReady(c) # "nil"
    BY <1>2, <2>2, <1>b, SeenRefusal DEF CallStart, connVars, recvVars
  <2>3. QED
    BY <2>1, <2>2
<1>3. CASE CallEncode(c)
  <2>1. CASE Goto(c, "gate") /\ UNCHANGED ret
    BY <1>3, <2>1, <1>c DEF CallEncode, connVars, recvVars
  <2>2. CASE Return(c, "ErrEncode")
    BY <1>3, <2>2, SeenRefusal DEF CallEncode, LocalErrors, connVars, recvVars
  <2>3. CASE callReady(c) # "nil" /\ Return(c, callReady(c))
    BY <1>3, <2>3, <1>b, SeenRefusal DEF CallEncode, connVars, recvVars
  <2>4. QED
    BY <1>3, <2>1, <2>2, <2>3 DEF CallEncode
<1>4. CASE CallGateLost(c)
  BY <1>4, SeenRefusal DEF CallGateLost, LocalErrors, connVars, recvVars
<1>5. CASE CallRefuse(c)
  <2>1. CASE callReady(c) # "nil" /\ Return(c, callReady(c))
    BY <1>5, <2>1, <1>b, SeenRefusal DEF CallRefuse, connVars, recvVars
  <2>2. CASE Return(c, "ErrRequestIDsExhausted")
    BY <1>5, <2>2, SeenRefusal DEF CallRefuse, LocalErrors, connVars, recvVars
  <2>3. QED
    BY <1>5, <2>1, <2>2 DEF CallRefuse
<1>6. CASE CallAdmit(c)
  <2>1. /\ cause = "nil" /\ pc[c] = "admit" /\ nextID \in IDs
        /\ UNCHANGED <<cause, result, ret, recvPC, recvArg>>
    BY <1>6, MaxIDAssumption DEF CallAdmit, callReady, TypeOK, IDs, recvVars
  <2>2. /\ pending'[nextID] = c /\ \A i \in IDs : i # nextID => pending'[i] = pending[i]
        /\ pc'[c] = "write" /\ \A d \in Calls : d # c => pc'[d] = pc[d]
    BY <1>6, <1>a, <2>1 DEF CallAdmit, Goto, TypeOK
  <2>3. pending[nextID] = None
    <3>1. \A d \in Calls : callID[d] # nextID
      BY <2>1, MaxIDAssumption, ProcsAssumption DEF OwnerInv, TypeOK, IDs
    <3>2. pending[nextID] # None => pending[nextID] \in Calls /\ callID[pending[nextID]] = nextID
      BY <2>1 DEF OwnerInv, IDsNeverReused, TypeOK
    <3>3. QED
      BY <3>1, <3>2
  <2>4. InPending(c)' /\ \A d \in Calls : d # c => (InPending(d)' <=> InPending(d))
    BY <2>1, <2>2, <2>3, ProcsAssumption DEF InPending, Procs
  <2>5. status'[c] = "open"
    BY <2>2, <2>4 DEF status
  <2>6. \A d \in Calls \ {c} : status'[d] = status[d]
    BY <2>1, <2>2, <2>4, StatusKept DEF Admitted, InReceive
  <2>7. status[c] = "idle" /\ status' = [status EXCEPT ![c] = "open"]
    BY <2>1, <2>5, <2>6, StatusOf, StatusChanged
  <2>8. Contract!Admit(c)
    BY <2>1, <2>7 DEF Contract!Admit, Contract!Become
  <2>9. QED
    BY <2>8 DEF Contract!Next
<1>7. CASE CallDone(c)
  <2>1. /\ Admitted(c) /\ completed[c] = 1
        /\ UNCHANGED <<cause, pending, result, recvPC, recvArg>>
        /\ ret' = [ret EXCEPT ![c] = result[c]]
        /\ pc'[c] = "returned" /\ \A d \in Calls : d # c => pc'[d] = pc[d]
    BY <1>7, <1>a DEF CallDone, Return, Goto, Admitted, TypeOK, OwnerInv, CompletedOnce, connVars, recvVars
  <2>2. ~InPending(c) /\ ~InReceive(c)
    BY <2>1 DEF OwnerInv, ExactlyOneOwner
  <2>3. status[c] = IF result[c] = "ok" THEN "answered" ELSE "lost"
    BY <2>1, <2>2, StatusOf
  <2>4. status'[c] = "returned" /\ \A d \in Calls \ {c} : status'[d] = status[d]
    <3>1. status'[c] = "returned"
      BY <2>1 DEF status
    <3>2. \A d \in Calls \ {c} : status'[d] = status[d]
      BY <2>1, StatusKept DEF Admitted, InPending, InReceive
    <3>3. QED
      BY <3>1, <3>2
  <2>5. Contract!Return(c, result[c])
    BY <2>1, <2>4, StatusChanged DEF Contract!Return
  <2>6. result[c] = "ok" \/ (result[c] # "ok" /\ result[c] = cause)
    BY <2>1 DEF OutcomeInv
  <2>7. Contract!Deliver(c) \/ Contract!Fail(c)
    BY <2>3, <2>5, <2>6 DEF Contract!Deliver, Contract!Fail
  <2>8. QED
    BY <2>7 DEF Contract!Next
<1>8. CASE CallCancel(c)
  <2>1. /\ Admitted(c) /\ callID[c] \in IDs /\ pending[callID[c]] # None
        /\ UNCHANGED <<cause, callID, recvPC, recvArg>>
        /\ ret' = [ret EXCEPT ![c] = "callCtx.Err"]
        /\ pc'[c] = "returned" /\ \A d \in Calls : d # c => pc'[d] = pc[d] /\ result'[d] = result[d]
    BY <1>8, <1>a DEF CallCancel, Return, Goto, Admitted, TypeOK, OwnerInv, recvVars
  <2>2. pending[callID[c]] = c
    <3>1. pending[callID[c]] \in Calls /\ callID[pending[callID[c]]] = callID[c]
      BY <2>1 DEF OwnerInv, IDsNeverReused, TypeOK
    <3>2. QED
      BY <2>1, <3>1, ProcsAssumption DEF OwnerInv, IDsNeverReused, IDs
  <2>3. \A i \in IDs : pending'[i] = IF i = callID[c] THEN None ELSE pending[i]
    BY <1>8, <2>1 DEF CallCancel, TypeOK
  <2>4. InPending(c) /\ \A d \in Calls : d # c => (InPending(d)' <=> InPending(d))
    BY <2>1, <2>2, <2>3, ProcsAssumption DEF InPending, Procs
  <2>5. status'[c] = "returned"
    BY <2>1 DEF status
  <2>6. \A d \in Calls \ {c} : status'[d] = status[d]
    BY <2>1, <2>4, StatusKept DEF Admitted, InReceive
  <2>7. Contract!Return(c, "callCtx.Err")
    BY <2>1, <2>5, <2>6, StatusChanged DEF Contract!Return
  <2>8. Contract!Cancel(c)
    BY <2>4, <2>7, StatusOf DEF Contract!Cancel
  <2>9. QED
    BY <2>8 DEF Contract!Next
<1>9. CASE CallContextDone(c)
  BY <1>9, StatusKept, Invisible DEF CallContextDone, Admitted, InPending, InReceive, connVars,
     callVars, recvVars
<1>10. CASE TeardownComplete(c)
  <2>1. /\ UNCHANGED <<cause, pending, pc, recvPC, recvArg, ret>>
        /\ result'[c] = cause /\ \A d \in Calls : d # c => result'[d] = result[d]
    BY <1>10 DEF TeardownComplete, complete, TypeOK, recvVars
  <2>2. result[c] # "ok" /\ cause # "ok"
    BY <1>10 DEF TeardownComplete, OwnerInv, OutcomeInv, ExactlyOneOwner, TypeOK, Causes
  <2>3. QED
    BY <2>1, <2>2, StatusKept, Invisible DEF Admitted, InPending, InReceive
<1>11. QED
  BY <1>1, <1>2, <1>3, <1>4, <1>5, <1>6, <1>7, <1>8, <1>9, <1>10 DEF CallStep

\* A step of the receive loop on a response.
LEMMA SeenResponse ==
  ASSUME TypeOK, OwnerInv, OutcomeInv, claimResponse \/ DecodeOk \/ DecodeFailed
  PROVE  Contract!Next \/ UNCHANGED Contract!cvars
<1>1. CASE claimResponse
  <2>1. /\ recvPC = "response" /\ recvArg \in IDs /\ UNCHANGED <<cause, pc, result, ret>>
    BY <1>1 DEF claimResponse, TypeOK, callVars
  <2>2. CASE pending[recvArg] = None
    <3>1. UNCHANGED pending /\ \A c \in Calls : ~InReceive(c) /\ ~InReceive(c)'
      BY <1>1, <2>1, <2>2 DEF claimResponse, Receive, InReceive
    <3>2. QED
      BY <2>1, <3>1, StatusKept, Invisible DEF Admitted, InPending
  <2>3. CASE pending[recvArg] # None
    <3>0. PICK c \in Calls : c = pending[recvArg]
      BY <2>1, <2>3 DEF TypeOK
    <3>1. c \in Calls /\ InPending(c)
      BY <2>1, <3>0 DEF InPending
    <3>2. /\ recvPC' = "decode" /\ recvArg' = c
          /\ \A i \in IDs : pending'[i] = IF i = recvArg THEN None ELSE pending[i]
      BY <1>1, <2>1, <2>3, <3>0 DEF claimResponse, Receive, TypeOK
    <3>3. \A i \in IDs : pending[i] = c => i = recvArg
      BY <2>1, <2>3, <3>0 DEF OwnerInv, IDsNeverReused
    <3>4. ~InPending(c)' /\ \A d \in Calls : d # c => (InPending(d)' <=> InPending(d))
      BY <2>1, <3>1, <3>2, <3>3, ProcsAssumption DEF InPending, Procs
    <3>5. InReceive(c)' /\ \A d \in Calls : d # c => ~InReceive(d)' /\ ~InReceive(d)
      BY <2>1, <3>2 DEF InReceive
    <3>6. Admitted(c) /\ pc[c] # "returned"
      BY <3>1 DEF OwnerInv, ExactlyOneOwner, Admitted
    <3>7. status'[c] = "answered"
      BY <2>1, <3>1, <3>4, <3>5, <3>6 DEF status
    <3>8. \A d \in Calls \ {c} : status'[d] = status[d]
      BY <2>1, <3>4, <3>5, StatusKept DEF Admitted
    <3>9. status' = [status EXCEPT ![c] = "answered"]
      BY <3>1, <3>7, <3>8, StatusChanged
    <3>10. Contract!Answer(c)
      BY <2>1, <3>1, <3>9, StatusOf DEF Contract!Answer, Contract!Become
    <3>11. QED
      BY <3>1, <3>10 DEF Contract!Next
  <2>4. QED
    BY <2>2, <2>3
<1>2. CASE DecodeOk \/ DecodeFailed
  <2>0. PICK c \in Calls : c = recvArg
    BY <1>2 DEF DecodeOk, DecodeFailed, TypeOK
  <2>1. /\ c \in Calls /\ InReceive(c) /\ UNCHANGED <<cause, pending, pc, ret>> /\ recvPC' = "read"
    BY <1>2, <2>0 DEF DecodeOk, DecodeFailed, complete, Receive, InReceive, connVars
  <2>2. /\ Admitted(c) /\ ~InPending(c) /\ pc[c] # "returned" /\ status[c] = "answered"
    BY <2>1, StatusOf DEF OwnerInv, ExactlyOneOwner, Admitted
  <2>3. /\ ~InReceive(c)' /\ \A d \in Calls \ {c} : ~InReceive(d)' /\ ~InReceive(d)
    BY <2>0, <2>1 DEF InReceive
  <2>4. /\ \A d \in Calls : Admitted(d)' <=> Admitted(d)
        /\ \A d \in Calls : InPending(d)' <=> InPending(d)
    BY <2>1 DEF Admitted, InPending
  <2>5. \A d \in Calls \ {c} : result'[d] = result[d]
    BY <1>2, <2>0, <2>1 DEF DecodeOk, DecodeFailed, complete, TypeOK
  <2>6. \A d \in Calls \ {c} : status'[d] = status[d]
    BY <2>1, <2>3, <2>4, <2>5, StatusKept
  <2>7. CASE DecodeOk
    <3>1. result'[c] = "ok"
      BY <2>0, <2>1, <2>7 DEF DecodeOk, complete, TypeOK
    <3>2. status'[c] = "answered"
      BY <2>1, <2>2, <2>3, <2>4, <3>1 DEF status
    <3>3. QED
      BY <2>1, <2>2, <2>6, <3>2, Invisible
  <2>8. CASE DecodeFailed
    <3>1. result'[c] = cause /\ cause # "nil" /\ cause # "ok"
      BY <2>0, <2>1, <2>8 DEF DecodeFailed, complete, TypeOK, OwnerInv, Causes
    <3>2. status'[c] = "lost"
      BY <2>1, <2>2, <2>3, <2>4, <3>1 DEF status
    <3>3. status' = [status EXCEPT ![c] = "lost"]
      BY <2>1, <2>6, <3>2, StatusChanged
    <3>4. Contract!Reject(c)
      BY <2>1, <2>2, <3>1, <3>3 DEF Contract!Reject, Contract!Become
    <3>5. QED
      BY <2>1, <3>4 DEF Contract!Next
  <2>9. QED
    BY <1>2, <2>7, <2>8
<1>3. QED
  BY <1>1, <1>2

\* Every step of the connection is a step of the contract or invisible.
LEMMA ContractStep ==
  TypeOK /\ OwnerInv /\ OutcomeInv /\ [Next]_vars => [Contract!Next]_(Contract!cvars)
<1> SUFFICES ASSUME TypeOK, OwnerInv, OutcomeInv, [Next]_vars
             PROVE  Contract!Next \/ UNCHANGED Contract!cvars
  OBVIOUS
<1>a. {"ErrClosed", "ctx.Err", "ErrRead", "ErrResponse", "ErrDuplicate", "ErrWrite"} \subseteq Causes
  BY DEF Causes
<1>b. pc \in [Procs -> CallPC \cup RequestPC] /\ Calls \subseteq Procs /\ Requests \cap Calls = {}
  BY ProcsAssumption DEF TypeOK, Procs
<1>c. ASSUME UNCHANGED <<cause, pending, result, ret>>,
             \A c \in Calls : /\ pc'[c] = "returned" <=> pc[c] = "returned"
                              /\ Admitted(c)' <=> Admitted(c)
                              /\ InReceive(c)' <=> InReceive(c)
      PROVE  UNCHANGED Contract!cvars
  BY <1>c, StatusKept, Invisible DEF InPending
<1>1. CASE ConnectionStep
  <2>1. CASE Close
    BY <1>a, <2>1, SeenTerminal DEF Close, Admitted, InReceive, callVars, recvVars
  <2>2. CASE TeardownClose \/ TeardownCancel \/ ContextDone \/ Wait
    BY <1>c, <2>2 DEF TeardownClose, TeardownCancel, ContextDone, Wait, Admitted, InReceive,
       connVars, callVars, recvVars
  <2>3. CASE ObserveContext
    BY <1>a, <1>c, <2>3, SeenTerminal DEF ObserveContext, Admitted, InReceive, connVars, callVars, recvVars
  <2>4. QED
    BY <1>1, <2>1, <2>2, <2>3 DEF ConnectionStep
<1>2. CASE ReceiveStep
  <2>1. CASE claimResponse \/ DecodeOk \/ DecodeFailed
    BY <2>1, SeenResponse
  <2>2. CASE ReadError \/ DuplicateExit
    <3>1. \A c \in Calls : ~InReceive(c) /\ ~InReceive(c)'
      BY <2>2 DEF ReadError, DuplicateExit, Receive, InReceive
    <3>2. QED
      BY <1>a, <2>2, <3>1, SeenTerminal DEF ReadError, DuplicateExit, Admitted, callVars
  <2>3. CASE DecodeError
    <3>1. \A c \in Calls : InReceive(c)' <=> InReceive(c)
      BY <2>3 DEF DecodeError, Receive, InReceive
    <3>2. QED
      BY <1>a, <2>3, <3>1, SeenTerminal DEF DecodeError, Admitted, callVars
  <2>4. QED
    BY <1>2, <2>1, <2>2, <2>3 DEF ReceiveStep
<1>3. ASSUME NEW i \in IDs, ReadResponse(i) PROVE UNCHANGED Contract!cvars
  <2>1. \A c \in Calls : ~InReceive(c) /\ ~InReceive(c)'
    BY <1>3 DEF ReadResponse, Receive, InReceive
  <2>2. QED
    BY <1>c, <1>3, <2>1 DEF ReadResponse, Admitted, connVars, callVars
<1>4. ASSUME NEW r \in Requests, NEW i \in WireIDs, ReadRequest(r, i)
      PROVE  UNCHANGED Contract!cvars
  <2>1. \A c \in Calls : ~InReceive(c) /\ ~InReceive(c)' /\ pc'[c] = pc[c]
    BY <1>b, <1>4 DEF ReadRequest, Receive, InReceive, Goto
  <2>2. QED
    BY <1>c, <1>4, <2>1 DEF ReadRequest, Admitted, connVars, callVars
<1>5. ASSUME NEW p \in Procs, AcquireGate(p) \/ WriteStep(p)
      PROVE  Contract!Next \/ UNCHANGED Contract!cvars
  <2>1. \A c \in Calls : /\ pc'[c] = "returned" <=> pc[c] = "returned"
                         /\ Admitted(c)' <=> Admitted(c)
    BY <1>b, <1>5 DEF AcquireGate, WriteStep, WritePrefix, WriteAccept, WriteReturn, WriteError,
       WriteFailed, Goto, Admitted
  <2>2. UNCHANGED <<result, ret, recvPC, recvArg>>
    BY <1>5 DEF AcquireGate, WriteStep, WritePrefix, WriteAccept, WriteReturn, WriteError,
       WriteFailed, callVars, recvVars
  <2>3. CASE WriteFailed(p)
    BY <1>a, <2>1, <2>2, <2>3, SeenTerminal DEF WriteFailed, InReceive
  <2>4. CASE ~WriteFailed(p)
    BY <1>c, <1>5, <2>1, <2>2, <2>4 DEF AcquireGate, WriteStep, WritePrefix, WriteAccept,
       WriteReturn, WriteError, InReceive, connVars
  <2>5. QED
    BY <2>3, <2>4
<1>6. ASSUME NEW c \in Calls, CallStep(c) PROVE Contract!Next \/ UNCHANGED Contract!cvars
  BY <1>6, SeenCall
<1>7. ASSUME NEW r \in Requests, HandlerStep(r) PROVE UNCHANGED Contract!cvars
  BY <1>c, <1>7, HandlerQuiet DEF Admitted
<1>8. CASE UNCHANGED vars
  BY <1>c, <1>8 DEF vars, Admitted, InReceive, connVars, callVars, recvVars
<1>9. QED
  BY <1>1, <1>2, <1>3, <1>4, <1>5, <1>6, <1>7, <1>8 DEF Next

\* The Go connection implements the contract of Call: what a caller sees of any
\* interleaving of calls, responses, cancellations and termination is a
\* behaviour of CallContract.
THEOREM ContractImplemented == Spec => ImplementsContract
<1>1. Init => OutcomeInv
  BY ProcsAssumption DEF Init, OutcomeInv, Admitted, Procs
<1>2. Init => Contract!Init
  <2> SUFFICES ASSUME Init PROVE Contract!Init
    OBVIOUS
  <2>1. \A c \in Calls : ~InPending(c) /\ ~InReceive(c) /\ ~Admitted(c) /\ pc[c] = "idle"
                         /\ result[c] # "ok"
    BY ProcsAssumption DEF Init, InPending, InReceive, Admitted, Procs
  <2>2. status = [c \in Calls |-> "idle"]
    BY <2>1 DEF status
  <2>3. QED
    BY <2>2 DEF Init, Contract!Init
<1>3. QED
  BY <1>1, <1>2, TypeCorrect, Ownership, OutcomeStep, ContractStep, PTL
  DEF Spec, ImplementsContract, Contract!Spec
=============================================================================
