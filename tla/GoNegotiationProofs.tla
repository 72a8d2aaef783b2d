------------------------- MODULE GoNegotiationProofs -------------------------
(***************************************************************************)
(* Proofs about GoNegotiation, for every set of interface IDs, every       *)
(* record length and any number of frame bytes.                            *)
(***************************************************************************)
EXTENDS GoNegotiation, TLAPS

\* Each end's peer is the other end.
LEMMA PeerFacts ==
  /\ Peer("client") = "server" /\ Peer("server") = "client"
  /\ \A e \in Ends : Peer(e) \in Ends /\ Peer(e) # e
BY DEF Peer, Ends

\* Returning moves one end to its last label and keeps the types.
LEMMA ReturnType ==
  ASSUME TypeOK, NEW e \in Ends, NEW res \in Errors \cup {"nil", "conn"}, Return(e,
    res)
  PROVE  pc' \in [Ends -> PCs] /\ ret' \in [Ends -> Errors \cup {"nil", "conn"}]
BY DEF TypeOK, Return, Goto, PCs

\* Closing through closeOnceStream reaches the stream at most once.
LEMMA CloseType ==
  ASSUME TypeOK, NEW e \in Ends, CloseOwner(e)
  PROVE  closes' \in [Ends -> 0 .. 1] /\ closes'[e] = 1
BY DEF TypeOK, CloseOwner

\* The variables keep their types in every step.
LEMMA TypeStep ==
  ASSUME TypeOK, [Next]_vars
  PROVE  TypeOK'
<1>1. ASSUME NEW e \in Ends, ContextDone(e)
      PROVE  TypeOK'
  BY RecordLenAssumption, MaxSentAssumption, PeerFacts, <1>1 DEF ContextDone,
    TypeOK, Errors, PCs, outcomeVars, ctxVars, wireVars
<1>2. ASSUME NEW e \in Ends, Deadline(e)
      PROVE  TypeOK'
  BY RecordLenAssumption, MaxSentAssumption, PeerFacts, <1>2 DEF Deadline, TypeOK,
    Errors, PCs, outcomeVars, ctxVars, wireVars
<1>3. ASSUME NEW e \in Ends, CallbackStart(e)
      PROVE  TypeOK'
  BY RecordLenAssumption, MaxSentAssumption, PeerFacts, <1>3 DEF CallbackStart,
    TypeOK, Errors, PCs, outcomeVars, ctxVars, wireVars
<1>4. ASSUME NEW e \in Ends, CallbackSelect(e)
      PROVE  TypeOK'
  BY RecordLenAssumption, MaxSentAssumption, PeerFacts, <1>4 DEF CallbackSelect,
    selectError, TypeOK, Errors, PCs, outcomeVars, ctxVars, wireVars
<1>5. ASSUME NEW e \in Ends, CallbackClose(e)
      PROVE  TypeOK'
  BY RecordLenAssumption, MaxSentAssumption, PeerFacts, <1>5 DEF CallbackClose,
    CloseOwner, TypeOK, Errors, PCs, outcomeVars, ctxVars, wireVars
<1>6. ASSUME NEW e \in Ends, Reject(e)
      PROVE  TypeOK'
  <2>1. ret' \in [Ends -> Errors \cup {"nil", "conn"}] /\ pc' \in [Ends -> PCs]
    <3>1. CASE Return(e, "ErrInvalidArgument")
      BY <3>1, ReturnType DEF Errors
    <3>2. CASE Return(e, "ctx.Err")
      BY <3>2, ReturnType DEF Errors
    <3>3. QED
      BY <1>6, <3>1, <3>2 DEF Reject
  <2>2. QED
    BY <2>1, <1>6 DEF TypeOK, Reject, outcomeVars, ctxVars, wireVars
<1>7. ASSUME NEW e \in Ends, Begin(e)
      PROVE  TypeOK'
  BY RecordLenAssumption, MaxSentAssumption, PeerFacts, <1>7 DEF Begin, Goto,
    TypeOK, Errors, PCs, outcomeVars, ctxVars, wireVars
<1>8. ASSUME NEW e \in Ends, WriteID(e)
      PROVE  TypeOK'
  BY RecordLenAssumption, MaxSentAssumption, PeerFacts, <1>8 DEF WriteID, Goto,
    TypeOK, Errors, PCs, outcomeVars, ctxVars, wireVars
<1>9. ASSUME NEW e \in Ends, ReadID(e)
      PROVE  TypeOK'
  BY RecordLenAssumption, MaxSentAssumption, PeerFacts, <1>9 DEF ReadID, Compare,
    Goto, TypeOK, Errors, PCs, outcomeVars, ctxVars, wireVars
<1>10. ASSUME NEW e \in Ends, SetupIOError(e)
      PROVE  TypeOK'
  BY RecordLenAssumption, MaxSentAssumption, PeerFacts, <1>10 DEF SetupIOError,
    Goto, TypeOK, Errors, PCs, outcomeVars, ctxVars, wireVars
<1>11. ASSUME NEW e \in Ends, Fail(e)
      PROVE  TypeOK'
  BY RecordLenAssumption, MaxSentAssumption, PeerFacts, <1>11 DEF Fail,
    selectError, Goto, TypeOK, Errors, PCs, outcomeVars, ctxVars, wireVars
<1>12. ASSUME NEW e \in Ends, StopCallback(e)
      PROVE  TypeOK'
  BY RecordLenAssumption, MaxSentAssumption, PeerFacts, <1>12 DEF StopCallback,
    Goto, TypeOK, Errors, PCs, outcomeVars, ctxVars, wireVars
<1>13. ASSUME NEW e \in Ends, FailClose(e)
      PROVE  TypeOK'
  BY RecordLenAssumption, MaxSentAssumption, PeerFacts, <1>13 DEF FailClose,
    CloseOwner, Cancel, Return, Goto, TypeOK, Errors, PCs, outcomeVars, ctxVars,
    wireVars
<1>14. ASSUME NEW e \in Ends, Handoff(e)
      PROVE  TypeOK'
  <2>1. setupDone' \in [Ends -> BOOLEAN] /\ UNCHANGED ctxDone
    BY <1>14 DEF Handoff, Cancel, TypeOK
  <2>2. CASE err[e] = "nil"
    BY <2>1, <2>2, <1>14 DEF Handoff, Goto, TypeOK, PCs, wireVars
  <2>3. CASE err[e] # "nil"
    <3>1. CloseOwner(e) /\ Return(e, err[e]) /\ UNCHANGED handedOff
      BY <2>3, <1>14 DEF Handoff
    <3>2. err[e] \in Errors \cup {"nil", "conn"}
      BY DEF TypeOK
    <3>3. closes' \in [Ends -> 0 .. 1]
      BY <3>1, CloseType
    <3>4. pc' \in [Ends -> PCs] /\ ret' \in [Ends -> Errors \cup {"nil", "conn"}]
      BY <3>1, <3>2, ReturnType
    <3>5. QED
      BY <2>1, <3>1, <3>3, <3>4, <1>14 DEF Handoff, TypeOK, wireVars
  <2>4. QED
    BY <2>2, <2>3
<1>15. ASSUME NEW e \in Ends, Construct(e)
      PROVE  TypeOK'
  <2>1. closes' \in [Ends -> 0 .. 1]
    <3>1. CASE UNCHANGED closes
      BY <3>1 DEF TypeOK
    <3>2. CASE CloseOwner(e)
      BY <3>2, CloseType
    <3>3. QED
      BY <3>1, <3>2, <1>15 DEF Construct
  <2>2. pc' \in [Ends -> PCs] /\ ret' \in [Ends -> Errors \cup {"nil", "conn"}]
    <3>1. CASE Return(e, "conn")
      BY <3>1, ReturnType
    <3>2. CASE Return(e, "ctx.Err")
      BY <3>2, ReturnType DEF Errors
    <3>3. QED
      BY <3>1, <3>2, <1>15 DEF Construct
  <2>3. QED
    BY <2>1, <2>2, <1>15 DEF Construct, TypeOK, outcomeVars, ctxVars, wireVars
<1>16. ASSUME NEW e \in Ends, SendFrame(e)
      PROVE  TypeOK'
  BY RecordLenAssumption, MaxSentAssumption, PeerFacts, <1>16 DEF SendFrame,
    TypeOK, Errors, PCs, outcomeVars, ctxVars, wireVars
<1>17. CASE UNCHANGED vars
  BY <1>17 DEF vars, outcomeVars, ctxVars, wireVars, TypeOK
<1>18. QED
  BY <1>1, <1>2, <1>3, <1>4, <1>5, <1>6, <1>7, <1>8, <1>9, <1>10, <1>11, <1>12,
    <1>13, <1>14, <1>15, <1>16, <1>17 DEF Next

\* The initial states have the types.
LEMMA TypeInit == Init => TypeOK
BY MaxSentAssumption DEF Init, TypeOK, PCs, Errors

\* The inductive step of the setup invariant, one action at a time.
LEMMA SetupStep ==
  ASSUME TypeOK, SetupInv, [Next]_vars
  PROVE  SetupInv'
<1> USE RecordLenAssumption, MaxSentAssumption DEF SetupInv, OnlyAgreedConnections,
    HandoffIsSafe, FailureCleansUp, Accepts, TypeOK, PCs, Errors,
    Peer, Ends, outcomeVars, ctxVars, wireVars
<1>1. ASSUME NEW e \in Ends, ContextDone(e)
      PROVE  SetupInv'
  BY <1>1, SMTT(30) DEF ContextDone
<1>2. ASSUME NEW e \in Ends, Deadline(e)
      PROVE  SetupInv'
  BY <1>2, SMTT(30) DEF Deadline
<1>3. ASSUME NEW e \in Ends, CallbackStart(e)
      PROVE  SetupInv'
  BY <1>3, SMTT(30) DEF CallbackStart
<1>4. ASSUME NEW e \in Ends, CallbackSelect(e)
      PROVE  SetupInv'
  BY <1>4, SMTT(30) DEF CallbackSelect, selectError
<1>5. ASSUME NEW e \in Ends, CallbackClose(e)
      PROVE  SetupInv'
  BY <1>5, SMTT(30) DEF CallbackClose, CloseOwner
<1>6. ASSUME NEW e \in Ends, Reject(e)
      PROVE  SetupInv'
  BY <1>6, SMTT(30) DEF Reject, Return, Goto
<1>7. ASSUME NEW e \in Ends, Begin(e)
      PROVE  SetupInv'
  BY <1>7, SMTT(30) DEF Begin, Goto
<1>8. ASSUME NEW e \in Ends, WriteID(e)
      PROVE  SetupInv'
  BY <1>8, SMTT(30) DEF WriteID, Goto
<1>9. ASSUME NEW e \in Ends, ReadID(e)
      PROVE  SetupInv'
  <2>1. PICK k \in 1 .. RecordLen - got[e] :
          /\ got[e] + k <= sent[Peer(e)]
          /\ got' = [got EXCEPT ![e] = @ + k]
          /\ IF got[e] + k < RecordLen THEN UNCHANGED <<pc, ioErr>> ELSE Compare(e)
    BY <1>9 DEF ReadID
  <2>2. /\ pc[e] = "read" /\ closes[e] = 0
        /\ UNCHANGED <<binding, outcomeVars, callback, ctxVars, closes, ret, sent>>
    BY <1>9 DEF ReadID
  <2>3. CASE got[e] + k < RecordLen
    BY <2>1, <2>2, <2>3, SMTT(60)
  <2>4. CASE got[e] + k >= RecordLen /\ Accepts(e)
    BY <2>1, <2>2, <2>4, SMTT(30) DEF Compare, Goto
  <2>5. CASE got[e] + k >= RecordLen /\ ~Accepts(e)
    BY <2>1, <2>2, <2>5, SMTT(30) DEF Compare, Goto
  <2>6. QED
    BY <2>1, <2>3, <2>4, <2>5
<1>10. ASSUME NEW e \in Ends, SetupIOError(e)
      PROVE  SetupInv'
  BY <1>10, SMTT(30) DEF SetupIOError, Goto
<1>11. ASSUME NEW e \in Ends, Fail(e)
      PROVE  SetupInv'
  BY <1>11, SMTT(30) DEF Fail, selectError, Goto
<1>12. ASSUME NEW e \in Ends, StopCallback(e)
      PROVE  SetupInv'
  BY <1>12, SMTT(30) DEF StopCallback, Goto
<1>13. ASSUME NEW e \in Ends, FailClose(e)
      PROVE  SetupInv'
  BY <1>13, SMTT(30) DEF FailClose, CloseOwner, Cancel, Return, Goto
<1>14. ASSUME NEW e \in Ends, Handoff(e)
      PROVE  SetupInv'
  BY <1>14, SMTT(30) DEF Handoff, CloseOwner, Cancel, Return, Goto
<1>15. ASSUME NEW e \in Ends, Construct(e)
      PROVE  SetupInv'
  BY <1>15, SMTT(30) DEF Construct, CloseOwner, Return, Goto
<1>16. ASSUME NEW e \in Ends, SendFrame(e)
      PROVE  SetupInv'
  BY <1>16, SMTT(30) DEF SendFrame
<1>17. CASE UNCHANGED vars
  BY <1>17 DEF vars
<1> HIDE DEF SetupInv, OnlyAgreedConnections, HandoffIsSafe,
    FailureCleansUp, Accepts, TypeOK, PCs, Errors, Peer, Ends, outcomeVars,
    ctxVars, wireVars
<1>18. QED
  BY <1>1, <1>2, <1>3, <1>4, <1>5, <1>6, <1>7, <1>8, <1>9, <1>10, <1>11, <1>12,
    <1>13, <1>14, <1>15, <1>16, <1>17 DEF Next

\* The setup invariant holds initially.
LEMMA SetupInit == Init => SetupInv
BY RecordLenAssumption, SMTT(30) DEF Init, SetupInv, OnlyAgreedConnections,
    HandoffIsSafe, FailureCleansUp, Accepts, Peer, Ends

\* Every variable of the negotiation keeps its type; in particular
\* closeOnceStream lets at most one Close through to the stream.
THEOREM SetupTypes == Spec => []TypeOK
<1>1. TypeOK /\ [Next]_vars => TypeOK'
  BY TypeStep
<1>2. QED
  BY TypeInit, <1>1, PTL DEF Spec

\* The setup invariant holds in every behaviour of the two ends.
THEOREM SetupCorrect == Spec => []SetupInv
<1>1. TypeOK /\ SetupInv /\ [Next]_vars => SetupInv'
  BY SetupStep
<1>2. QED
  BY SetupInit, SetupTypes, <1>1, PTL DEF Spec

\* NewNegotiatedClientConnection and NewNegotiatedServerConnection return a
\* connection only when the interface IDs agree.
THEOREM Agreement == Spec => []OnlyAgreedConnections
<1>1. SetupInv => OnlyAgreedConnections
  BY DEF SetupInv
<1>2. QED
  BY SetupCorrect, <1>1, PTL

\* A returned connection is open, its setup callback is stopped for good, and
\* it reads from the peer's first frame byte on.
THEOREM SafeHandoff == Spec => []HandoffIsSafe
<1>1. SetupInv => HandoffIsSafe
  BY DEF SetupInv
<1>2. QED
  BY SetupCorrect, <1>1, PTL

\* A failed setup leaves the stream closed once and no callback running.
THEOREM CleanFailure == Spec => []FailureCleansUp
<1>1. SetupInv => FailureCleansUp
  BY DEF SetupInv
<1>2. QED
  BY SetupCorrect, <1>1, PTL

\* A step never replaces a selected error and returns no other one.
LEMMA FirstErrorStep ==
  ASSUME TypeOK, SetupInv, [Next]_vars
  PROVE  KeepsFirstError
<1> USE DEF KeepsFirstError, TypeOK, SetupInv, Ends, outcomeVars
<1>1. ASSUME NEW e \in Ends, ContextDone(e)
      PROVE  KeepsFirstError
  BY <1>1, SMTT(30) DEF ContextDone
<1>2. ASSUME NEW e \in Ends, Deadline(e)
      PROVE  KeepsFirstError
  BY <1>2, SMTT(30) DEF Deadline
<1>3. ASSUME NEW e \in Ends, CallbackStart(e)
      PROVE  KeepsFirstError
  BY <1>3, SMTT(30) DEF CallbackStart
<1>4. ASSUME NEW e \in Ends, CallbackSelect(e)
      PROVE  KeepsFirstError
  BY <1>4, SMTT(30) DEF CallbackSelect, selectError
<1>5. ASSUME NEW e \in Ends, CallbackClose(e)
      PROVE  KeepsFirstError
  BY <1>5, SMTT(30) DEF CallbackClose, CloseOwner
<1>6. ASSUME NEW e \in Ends, Reject(e)
      PROVE  KeepsFirstError
  BY <1>6, SMTT(30) DEF Reject, Return, Goto
<1>7. ASSUME NEW e \in Ends, Begin(e)
      PROVE  KeepsFirstError
  BY <1>7, SMTT(30) DEF Begin, Goto
<1>8. ASSUME NEW e \in Ends, WriteID(e)
      PROVE  KeepsFirstError
  BY <1>8, SMTT(30) DEF WriteID, Goto
<1>9. ASSUME NEW e \in Ends, ReadID(e)
      PROVE  KeepsFirstError
  BY <1>9, SMTT(30) DEF ReadID, Compare, Goto
<1>10. ASSUME NEW e \in Ends, SetupIOError(e)
      PROVE  KeepsFirstError
  BY <1>10, SMTT(30) DEF SetupIOError, Goto
<1>11. ASSUME NEW e \in Ends, Fail(e)
      PROVE  KeepsFirstError
  BY <1>11, SMTT(30) DEF Fail, selectError, Goto
<1>12. ASSUME NEW e \in Ends, StopCallback(e)
      PROVE  KeepsFirstError
  BY <1>12, SMTT(30) DEF StopCallback, Goto
<1>13. ASSUME NEW e \in Ends, FailClose(e)
      PROVE  KeepsFirstError
  BY <1>13, SMTT(30) DEF FailClose, CloseOwner, Cancel, Return, Goto
<1>14. ASSUME NEW e \in Ends, Handoff(e)
      PROVE  KeepsFirstError
  BY <1>14, SMTT(30) DEF Handoff, CloseOwner, Cancel, Return, Goto
<1>15. ASSUME NEW e \in Ends, Construct(e)
      PROVE  KeepsFirstError
  BY <1>15, SMTT(30) DEF Construct, CloseOwner, Return, Goto
<1>16. ASSUME NEW e \in Ends, SendFrame(e)
      PROVE  KeepsFirstError
  BY <1>16, SMTT(30) DEF SendFrame
<1>17. CASE UNCHANGED vars
  BY <1>17 DEF vars
<1> HIDE DEF KeepsFirstError, TypeOK, SetupInv, Ends, outcomeVars
<1>18. QED
  BY <1>1, <1>2, <1>3, <1>4, <1>5, <1>6, <1>7, <1>8, <1>9, <1>10, <1>11, <1>12,
    <1>13, <1>14, <1>15, <1>16, <1>17 DEF Next

\* The first error of a setup is permanent and is the one returned, whichever
\* of the constructor and the setup callback selected it.
THEOREM FirstError == Spec => FirstErrorReturned
<1>1. TypeOK /\ SetupInv /\ [Next]_vars => [KeepsFirstError]_vars
  BY FirstErrorStep
<1>2. QED
  BY SetupTypes, SetupCorrect, <1>1, PTL DEF Spec, FirstErrorReturned

=============================================================================
