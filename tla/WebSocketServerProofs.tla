----------------------- MODULE WebSocketServerProofs -----------------------
(***************************************************************************)
(* Theorems about WebSocketServer for every set of requests, finite or     *)
(* not, and every set of Shutdown calls that has serve's.                  *)
(***************************************************************************)
EXTENDS WebSocketServer, FiniteSetTheorems, TLAPS

-----------------------------------------------------------------------------
(* What a step of ServeHTTP does to the executions in flight               *)

Outside == {"idle", "refused", "done"}

\* A step between two points inside ServeHTTP, and one between two points
\* outside it, keeps the set of executions in flight.
LEMMA InFlightKept ==
  ASSUME TypeOK, NEW r \in Requests, NEW l, Goto(r, l), pc[r] \in Outside <=> l \in Outside
  PROVE  InFlight' = InFlight
BY DEF TypeOK, Goto, InFlight, Outside

\* An execution that is counted joins the set.
LEMMA InFlightJoins ==
  ASSUME TypeOK, NEW r \in Requests, NEW l, Goto(r, l), pc[r] \in Outside, l \notin Outside
  PROVE  InFlight' = InFlight \cup {r} /\ r \notin InFlight
BY DEF TypeOK, Goto, InFlight, Outside

\* An execution that ends leaves it.
LEMMA InFlightLeaves ==
  ASSUME TypeOK, NEW r \in Requests, NEW l, Goto(r, l), pc[r] \notin Outside, l \in Outside
  PROVE  InFlight' = InFlight \ {r} /\ r \in InFlight
BY DEF TypeOK, Goto, InFlight, Outside

\* Finish takes the execution out of the WaitGroup once, and never below zero.
LEMMA FinishCounted ==
  ASSUME TypeOK, Counted, NEW r \in Requests, Finish(r), pc[r] \notin Outside
  PROVE  Counted' /\ wg' \in Nat
<1>1. InFlight' = InFlight \ {r} /\ r \in InFlight
  BY InFlightLeaves DEF Finish, Outside
<1>2. /\ IsFiniteSet(InFlight')
      /\ Cardinality(InFlight') = Cardinality(InFlight) - 1
  BY <1>1, FS_RemoveElement DEF Counted
<1>3. Cardinality(InFlight') \in Nat
  BY <1>2, FS_CardinalityType
<1>4. wg' = Cardinality(InFlight')
  BY <1>2 DEF Finish, Counted
<1>5. QED
  BY <1>2, <1>3, <1>4 DEF Counted

\* A step that changes neither the counter nor who is in flight.
LEMMA NotCounted ==
  ASSUME TypeOK, Counted, wg' = wg, InFlight' = InFlight
  PROVE  Counted' /\ wg' \in Nat
BY DEF TypeOK, Counted

\* Every step keeps the WaitGroup equal to the number of executions in flight.
LEMMA CountedStep ==
  TypeOK /\ Counted /\ [Next]_vars => Counted' /\ wg' \in Nat
<1> SUFFICES ASSUME TypeOK, Counted, [Next]_vars PROVE Counted' /\ wg' \in Nat
  OBVIOUS
<1>1. ASSUME NEW r \in Requests, RequestStep(r) PROVE Counted' /\ wg' \in Nat
  <2>1. CASE Begin(r)
    <3>1. CASE closed
      BY <2>1, <3>1, InFlightKept, NotCounted DEF Begin, Outside
    <3>2. CASE ~closed
      <4>1. InFlight' = InFlight \cup {r} /\ r \notin InFlight
        BY <2>1, <3>2, InFlightJoins DEF Begin, Outside
      <4>2. /\ IsFiniteSet(InFlight')
            /\ Cardinality(InFlight') = Cardinality(InFlight) + 1
        BY <4>1, FS_AddElement DEF Counted
      <4>3. QED
        BY <2>1, <3>2, <4>2 DEF Begin, Counted, TypeOK
    <3>3. QED
      BY <3>1, <3>2
  <2>2. CASE AcceptFails(r) \/ Abandon(r) \/ RejectWait(r) \/ remove(r)
    BY <2>2, FinishCounted DEF AcceptFails, Abandon, RejectWait, remove, Outside
  <2>3. CASE AcceptStream(r)
    BY <2>3, InFlightKept, NotCounted DEF AcceptStream, Outside
  <2>4. CASE registerSetup(r)
    BY <2>4, InFlightKept, NotCounted DEF registerSetup, Outside
  <2>5. CASE NegotiateFails(r) \/ Unregister(r) \/ Negotiate(r)
    BY <2>5, InFlightKept, NotCounted DEF NegotiateFails, Unregister, Negotiate, Outside
  <2>6. CASE promote(r)
    BY <2>6, InFlightKept, NotCounted DEF promote, Outside
  <2>7. CASE RejectClose(r) \/ ConnWait(r)
    BY <2>7, InFlightKept, NotCounted DEF RejectClose, ConnWait, Outside
  <2>8. CASE StreamCallback(r) \/ ConnTerminates(r) \/ ConnDown(r)
    BY <2>8, NotCounted DEF StreamCallback, ConnTerminates, ConnDown, InFlight
  <2>9. QED
    BY <1>1, <2>1, <2>2, <2>3, <2>4, <2>5, <2>6, <2>7, <2>8 DEF RequestStep
<1>2. ASSUME NEW s \in Shutdowns, ShutdownStep(s) PROVE Counted' /\ wg' \in Nat
  BY <1>2, NotCounted DEF ShutdownStep, Shutdown, ShutdownWait, ShutdownDone, ShutdownExpires,
     reqVars, InFlight
<1>3. ASSUME NEW s \in Shutdowns, NEW r \in Requests, NEW kind \in Kinds, ShutdownItem(s, r, kind)
      PROVE  Counted' /\ wg' \in Nat
  BY <1>3, NotCounted DEF ShutdownItem, InFlight
<1>4. CASE ServeStep
  BY <1>4, NotCounted DEF ServeStep, ServeContextDone, ServeStops, ServeSelect, ServeReturns,
     reqVars, InFlight
<1>5. CASE UNCHANGED vars
  BY <1>5, NotCounted DEF vars, reqVars, InFlight
<1>6. QED
  BY <1>1, <1>2, <1>3, <1>4, <1>5 DEF Next

-----------------------------------------------------------------------------
(* The rest of the invariant, one lemma per conjunct                       *)

\* Every step keeps the types; wg is a natural number by CountedStep.
LEMMA TypeStep ==
  TypeOK /\ [Next]_vars /\ wg' \in Nat => TypeOK'
<1> SUFFICES ASSUME TypeOK, [Next]_vars, wg' \in Nat PROVE TypeOK'
  OBVIOUS
<1> USE DEF TypeOK, RequestPC, ShutdownPC, downVars, srvVars, Goto
<1>1. ASSUME NEW r \in Requests, RequestStep(r) PROVE TypeOK'
  <2>1. CASE Begin(r)
    BY <2>1 DEF Begin
  <2>2. CASE AcceptFails(r)
    BY <2>2 DEF AcceptFails, Finish
  <2>3. CASE AcceptStream(r)
    BY <2>3 DEF AcceptStream
  <2>4. CASE registerSetup(r)
    BY <2>4 DEF registerSetup
  <2>5. CASE NegotiateFails(r)
    BY <2>5 DEF NegotiateFails, CloseStream
  <2>6. CASE Unregister(r)
    BY <2>6 DEF Unregister
  <2>7. CASE Abandon(r)
    BY <2>7 DEF Abandon, CloseStream, Finish
  <2>8. CASE Negotiate(r)
    BY <2>8 DEF Negotiate
  <2>9. CASE promote(r)
    BY <2>9 DEF promote
  <2>10. CASE RejectClose(r)
    BY <2>10 DEF RejectClose, CloseConn
  <2>11. CASE RejectWait(r)
    BY <2>11 DEF RejectWait, Finish
  <2>12. CASE ConnWait(r)
    BY <2>12 DEF ConnWait
  <2>13. CASE remove(r)
    BY <2>13 DEF remove, Finish
  <2>14. CASE StreamCallback(r)
    BY <2>14 DEF StreamCallback, CloseStream
  <2>15. CASE ConnTerminates(r)
    BY <2>15 DEF ConnTerminates
  <2>16. CASE ConnDown(r)
    BY <2>16 DEF ConnDown, CloseStream
  <2>17. QED
    BY <1>1, <2>1, <2>2, <2>3, <2>4, <2>5, <2>6, <2>7, <2>8, <2>9, <2>10, <2>11, <2>12,
       <2>13, <2>14, <2>15, <2>16 DEF RequestStep
<1>2. ASSUME NEW s \in Shutdowns, ShutdownBegin(s)
      PROVE  closed' \in BOOLEAN /\ todo' \in [Shutdowns -> SUBSET (Requests \X Kinds)]
               /\ spc' \in [Shutdowns -> ShutdownPC]
  BY <1>2 DEF ShutdownBegin, Kinds
<1>3. ASSUME NEW s \in Shutdowns, ShutdownStep(s) PROVE TypeOK'
  <2>1. CASE Shutdown(s)
    BY <2>1, <1>2 DEF Shutdown, reqVars
  <2>2. CASE ShutdownWait(s) \/ ShutdownDone(s) \/ ShutdownExpires(s)
    BY <2>2 DEF ShutdownWait, ShutdownDone, ShutdownExpires, reqVars
  <2>3. QED
    BY <1>3, <2>1, <2>2 DEF ShutdownStep
<1>4. ASSUME NEW s \in Shutdowns, NEW r \in Requests, NEW kind \in Kinds, ShutdownItem(s, r, kind)
      PROVE  TypeOK'
  BY <1>4 DEF ShutdownItem, CloseStream, CloseConn
<1>5. CASE ServeStep
  <2>1. CASE ServeSelect
    BY <2>1, <1>2, ServeAssumption DEF ServeSelect, reqVars
  <2>2. CASE ServeContextDone \/ ServeStops \/ ServeReturns
    BY <2>2 DEF ServeContextDone, ServeStops, ServeReturns, reqVars
  <2>3. QED
    BY <1>5, <2>1, <2>2 DEF ServeStep
<1>6. CASE UNCHANGED vars
  BY <1>6 DEF vars, reqVars
<1>7. QED
  BY <1>1, <1>3, <1>4, <1>5, <1>6 DEF Next

\* Every step keeps the two maps in line with the control of the executions.
LEMMA RegisteredStep ==
  TypeOK /\ Registered /\ [Next]_vars => Registered'
<1> SUFFICES ASSUME TypeOK, Registered, [Next]_vars PROVE Registered'
  OBVIOUS
<1>1. ASSUME NEW r \in Requests, RequestStep(r) PROVE Registered'
  <2> USE DEF TypeOK, Registered, Goto
  <2>1. CASE Begin(r) \/ AcceptStream(r)
    BY <2>1 DEF Begin, AcceptStream
  <2>2. CASE AcceptFails(r) \/ Abandon(r) \/ RejectWait(r)
    BY <2>2 DEF AcceptFails, Abandon, RejectWait, Finish
  <2>3. CASE registerSetup(r)
    BY <2>3 DEF registerSetup
  <2>4. CASE NegotiateFails(r) \/ Unregister(r) \/ Negotiate(r)
    BY <2>4 DEF NegotiateFails, Unregister, Negotiate
  <2>5. CASE promote(r)
    BY <2>5 DEF promote
  <2>6. CASE RejectClose(r) \/ ConnWait(r)
    BY <2>6 DEF RejectClose, ConnWait
  <2>7. CASE remove(r)
    BY <2>7 DEF remove, Finish
  <2>8. CASE StreamCallback(r) \/ ConnTerminates(r) \/ ConnDown(r)
    BY <2>8 DEF StreamCallback, ConnTerminates, ConnDown
  <2>9. QED
    BY <1>1, <2>1, <2>2, <2>3, <2>4, <2>5, <2>6, <2>7, <2>8 DEF RequestStep
<1>2. ASSUME UNCHANGED <<setup, active, pc>> PROVE Registered'
  BY <1>2 DEF Registered
<1>3. ASSUME NEW s \in Shutdowns, ShutdownStep(s) PROVE Registered'
  BY <1>2, <1>3 DEF ShutdownStep, Shutdown, ShutdownWait, ShutdownDone, ShutdownExpires, reqVars
<1>4. ASSUME NEW s \in Shutdowns, NEW r \in Requests, NEW kind \in Kinds, ShutdownItem(s, r, kind)
      PROVE  Registered'
  BY <1>2, <1>4 DEF ShutdownItem
<1>5. CASE ServeStep
  BY <1>2, <1>5 DEF ServeStep, ServeContextDone, ServeStops, ServeSelect, ServeReturns, reqVars
<1>6. CASE UNCHANGED vars
  BY <1>2, <1>6 DEF vars, reqVars
<1>7. QED
  BY <1>1, <1>3, <1>4, <1>5, <1>6 DEF Next

\* Every step keeps the ownership of streams and connections.
LEMMA OwnedStep ==
  TypeOK /\ Owned /\ [Next]_vars => Owned'
<1> SUFFICES ASSUME TypeOK, Owned, [Next]_vars PROVE Owned'
  OBVIOUS
<1>1. ASSUME NEW r \in Requests, RequestStep(r) PROVE Owned'
  <2> USE DEF TypeOK, Owned, Goto
  <2>1. CASE Begin(r)
    BY <2>1 DEF Begin
  <2>2. CASE AcceptFails(r)
    BY <2>2 DEF AcceptFails, Finish
  <2>3. CASE AcceptStream(r)
    BY <2>3 DEF AcceptStream
  <2>4. CASE registerSetup(r)
    BY <2>4 DEF registerSetup
  <2>5. CASE NegotiateFails(r)
    BY <2>5 DEF NegotiateFails, CloseStream
  <2>6. CASE Unregister(r)
    BY <2>6 DEF Unregister
  <2>7. CASE Abandon(r)
    BY <2>7 DEF Abandon, CloseStream, Finish
  <2>8. CASE Negotiate(r)
    BY <2>8 DEF Negotiate
  <2>9. CASE promote(r)
    BY <2>9 DEF promote
  <2>10. CASE RejectClose(r)
    BY <2>10 DEF RejectClose, CloseConn
  <2>11. CASE RejectWait(r)
    BY <2>11 DEF RejectWait, Finish
  <2>12. CASE ConnWait(r)
    BY <2>12 DEF ConnWait
  <2>13. CASE remove(r)
    BY <2>13 DEF remove, Finish
  <2>14. CASE StreamCallback(r)
    BY <2>14 DEF StreamCallback, CloseStream
  <2>15. CASE ConnTerminates(r)
    BY <2>15 DEF ConnTerminates
  <2>16. CASE ConnDown(r)
    BY <2>16 DEF ConnDown, CloseStream
  <2>17. QED
    BY <1>1, <2>1, <2>2, <2>3, <2>4, <2>5, <2>6, <2>7, <2>8, <2>9, <2>10, <2>11, <2>12,
       <2>13, <2>14, <2>15, <2>16 DEF RequestStep
<1>2. ASSUME UNCHANGED <<pc, stream, conn>> PROVE Owned'
  BY <1>2 DEF Owned
<1>3. ASSUME NEW s \in Shutdowns, ShutdownStep(s) PROVE Owned'
  BY <1>2, <1>3 DEF ShutdownStep, Shutdown, ShutdownWait, ShutdownDone, ShutdownExpires, reqVars
<1>4. ASSUME NEW s \in Shutdowns, NEW r \in Requests, NEW kind \in Kinds, ShutdownItem(s, r, kind)
      PROVE  Owned'
  BY <1>4 DEF ShutdownItem, CloseStream, CloseConn, Owned, TypeOK
<1>5. CASE ServeStep
  BY <1>2, <1>5 DEF ServeStep, ServeContextDone, ServeStops, ServeSelect, ServeReturns, reqVars
<1>6. CASE UNCHANGED vars
  BY <1>2, <1>6 DEF vars, reqVars
<1>7. QED
  BY <1>1, <1>3, <1>4, <1>5, <1>6 DEF Next

\* Once closed, no execution begins: the set in flight only shrinks.
LEMMA ClosedShrinks ==
  ASSUME TypeOK, [Next]_vars, closed
  PROVE  closed' /\ (InFlight = {} => InFlight' = {})
<1>1. ASSUME NEW r \in Requests, RequestStep(r) PROVE closed' /\ (InFlight = {} => InFlight' = {})
  <2>1. CASE pc[r] \in Outside
    <3>1. Begin(r) \/ UNCHANGED <<closed, pc>>
      BY <1>1, <2>1 DEF RequestStep, AcceptFails, AcceptStream, registerSetup, NegotiateFails,
         Unregister, Abandon, Negotiate, promote, RejectClose, RejectWait, ConnWait, remove,
         StreamCallback, ConnTerminates, ConnDown, Outside
    <3>2. CASE Begin(r)
      BY <3>2, InFlightKept DEF Begin, Outside
    <3>3. QED
      BY <3>1, <3>2 DEF InFlight
  <2>2. CASE pc[r] \notin Outside
    <3>1. r \in InFlight
      BY <2>2 DEF InFlight, Outside
    <3>2. closed' = closed
      BY <1>1 DEF RequestStep, Begin, AcceptFails, AcceptStream, registerSetup, NegotiateFails,
         Unregister, Abandon, Negotiate, promote, RejectClose, RejectWait, ConnWait, remove,
         StreamCallback, ConnTerminates, ConnDown
    <3>3. QED
      BY <3>1, <3>2
  <2>3. QED
    BY <2>1, <2>2
<1>2. ASSUME NEW s \in Shutdowns, ShutdownStep(s) PROVE closed' /\ pc' = pc
  BY <1>2 DEF ShutdownStep, Shutdown, ShutdownBegin, ShutdownWait, ShutdownDone,
     ShutdownExpires, reqVars
<1>3. ASSUME NEW s \in Shutdowns, NEW r \in Requests, NEW kind \in Kinds, ShutdownItem(s, r, kind)
      PROVE  closed' /\ pc' = pc
  BY <1>3 DEF ShutdownItem
<1>4. CASE ServeStep
  <2>1. closed' /\ pc' = pc
    BY <1>4 DEF ServeStep, ServeContextDone, ServeStops, ServeSelect, ShutdownBegin,
       ServeReturns, reqVars
  <2>2. QED
    BY <2>1 DEF InFlight
<1>5. CASE UNCHANGED vars
  BY <1>5 DEF vars, reqVars, InFlight
<1>6. QED
  BY <1>1, <1>2, <1>3, <1>4, <1>5 DEF Next, InFlight

\* Every step keeps what a Shutdown that has started, or returned, promises.
LEMMA ClosedStep ==
  TypeOK /\ Counted /\ Closed /\ [Next]_vars => Closed'
<1> SUFFICES ASSUME TypeOK, Counted, Closed, [Next]_vars PROVE Closed'
  OBVIOUS
<1> USE ServeAssumption
<1>1. ASSUME UNCHANGED <<spc, sret, srvPC>> PROVE Closed'
  BY <1>1, ClosedShrinks DEF Closed
<1>2. ASSUME NEW r \in Requests, RequestStep(r) PROVE Closed'
  BY <1>1, <1>2 DEF RequestStep, Begin, AcceptFails, AcceptStream, registerSetup,
     NegotiateFails, Unregister, Abandon, Negotiate, promote, RejectClose, RejectWait, ConnWait,
     remove, StreamCallback, ConnTerminates, ConnDown, downVars, srvVars
<1>3. ASSUME NEW s \in Shutdowns, ShutdownStep(s) PROVE Closed'
  <2>1. CASE Shutdown(s)
    <3>1. /\ InFlight' = InFlight /\ closed' /\ sret' = sret /\ srvPC' = srvPC
          /\ spc'[Serve] = spc[Serve]
      BY <2>1 DEF Shutdown, ShutdownBegin, reqVars, srvVars, InFlight, TypeOK
    <3>2. QED
      BY <3>1 DEF Closed
  <2>2. CASE ShutdownWait(s)
    <3>1. InFlight' = InFlight
      BY <2>2 DEF ShutdownWait, reqVars, InFlight
    <3>2. QED
      BY <2>2, <3>1 DEF ShutdownWait, srvVars, Closed, TypeOK
  <2>3. CASE ShutdownDone(s)
    <3>1. InFlight' = {} /\ InFlight = {}
      BY <2>3, FS_EmptySet DEF ShutdownDone, Counted, reqVars, InFlight
    <3>2. QED
      BY <2>3, <3>1 DEF ShutdownDone, srvVars, Closed, TypeOK
  <2>4. CASE ShutdownExpires(s)
    <3>1. InFlight' = InFlight
      BY <2>4 DEF ShutdownExpires, reqVars, InFlight
    <3>2. QED
      BY <2>4, <3>1 DEF ShutdownExpires, srvVars, Closed, TypeOK
  <2>5. QED
    BY <1>3, <2>1, <2>2, <2>3, <2>4 DEF ShutdownStep
<1>4. ASSUME NEW s \in Shutdowns, NEW r \in Requests, NEW kind \in Kinds, ShutdownItem(s, r, kind)
      PROVE  Closed'
  BY <1>1, <1>4 DEF ShutdownItem, srvVars
<1>5. CASE ServeStep
  <2>1. CASE ServeContextDone \/ ServeStops
    BY <1>1, <2>1 DEF ServeContextDone, ServeStops, downVars
  <2>2. CASE ServeSelect
    <3>1. InFlight' = InFlight
      BY <2>2 DEF ServeSelect, reqVars, InFlight
    <3>2. /\ closed' /\ sret' = sret /\ srvPC' = "shutdown"
          /\ spc'[Serve] = "closing"
      BY <2>2 DEF ServeSelect, ShutdownBegin, TypeOK
    <3>3. QED
      BY <3>1, <3>2 DEF Closed
  <2>3. CASE ServeReturns
    <3>1. InFlight' = InFlight
      BY <2>3 DEF ServeReturns, reqVars, InFlight
    <3>2. QED
      BY <2>3, <3>1 DEF ServeReturns, downVars, Closed
  <2>4. QED
    BY <1>5, <2>1, <2>2, <2>3 DEF ServeStep
<1>6. CASE UNCHANGED vars
  BY <1>1, <1>6 DEF vars, downVars, srvVars
<1>7. QED
  BY <1>2, <1>3, <1>4, <1>5, <1>6 DEF Next

\* Every step keeps the snapshots complete.
LEMMA SnapshotStep ==
  TypeOK /\ Snapshot /\ [Next]_vars => Snapshot'
<1> SUFFICES ASSUME TypeOK, Snapshot, [Next]_vars PROVE Snapshot'
  OBVIOUS
<1>1. ASSUME cancelled \subseteq cancelled', todo' = todo, closed' = closed,
             closed => setup' \cup active' \subseteq setup \cup active
      PROVE  Snapshot'
  BY <1>1 DEF Snapshot
<1>2. ASSUME NEW r \in Requests, RequestStep(r) PROVE Snapshot'
  <2>1. /\ cancelled \subseteq cancelled' /\ todo' = todo /\ closed' = closed
        /\ closed => setup' \cup active' \subseteq setup \cup active
    <3>1. CASE Begin(r) \/ AcceptFails(r) \/ AcceptStream(r)
      BY <3>1 DEF Begin, AcceptFails, AcceptStream, Finish, downVars
    <3>2. CASE registerSetup(r)
      BY <3>2 DEF registerSetup, downVars
    <3>3. CASE NegotiateFails(r) \/ Unregister(r) \/ Abandon(r) \/ Negotiate(r)
      BY <3>3 DEF NegotiateFails, Unregister, Abandon, Negotiate, Finish, downVars
    <3>4. CASE promote(r)
      BY <3>4 DEF promote, downVars
    <3>5. CASE RejectClose(r) \/ RejectWait(r) \/ ConnWait(r) \/ remove(r)
      BY <3>5 DEF RejectClose, RejectWait, ConnWait, remove, Finish, downVars
    <3>6. CASE StreamCallback(r) \/ ConnTerminates(r) \/ ConnDown(r)
      BY <3>6 DEF StreamCallback, ConnTerminates, ConnDown, downVars
    <3>7. QED
      BY <1>2, <3>1, <3>2, <3>3, <3>4, <3>5, <3>6 DEF RequestStep
  <2>2. QED
    BY <1>1, <2>1
<1>3. ASSUME NEW s \in Shutdowns, ShutdownBegin(s), UNCHANGED <<setup, active>>
      PROVE  Snapshot'
  <2>1. \A r \in setup : <<r, "stream">> \in todo'[s]
    BY <1>3 DEF ShutdownBegin, TypeOK
  <2>2. \A r \in active : <<r, "conn">> \in todo'[s]
    BY <1>3 DEF ShutdownBegin, TypeOK
  <2>3. QED
    BY <1>3, <2>1, <2>2 DEF Snapshot, Kinds
<1>4. ASSUME NEW s \in Shutdowns, ShutdownStep(s) PROVE Snapshot'
  <2>1. CASE Shutdown(s)
    BY <1>3, <2>1 DEF Shutdown
  <2>2. CASE ShutdownWait(s) \/ ShutdownDone(s) \/ ShutdownExpires(s)
    BY <1>1, <2>2 DEF ShutdownWait, ShutdownDone, ShutdownExpires, reqVars
  <2>3. QED
    BY <1>4, <2>1, <2>2 DEF ShutdownStep
<1>5. ASSUME NEW s \in Shutdowns, NEW r \in Requests, NEW kind \in Kinds, ShutdownItem(s, r, kind)
      PROVE  Snapshot'
  <2>1. /\ closed' = closed /\ setup' = setup /\ active' = active
        /\ cancelled' = cancelled \cup {r}
    BY <1>5 DEF ShutdownItem
  <2>2. \A t \in Shutdowns, q \in Requests, k \in Kinds :
          q # r /\ <<q, k>> \in todo[t] => <<q, k>> \in todo'[t]
    BY <1>5 DEF ShutdownItem, TypeOK
  <2>3. setup \cup active \subseteq Requests
    BY DEF TypeOK
  <2>4. QED
    BY <2>1, <2>2, <2>3 DEF Snapshot
<1>6. CASE ServeStep
  <2>1. CASE ServeSelect
    BY <1>3, <2>1, ServeAssumption DEF ServeSelect
  <2>2. CASE ServeContextDone \/ ServeStops \/ ServeReturns
    BY <1>1, <2>2 DEF ServeContextDone, ServeStops, ServeReturns, reqVars, downVars
  <2>3. QED
    BY <1>6, <2>1, <2>2 DEF ServeStep
<1>7. CASE UNCHANGED vars
  BY <1>1, <1>7 DEF vars, reqVars, downVars
<1>8. QED
  BY <1>2, <1>4, <1>5, <1>6, <1>7 DEF Next

-----------------------------------------------------------------------------
(* The theorems                                                            *)

\* The inductive invariant holds in every reachable state.
THEOREM HandlerCorrect == Spec => []HandlerInv
<1>1. Init => HandlerInv
  <2>1. ASSUME Init PROVE InFlight = {}
    BY <2>1 DEF Init, InFlight
  <2>2. ASSUME Init PROVE Counted
    BY <2>1, <2>2, FS_EmptySet DEF Init, Counted
  <2>3. Init => TypeOK
    <3>1. {} \in SUBSET (Requests \X Kinds)
      OBVIOUS
    <3>2. Init => todo \in [Shutdowns -> SUBSET (Requests \X Kinds)]
      BY <3>1 DEF Init
    <3>3. Init => setup \subseteq Requests /\ active \subseteq Requests /\ cancelled \subseteq Requests
      BY DEF Init
    <3>4. Init => /\ pc \in [Requests -> RequestPC]
                  /\ stream \in [Requests -> {"none", "open", "closed"}]
                  /\ conn \in [Requests -> {"none", "live", "terminal", "down"}]
      BY DEF Init, RequestPC
    <3>5. Init => /\ spc \in [Shutdowns -> ShutdownPC]
                  /\ sret \in [Shutdowns -> {"none", "nil", "ctx.Err"}]
      BY DEF Init, ShutdownPC
    <3>6. Init => wg \in Nat /\ srvPC \in {"select", "shutdown", "returned"}
                  /\ primary \in {"none", "serveErr", "ErrServerClosed"}
      BY DEF Init
    <3>7. Init => closed \in BOOLEAN /\ srvCtx \in BOOLEAN /\ listening \in BOOLEAN
      BY DEF Init
    <3>8. QED
      BY <3>2, <3>3, <3>4, <3>5, <3>6, <3>7 DEF TypeOK
  <2>4. Init => Registered /\ Owned /\ Closed /\ Snapshot
    BY ServeAssumption DEF Init, Registered, Owned, Closed, Snapshot
  <2>5. QED
    BY <2>2, <2>3, <2>4 DEF HandlerInv
<1>2. HandlerInv /\ [Next]_vars => HandlerInv'
  BY CountedStep, TypeStep, RegisteredStep, OwnedStep, ClosedStep, SnapshotStep DEF HandlerInv
<1>3. QED
  BY <1>1, <1>2, PTL DEF Spec

\* An execution of ServeHTTP that has ended left no open stream, no live
\* connection and no entry in the handler's maps, and the WaitGroup never drops
\* below zero, whatever the number of requests and Shutdown calls.
THEOREM NothingLeaks == Spec => []NoLeak
<1>1. HandlerInv => NoLeak
  BY DEF HandlerInv, NoLeak, Registered, Owned, TypeOK
<1>2. QED
  BY <1>1, HandlerCorrect, PTL

\* A Shutdown that returns nil, and a serve that returns, leave nothing behind;
\* between the two, every registered execution was closed or is in a snapshot.
THEOREM Drains == Spec => []ShutdownDrains
<1>1. HandlerInv => ShutdownDrains
  <2> SUFFICES ASSUME HandlerInv PROVE ShutdownDrains
    OBVIOUS
  <2>1. ASSUME srvPC = "returned" \/ \E s \in Shutdowns : sret[s] = "nil"
        PROVE  InFlight = {}
    BY <2>1, ServeAssumption DEF HandlerInv, Closed
  <2>2. ASSUME InFlight = {}, NEW r \in Requests
        PROVE  /\ r \notin setup /\ r \notin active
               /\ stream[r] # "open" /\ conn[r] \in {"none", "down"}
    <3>1. pc[r] \in Outside
      BY <2>2 DEF InFlight, Outside
    <3>2. QED
      BY <3>1 DEF HandlerInv, Registered, Owned, Outside
  <2>3. InFlight = {} => setup = {} /\ active = {}
    BY <2>2 DEF HandlerInv, TypeOK
  <2>4. QED
    BY <2>1, <2>2, <2>3 DEF ShutdownDrains, HandlerInv
<1>2. QED
  BY <1>1, HandlerCorrect, PTL
=============================================================================
