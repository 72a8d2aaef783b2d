------------------------ MODULE UnixTransportProofs ------------------------
(***************************************************************************)
(* Theorems about UnixTransport for every set of listeners on the path and *)
(* every set of streams, finite or not.  The composition implements the    *)
(* listener and the server it is made of; each of those keeps its own      *)
(* invariant, and the composition relates the two.                         *)
(***************************************************************************)
EXTENDS UnixTransport, FiniteSetTheorems, TLAPS

-----------------------------------------------------------------------------
(* The parts of a step                                                     *)

\* A step of the composition is a step of the listener's path or leaves it.
LEMMA PathPart == [Next]_vars => [L!Next]_(L!vars)
<1> SUFFICES ASSUME [Next]_vars PROVE [L!Next]_(L!vars)
  OBVIOUS
<1> USE OwnAssumption
<1>1. ASSUME NEW l \in Listeners, PathStep(l) \/ OtherClose(l) \/ OtherNetClose(l)
      PROVE  L!Next
  BY <1>1 DEF PathStep, OtherClose, OtherNetClose, L!Next
<1>2. CASE Unlink
  BY <1>2 DEF Unlink, L!Next
<1>3. CASE BeginClose
  BY <1>3 DEF BeginClose, L!Next
<1>4. CASE Watch
  BY <1>4 DEF Watch, WithSocket, L!Next, L!vars, pathVars
<1>5. CASE Cancel
  BY <1>5 DEF Cancel, WithSocket, L!Next, L!vars, pathVars
<1>6. CASE ListenAndServe \/ ContextDone \/ JoinWatcher
  BY <1>6 DEF ListenAndServe, ContextDone, JoinWatcher, L!vars, pathVars
<1>7. CASE AcceptFails \/ Stop \/ Return
  BY <1>7 DEF AcceptFails, Stop, Return, Serving, L!vars, pathVars
<1>8. ASSUME NEW x \in Streams, NEW kind \in {"stream", "conn"}, CloseItem(x, kind)
      PROVE  UNCHANGED L!vars
  BY <1>8 DEF CloseItem, Serving, L!vars, pathVars
<1>9. ASSUME NEW x \in Streams,
             \/ Accept(x) \/ NegotiateFails(x) \/ Unregister(x) \/ Abandon(x)
             \/ Negotiate(x) \/ promote(x) \/ RejectClose(x) \/ RejectWait(x)
             \/ ConnWait(x) \/ remove(x) \/ ConnTerminates(x) \/ ConnDown(x)
      PROVE  UNCHANGED L!vars
  BY <1>9 DEF Accept, NegotiateFails, Unregister, Abandon, Negotiate, promote, RejectClose,
     RejectWait, ConnWait, remove, ConnTerminates, ConnDown, Serving, L!vars, pathVars
<1>10. CASE UNCHANGED vars
  BY <1>10 DEF vars, pathVars, L!vars
<1>11. QED
  BY <1>1, <1>2, <1>3, <1>4, <1>5, <1>6, <1>7, <1>8, <1>9, <1>10 DEF Next

\* A step of the composition is a step of the server or leaves it.
LEMMA ServerPart == [Next]_vars => [S!Next]_(S!vars)
<1> SUFFICES ASSUME [Next]_vars PROVE [S!Next]_(S!vars)
  OBVIOUS
<1>1. ASSUME UNCHANGED serverVars PROVE UNCHANGED S!vars
  BY <1>1 DEF serverVars, S!vars, S!stateVars, S!mainVars, S!streamVars
<1>2. ASSUME NEW l \in Listeners, PathStep(l) \/ OtherClose(l) \/ OtherNetClose(l)
      PROVE  UNCHANGED S!vars
  BY <1>1, <1>2 DEF PathStep, OtherClose, OtherNetClose
<1>3. CASE Unlink \/ ListenAndServe \/ BeginClose
  BY <1>1, <1>3 DEF Unlink, ListenAndServe, BeginClose
<1>4. CASE ContextDone \/ JoinWatcher
  BY <1>4 DEF ContextDone, JoinWatcher, S!Next
<1>5. CASE Watch \/ Cancel
  BY <1>5 DEF Watch, Cancel, WithSocket, S!Next
<1>6. CASE AcceptFails \/ Stop \/ Return
  BY <1>6 DEF AcceptFails, Stop, Return, Serving, S!Next
<1>7. ASSUME NEW x \in Streams, NEW kind \in {"stream", "conn"}, CloseItem(x, kind)
      PROVE  S!Next
  BY <1>7 DEF CloseItem, Serving, S!Next
<1>8. ASSUME NEW x \in Streams,
             \/ Accept(x) \/ NegotiateFails(x) \/ Unregister(x) \/ Abandon(x)
             \/ Negotiate(x) \/ promote(x) \/ RejectClose(x) \/ RejectWait(x)
             \/ ConnWait(x) \/ remove(x) \/ ConnTerminates(x) \/ ConnDown(x)
      PROVE  S!Next
  BY <1>8 DEF Accept, NegotiateFails, Unregister, Abandon, Negotiate, promote, RejectClose,
     RejectWait, ConnWait, remove, ConnTerminates, ConnDown, Serving, S!Next
<1>9. CASE UNCHANGED vars
  BY <1>1, <1>9 DEF vars
<1>10. QED
  BY <1>2, <1>3, <1>4, <1>5, <1>6, <1>7, <1>8, <1>9 DEF Next

\* ListenAndServe implements both the listener's and the server's own
\* specification: neither part is driven outside its protocol by the other.
THEOREM ImplementsParts == Spec => L!Spec /\ S!Spec
<1>1. Init => L!Init /\ S!Init
  BY DEF Init
<1>2. QED
  BY <1>1, PathPart, ServerPart, PTL DEF Spec, L!Spec, S!Spec

-----------------------------------------------------------------------------
(* The path                                                                *)

\* Every step of a listener keeps PathInv.
LEMMA PathInvStep == L!PathInv /\ [L!Next]_(L!vars) => L!PathInv'
<1> SUFFICES ASSUME L!PathInv, [L!Next]_(L!vars) PROVE L!PathInv'
  OBVIOUS
<1> USE OwnAssumption DEF L!PathInv, L!TypeOK, L!PathReachesOpen, L!NoStaleLeaf, L!OwnLeaf,
        L!ListenerPC, L!Goto
<1>1. ASSUME NEW l \in Listeners, L!Inspect(l) PROVE L!PathInv'
  BY <1>1 DEF L!Inspect
<1>2. ASSUME NEW l \in Listeners, L!Bind(l) PROVE L!PathInv'
  BY <1>2 DEF L!Bind
<1>3. ASSUME NEW l \in Listeners, L!Identify(l) PROVE L!PathInv'
  BY <1>3 DEF L!Identify
<1>4. ASSUME NEW l \in Listeners, L!Chmod(l) PROVE L!PathInv'
  BY <1>4 DEF L!Chmod
<1>5. ASSUME NEW l \in Listeners, L!Close(l) PROVE L!PathInv'
  BY <1>5 DEF L!Close
<1>6. ASSUME NEW l \in Listeners, L!NetClose(l) PROVE L!PathInv'
  BY <1>6 DEF L!NetClose
<1>7. ASSUME NEW l \in Listeners, L!Check(l) PROVE L!PathInv'
  BY <1>7 DEF L!Check
<1>8. ASSUME NEW l \in Listeners, L!Remove(l) PROVE L!PathInv'
  BY <1>8 DEF L!Remove
<1>9. CASE L!Unlink
  BY <1>9 DEF L!Unlink
<1>10. CASE UNCHANGED L!vars
  BY <1>10 DEF L!vars
<1>11. QED
  BY <1>1, <1>2, <1>3, <1>4, <1>5, <1>6, <1>7, <1>8, <1>9, <1>10 DEF L!Next
-----------------------------------------------------------------------------
(* The server                                                              *)

\* A step between two points inside a stream's goroutine.
LEMMA StreamKept ==
  ASSUME S!TypeOK, NEW x \in Streams, NEW l, S!Goto(x, l),
         pc[x] \notin {"idle", "done"}, l \notin {"idle", "done"}
  PROVE  S!InFlight' = S!InFlight
BY DEF S!TypeOK, S!Goto, S!InFlight

\* A goroutine that ends leaves the WaitGroup once, and never below zero.
LEMMA StreamLeaves ==
  ASSUME S!TypeOK, Counted, NEW x \in Streams, S!Goto(x, "done"), wg' = wg - 1,
         pc[x] \notin {"idle", "done"}
  PROVE  Counted' /\ wg' \in Nat
<1>1. S!InFlight' = S!InFlight \ {x} /\ x \in S!InFlight
  BY DEF S!TypeOK, S!Goto, S!InFlight
<1>2. /\ IsFiniteSet(S!InFlight')
      /\ Cardinality(S!InFlight') = Cardinality(S!InFlight) - 1
  BY <1>1, FS_RemoveElement DEF Counted
<1>3. Cardinality(S!InFlight') \in Nat
  BY <1>2, FS_CardinalityType
<1>4. wg' = Cardinality(S!InFlight')
  BY <1>2 DEF Counted
<1>5. QED
  BY <1>2, <1>3, <1>4 DEF Counted

\* A step that changes neither the counter nor who is in flight.
LEMMA StreamsNotCounted ==
  ASSUME S!TypeOK, Counted, wg' = wg, S!InFlight' = S!InFlight
  PROVE  Counted' /\ wg' \in Nat
BY DEF S!TypeOK, Counted

\* Every step keeps the WaitGroup equal to the number of stream goroutines.
LEMMA StreamsCounted ==
  S!TypeOK /\ Counted /\ [S!Next]_(S!vars) => Counted' /\ wg' \in Nat
<1> SUFFICES ASSUME S!TypeOK, Counted, [S!Next]_(S!vars) PROVE Counted' /\ wg' \in Nat
  OBVIOUS
<1>1. ASSUME wg' = wg, pc' = pc PROVE Counted' /\ wg' \in Nat
  BY <1>1, StreamsNotCounted DEF S!InFlight
<1>2. CASE S!ContextDone \/ S!Watch \/ S!AcceptFails \/ S!Stop \/ S!Cancel \/ S!JoinWatcher \/ S!Return
  BY <1>1, <1>2 DEF S!ContextDone, S!Watch, S!AcceptFails, S!Stop, S!Cancel, S!JoinWatcher,
     S!Return, S!stateVars, S!streamVars
<1>3. ASSUME NEW x \in Streams, NEW kind \in {"stream", "conn"}, S!CloseItem(x, kind)
      PROVE  Counted' /\ wg' \in Nat
  BY <1>1, <1>3 DEF S!CloseItem, S!stateVars
<1>4. ASSUME NEW x \in Streams, S!Accept(x) PROVE Counted' /\ wg' \in Nat
  <2>1. S!InFlight' = S!InFlight \cup {x} /\ x \notin S!InFlight
    BY <1>4 DEF S!Accept, S!TypeOK, S!Goto, S!InFlight
  <2>2. /\ IsFiniteSet(S!InFlight')
        /\ Cardinality(S!InFlight') = Cardinality(S!InFlight) + 1
    BY <2>1, FS_AddElement DEF Counted
  <2>3. QED
    BY <1>4, <2>2 DEF S!Accept, Counted, S!TypeOK
<1>5. ASSUME NEW x \in Streams, S!Abandon(x) \/ S!RejectWait(x) \/ S!remove(x)
      PROVE  Counted' /\ wg' \in Nat
  BY <1>5, StreamLeaves DEF S!Abandon, S!RejectWait, S!remove
<1>6. ASSUME NEW x \in Streams, S!NegotiateFails(x) \/ S!Unregister(x) \/ S!Negotiate(x)
      PROVE  Counted' /\ wg' \in Nat
  BY <1>6, StreamKept, StreamsNotCounted DEF S!NegotiateFails, S!Unregister, S!Negotiate, S!stateVars
<1>7. ASSUME NEW x \in Streams, S!promote(x) \/ S!RejectClose(x) \/ S!ConnWait(x)
      PROVE  Counted' /\ wg' \in Nat
  BY <1>7, StreamKept, StreamsNotCounted DEF S!promote, S!RejectClose, S!ConnWait, S!stateVars
<1>8. ASSUME NEW x \in Streams, S!ConnTerminates(x) \/ S!ConnDown(x)
      PROVE  Counted' /\ wg' \in Nat
  BY <1>1, <1>8 DEF S!ConnTerminates, S!ConnDown, S!stateVars
<1>9. CASE UNCHANGED S!vars
  BY <1>1, <1>9 DEF S!vars, S!stateVars, S!streamVars
<1>10. QED
  BY <1>2, <1>3, <1>4, <1>5, <1>6, <1>7, <1>8, <1>9 DEF S!Next

\* The types, the two maps and what the goroutines own are kept by every step;
\* the WaitGroup's type is StreamsCounted's.
LEMMA StreamsStep ==
  S!TypeOK /\ S!Registered /\ S!Owned /\ [S!Next]_(S!vars) /\ wg' \in Nat =>
    S!TypeOK' /\ S!Registered' /\ S!Owned'
<1> SUFFICES ASSUME S!TypeOK, S!Registered, S!Owned, [S!Next]_(S!vars), wg' \in Nat
             PROVE  S!TypeOK' /\ S!Registered' /\ S!Owned'
  OBVIOUS
<1> USE DEF S!TypeOK, S!StreamPC, S!mainVars, S!stateVars, S!streamVars
<1>1. ASSUME UNCHANGED <<setup, active, pc, stream, conn>> PROVE S!Registered' /\ S!Owned'
  BY <1>1 DEF S!Registered, S!Owned
<1>2. CASE S!ContextDone \/ S!AcceptFails \/ S!JoinWatcher \/ S!Return
  <2>1. CASE S!ContextDone
    BY <1>1, <2>1 DEF S!ContextDone
  <2>2. CASE S!AcceptFails
    BY <1>1, <2>2 DEF S!AcceptFails
  <2>3. CASE S!JoinWatcher \/ S!Return
    BY <1>1, <2>3 DEF S!JoinWatcher, S!Return
  <2>4. QED
    BY <1>2, <2>1, <2>2, <2>3
<1>3. CASE S!Watch \/ S!Cancel
  <2>1. listener' \in {"open", "watcher", "serve"}
    BY <1>3 DEF S!Watch, S!Cancel, S!CloseListener
  <2>2. CASE S!Watch
    BY <1>1, <2>1, <2>2 DEF S!Watch
  <2>3. CASE S!Cancel
    BY <1>1, <2>1, <2>3 DEF S!Cancel
  <2>4. QED
    BY <1>3, <2>2, <2>3
<1>4. CASE S!Stop
  <2>1. todo' \subseteq Streams \X {"stream", "conn"}
    BY <1>4 DEF S!Stop
  <2>2. QED
    BY <1>1, <1>4, <2>1 DEF S!Stop
<1>5. ASSUME NEW x \in Streams, NEW kind \in {"stream", "conn"}, S!CloseItem(x, kind)
      PROVE  S!TypeOK' /\ S!Registered' /\ S!Owned'
  BY <1>5 DEF S!CloseItem, S!CloseStream, S!CloseConn, S!Registered, S!Owned
<1>6. ASSUME NEW x \in Streams,
             \/ S!Accept(x) \/ S!NegotiateFails(x) \/ S!Unregister(x) \/ S!Abandon(x)
             \/ S!Negotiate(x) \/ S!promote(x) \/ S!RejectClose(x) \/ S!RejectWait(x)
             \/ S!ConnWait(x) \/ S!remove(x) \/ S!ConnTerminates(x) \/ S!ConnDown(x)
      PROVE  S!TypeOK' /\ S!Registered' /\ S!Owned'
  <2> USE DEF S!Registered, S!Owned, S!Goto
  <2>1. CASE S!Accept(x)
    BY <2>1 DEF S!Accept
  <2>2. CASE S!NegotiateFails(x)
    BY <2>2 DEF S!NegotiateFails, S!CloseStream
  <2>3. CASE S!Unregister(x)
    BY <2>3 DEF S!Unregister
  <2>4. CASE S!Abandon(x)
    BY <2>4 DEF S!Abandon, S!CloseStream
  <2>5. CASE S!Negotiate(x)
    BY <2>5 DEF S!Negotiate
  <2>6. CASE S!promote(x)
    BY <2>6 DEF S!promote
  <2>7. CASE S!RejectClose(x)
    BY <2>7 DEF S!RejectClose, S!CloseConn
  <2>8. CASE S!RejectWait(x)
    BY <2>8 DEF S!RejectWait
  <2>9. CASE S!ConnWait(x)
    BY <2>9 DEF S!ConnWait
  <2>10. CASE S!remove(x)
    BY <2>10 DEF S!remove
  <2>11. CASE S!ConnTerminates(x)
    BY <2>11 DEF S!ConnTerminates
  <2>12. CASE S!ConnDown(x)
    BY <2>12 DEF S!ConnDown, S!CloseStream
  <2>13. QED
    BY <1>6, <2>1, <2>2, <2>3, <2>4, <2>5, <2>6, <2>7, <2>8, <2>9, <2>10, <2>11, <2>12
<1>7. CASE UNCHANGED S!vars
  BY <1>1, <1>7 DEF S!vars
<1>8. QED
  BY <1>2, <1>3, <1>4, <1>5, <1>6, <1>7 DEF S!Next

\* Every step keeps what serve has achieved in stopping: no goroutine starts
\* once the accept loop has ended.
LEMMA StoppedStep ==
  S!TypeOK /\ Counted /\ S!Stopped /\ [S!Next]_(S!vars) => S!Stopped'
<1> SUFFICES ASSUME S!TypeOK, Counted, S!Stopped, [S!Next]_(S!vars) PROVE S!Stopped'
  OBVIOUS
<1> USE DEF S!Stopped, S!mainVars, S!streamVars
<1>1. CASE S!ContextDone \/ S!AcceptFails \/ S!Stop \/ S!JoinWatcher
  BY <1>1 DEF S!ContextDone, S!AcceptFails, S!Stop, S!JoinWatcher, S!InFlight
<1>2. CASE S!Watch
  BY <1>2 DEF S!Watch, S!CloseListener, S!InFlight
<1>3. CASE S!Cancel
  BY <1>3 DEF S!Cancel, S!CloseListener
<1>4. CASE S!Return
  <2>1. S!InFlight' = {}
    BY <1>4, FS_EmptySet DEF S!Return, Counted, S!InFlight
  <2>2. QED
    BY <1>4, <2>1 DEF S!Return
<1>5. ASSUME NEW x \in Streams, NEW kind \in {"stream", "conn"}, S!CloseItem(x, kind)
      PROVE  S!Stopped'
  BY <1>5 DEF S!CloseItem, S!InFlight
<1>6. ASSUME NEW x \in Streams, S!Accept(x) PROVE S!Stopped'
  BY <1>6 DEF S!Accept
<1>7. ASSUME NEW x \in Streams, UNCHANGED <<mpc, listener, watcher>>, x \in S!InFlight
      PROVE  S!Stopped'
  BY <1>7
<1>8. ASSUME NEW x \in Streams,
             \/ S!NegotiateFails(x) \/ S!Unregister(x) \/ S!Abandon(x)
             \/ S!Negotiate(x) \/ S!promote(x) \/ S!RejectClose(x) \/ S!RejectWait(x)
             \/ S!ConnWait(x) \/ S!remove(x)
      PROVE  S!Stopped'
  <2>1. x \in S!InFlight
    BY <1>8 DEF S!InFlight, S!NegotiateFails, S!Unregister, S!Abandon, S!Negotiate, S!promote,
       S!RejectClose, S!RejectWait, S!ConnWait, S!remove
  <2>2. UNCHANGED <<mpc, listener, watcher>>
    BY <1>8 DEF S!NegotiateFails, S!Unregister, S!Abandon, S!Negotiate, S!promote,
       S!RejectClose, S!RejectWait, S!ConnWait, S!remove
  <2>3. QED
    BY <1>7, <2>1, <2>2
<1>9. ASSUME NEW x \in Streams, S!ConnTerminates(x) \/ S!ConnDown(x) PROVE S!Stopped'
  BY <1>9 DEF S!ConnTerminates, S!ConnDown, S!InFlight
<1>10. CASE UNCHANGED S!vars
  BY <1>10 DEF S!vars, S!InFlight
<1>11. QED
  BY <1>1, <1>2, <1>3, <1>4, <1>5, <1>6, <1>8, <1>9, <1>10 DEF S!Next

\* The server's part of the invariant is inductive.
LEMMA ServerInvStep == ServerInv /\ [S!Next]_(S!vars) => ServerInv'
BY StreamsCounted, StreamsStep, StoppedStep DEF ServerInv

-----------------------------------------------------------------------------
(* The composition                                                         *)

\* The server's view of its listener follows the socket, and serve goes on
\* only when both calls of Close have returned.
LEMMA JoinStep ==
  TransportInv /\ [Next]_vars =>
    /\ serving' /\ listener' = "open" => lpc'[Own] \in {"open", "netClose"}
    /\ mpc' \in {"closing", "returned"} => Closed'
<1> SUFFICES ASSUME TransportInv, [Next]_vars
             PROVE  /\ serving' /\ listener' = "open" => lpc'[Own] \in {"open", "netClose"}
                    /\ mpc' \in {"closing", "returned"} => Closed'
  OBVIOUS
<1> DEFINE Goal == /\ serving' /\ listener' = "open" => lpc'[Own] \in {"open", "netClose"}
                   /\ mpc' \in {"closing", "returned"} => Closed'
<1> USE OwnAssumption
<1>0. lpc \in [Listeners -> L!ListenerPC]
  BY DEF TransportInv, L!PathInv, L!TypeOK
<1>1. ASSUME UNCHANGED <<serverVars, serving>>,
             lpc[Own] \in {"open", "netClose"} /\ serving => lpc'[Own] \in {"open", "netClose"},
             Closed => Closed'
      PROVE  Goal
  BY <1>1 DEF TransportInv, serverVars
<1>2. ASSUME NEW l \in Listeners, PathStep(l) PROVE Goal
  <2>1. \/ l # Own /\ lpc'[Own] = lpc[Own]
        \/ l = Own /\ lpc[Own] \in {"idle", "bind", "identify", "chmod", "check", "remove"}
    BY <1>2, <1>0 DEF PathStep, L!Inspect, L!Bind, L!Identify, L!Chmod, L!Check, L!Remove, L!Goto
  <2>2. QED
    BY <1>1, <1>2, <2>1 DEF PathStep, Closed
<1>3. ASSUME NEW l \in Listeners, OtherClose(l) PROVE Goal
  BY <1>0, <1>1, <1>3 DEF OtherClose, L!Close, L!Goto, Closed
<1>4. ASSUME NEW l \in Listeners, OtherNetClose(l) PROVE Goal
  BY <1>0, <1>1, <1>4 DEF OtherNetClose, L!NetClose, L!Goto, Closed
<1>5. CASE Unlink
  BY <1>1, <1>5 DEF Unlink, L!Unlink, Closed
<1>6. CASE BeginClose
  BY <1>0, <1>1, <1>6 DEF BeginClose, L!Close, L!Goto, Closed
<1>7. CASE ListenAndServe
  BY <1>7 DEF ListenAndServe, serverVars, pathVars, TransportInv, Closed
<1>8. CASE Watch \/ Cancel
  <2>1. CASE listener' # listener
    <3>1. listener' # "open"
      BY <1>8, <2>1 DEF Watch, Cancel, WithSocket, S!Watch, S!Cancel, S!CloseListener
    <3>2. lpc[Own] = "netClose"
      BY <1>8, <2>1 DEF Watch, Cancel, WithSocket, L!NetClose
    <3>3. ~Closed
      BY <3>2 DEF Closed
    <3>4. mpc' \notin {"closing", "returned"}
      BY <1>8, <3>3 DEF TransportInv, Watch, Cancel, WithSocket, S!Watch, S!Cancel, S!mainVars
    <3>5. QED
      BY <3>1, <3>4
  <2>2. CASE listener' = listener
    <3>1. UNCHANGED <<pathVars, serving>>
      BY <1>8, <2>2 DEF Watch, Cancel, WithSocket
    <3>2. mpc' = mpc \/ mpc' = "join"
      BY <1>8 DEF Watch, Cancel, WithSocket, S!Watch, S!Cancel, S!mainVars
    <3>3. QED
      BY <2>2, <3>1, <3>2 DEF TransportInv, pathVars, Closed
  <2>3. QED
    BY <2>1, <2>2
<1>9. CASE JoinWatcher
  BY <1>9 DEF JoinWatcher, S!JoinWatcher, TransportInv, pathVars, Closed
<1>10. ASSUME UNCHANGED <<pathVars, serving, listener>>,
              mpc' \in {"closing", "returned"} => mpc \in {"closing", "returned"}
       PROVE  Goal
  BY <1>10 DEF TransportInv, pathVars, Closed
<1>11. CASE ContextDone
  BY <1>10, <1>11 DEF ContextDone, S!ContextDone, S!mainVars
<1>12. CASE AcceptFails \/ Stop \/ Return
  BY <1>10, <1>12 DEF AcceptFails, Stop, Return, Serving, S!AcceptFails, S!Stop, S!Return
<1>13. ASSUME NEW x \in Streams, NEW kind \in {"stream", "conn"}, CloseItem(x, kind)
       PROVE  Goal
  BY <1>10, <1>13 DEF CloseItem, Serving, S!CloseItem
<1>14. ASSUME NEW x \in Streams,
              \/ Accept(x) \/ NegotiateFails(x) \/ Unregister(x) \/ Abandon(x)
              \/ Negotiate(x) \/ promote(x) \/ RejectClose(x) \/ RejectWait(x)
              \/ ConnWait(x) \/ remove(x) \/ ConnTerminates(x) \/ ConnDown(x)
       PROVE  Goal
  <2>1. UNCHANGED <<pathVars, serving, listener, mpc>>
    BY <1>14 DEF Accept, NegotiateFails, Unregister, Abandon, Negotiate, promote, RejectClose,
       RejectWait, ConnWait, remove, ConnTerminates, ConnDown, Serving, S!Accept,
       S!NegotiateFails, S!Unregister, S!Abandon, S!Negotiate, S!promote, S!RejectClose,
       S!RejectWait, S!ConnWait, S!remove, S!ConnTerminates, S!ConnDown, S!mainVars
  <2>2. QED
    BY <1>10, <2>1
<1>15. CASE UNCHANGED vars
  BY <1>10, <1>15 DEF vars, serverVars
<1>16. QED
  BY <1>2, <1>3, <1>4, <1>5, <1>6, <1>7, <1>8, <1>9, <1>11, <1>12, <1>13, <1>14, <1>15 DEF Next

\* The inductive invariant holds in every reachable state.
THEOREM TransportCorrect == Spec => []TransportInv
<1>1. Init => TransportInv
  <2>1. Init => L!PathInv
    BY OwnAssumption DEF Init, L!Init, L!PathInv, L!TypeOK, L!PathReachesOpen, L!NoStaleLeaf,
       L!OwnLeaf, L!ListenerPC
  <2>2. Init => S!Registered /\ S!Owned
    BY DEF Init, S!Init, S!Registered, S!Owned
  <2>3. ASSUME Init PROVE Counted
    <3>1. S!InFlight = {}
      BY <2>3 DEF Init, S!Init, S!InFlight
    <3>2. QED
      BY <2>3, <3>1, FS_EmptySet DEF Init, S!Init, Counted
  <2>4. Init => S!TypeOK
    <3>1. Init => ctxDone \in BOOLEAN /\ cancelled \in BOOLEAN /\ stopWatcher \in BOOLEAN
                  /\ stopping \in BOOLEAN
      BY DEF Init, S!Init
    <3>2. Init => setup \subseteq Streams /\ active \subseteq Streams
                  /\ todo \subseteq Streams \X {"stream", "conn"}
      BY DEF Init, S!Init
    <3>3. Init => /\ pc \in [Streams -> S!StreamPC]
                  /\ stream \in [Streams -> {"none", "open", "closed"}]
                  /\ conn \in [Streams -> {"none", "live", "terminal", "down"}]
      BY DEF Init, S!Init, S!StreamPC
    <3>4. Init => /\ listener \in {"open", "watcher", "serve"} /\ watcher \in {"wait", "done"}
                  /\ mpc \in {"accept", "stop", "cancel", "join", "closing", "returned"}
                  /\ primary \in {"none", "acceptErr", "ErrServerClosed"} /\ wg \in Nat
      BY DEF Init, S!Init
    <3>5. QED
      BY <3>1, <3>2, <3>3, <3>4 DEF S!TypeOK
  <2>5. Init => S!Stopped /\ ~serving /\ mpc = "accept"
    BY DEF Init, S!Init, S!Stopped
  <2>6. QED
    BY <2>1, <2>2, <2>3, <2>4, <2>5 DEF TransportInv, ServerInv
<1>2. TransportInv /\ [Next]_vars => TransportInv'
  BY PathPart, ServerPart, PathInvStep, ServerInvStep, JoinStep DEF TransportInv
<1>3. QED
  BY <1>1, <1>2, PTL DEF Spec

\* Whoever binds, closes or unlinks: clients reach the open listener while no
\* other program removes a leaf, a Close removes no leaf but its own then, and a
\* Close without error never leaves a stale leaf.
THEOREM PathOwned == Spec => []PathOwnership
<1>1. TransportInv => PathOwnership
  <2> SUFFICES ASSUME TransportInv PROVE PathOwnership
    OBVIOUS
  <2>1. serving /\ listener = "open" => Own \in accepting
    BY OwnAssumption DEF TransportInv, L!PathInv, L!OwnLeaf
  <2>2. QED
    BY <2>1 DEF PathOwnership, TransportInv, L!PathInv
<1>2. QED
  BY <1>1, TransportCorrect, PTL

\* When ListenAndServe returns nothing of it is left: no goroutine, socket,
\* connection or listener, and no socket file unless its removal failed.
THEOREM Drains == Spec => []ServeDrains
<1>1. TransportInv => ServeDrains
  <2> SUFFICES ASSUME TransportInv PROVE ServeDrains
    OBVIOUS
  <2>1. ASSUME mpc = "returned", NEW x \in Streams
        PROVE  /\ pc[x] \in {"idle", "done"} /\ x \notin setup /\ x \notin active
               /\ stream[x] # "open" /\ conn[x] \in {"none", "down"}
    <3>1. pc[x] \in {"idle", "done"}
      BY <2>1 DEF TransportInv, ServerInv, S!Stopped, S!InFlight
    <3>2. QED
      BY <3>1 DEF TransportInv, ServerInv, S!Registered, S!Owned
  <2>2. mpc = "returned" => setup = {} /\ active = {}
    BY <2>1 DEF TransportInv, ServerInv, S!TypeOK
  <2>3. S!ServeDrains
    BY <2>1, <2>2 DEF TransportInv, ServerInv, S!Stopped, S!ServeDrains
  <2>4. mpc = "returned" => Closed /\ Own \notin accepting /\ (lpc[Own] = "closed" => path # Own)
    BY OwnAssumption DEF TransportInv, L!PathInv, L!OwnLeaf, L!NoStaleLeaf, Closed
  <2>5. QED
    BY <2>3, <2>4 DEF ServeDrains, TransportInv, ServerInv
<1>2. QED
  BY <1>1, TransportCorrect, PTL
=============================================================================
