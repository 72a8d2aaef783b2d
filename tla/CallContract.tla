---------------------------- MODULE CallContract ----------------------------
(***************************************************************************)
(* What a connection promises the callers of Call, with the gate, the IDs, *)
(* the stream and the goroutines hidden: the documented ownership rule of  *)
(* call.go ("Presence in the pending map means the admitted request is     *)
(* eligible for exactly one outcome") as a state machine.                  *)
(***************************************************************************)
CONSTANTS Calls, Causes, LocalErrors

VARIABLES
  conn,   \* "nil" while active, then the permanent cause
  status, \* "idle", "open", "answered", "lost" or "returned"
  ret     \* what the call returned, "nil" before

cvars == <<conn, status, ret>>

Init ==
  /\ conn = "nil"
  /\ status = [c \in Calls |-> "idle"]
  /\ ret = [c \in Calls |-> "nil"]

Return(c, res) ==
  /\ status' = [status EXCEPT ![c] = "returned"]
  /\ ret' = [ret EXCEPT ![c] = res]
  /\ UNCHANGED conn

Become(c, s) ==
  /\ status' = [status EXCEPT ![c] = s]
  /\ UNCHANGED <<conn, ret>>

\* A call that never got an ID returns a local error or the current cause.
Refuse(c) ==
  /\ status[c] = "idle"
  /\ \E e \in LocalErrors \cup ({conn} \ {"nil"}) : Return(c, e)

\* Only an active connection admits a call.
Admit(c) == conn = "nil" /\ status[c] = "idle" /\ Become(c, "open")

\* A response claims an open call.
Answer(c) == status[c] = "open" /\ Become(c, "answered")

\* The claimed response was unacceptable: the call shares the fate of the
\* connection, which it has just ended or which had already ended.
Reject(c) == conn # "nil" /\ status[c] = "answered" /\ Become(c, "lost")

\* Termination takes all open calls at once; no response or cancellation can
\* claim one of them afterwards.
Terminate ==
  /\ conn = "nil"
  /\ conn' \in Causes
  /\ status' = [c \in Calls |-> IF status[c] = "open" THEN "lost" ELSE status[c]]
  /\ UNCHANGED ret

Cancel(c) == status[c] = "open" /\ Return(c, "callCtx.Err")

Deliver(c) == status[c] = "answered" /\ Return(c, "ok")

Fail(c) == status[c] = "lost" /\ Return(c, conn)

Next ==
  \/ Terminate
  \/ \E c \in Calls : \/ Refuse(c) \/ Admit(c) \/ Answer(c) \/ Reject(c)
                      \/ Cancel(c) \/ Deliver(c) \/ Fail(c)

Spec == Init /\ [][Next]_cvars
=============================================================================
