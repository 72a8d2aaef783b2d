---------------------------- MODULE GoNegotiation ----------------------------
(***************************************************************************)
(* The interface agreement before a negotiated Connection                  *)
(* (src/go/negotiate.go), with both of its ends: the client writes the ID  *)
(* of its import binding, the server compares it with its export binding   *)
(* and answers with the ID of its own import binding.  Each end runs       *)
(*   - the constructor (pc), and                                           *)
(*   - the AfterFunc callback of its setup context (callback), which       *)
(*     races it for the outcome and closes the stream when it wins.        *)
(* A record is RecordLen bytes; the bytes one end has put on the stream    *)
(* are counted by sent, the ones the other end's setup has read by got.    *)
(* Bytes past RecordLen are frames of the connection that follows.         *)
(***************************************************************************)
EXTENDS Integers

CONSTANTS
  IDs,        \* interface IDs
  RecordLen,  \* length of an InterfaceID (32 bytes in the code)
  MaxSent     \* bound of this model: bytes one end sends

ASSUME RecordLenAssumption == RecordLen \in Nat \ {0}
ASSUME MaxSentAssumption == MaxSent \in Nat /\ MaxSent >= RecordLen

Ends == {"client", "server"}
Peer(e) == IF e = "client" THEN "server" ELSE "client"

PCs == {"start", "write", "read", "fail", "failStop", "failClose", "stop", "handoff",
        "construct", "returned"}
Errors == {"ErrInvalidArgument", "ctx.Err", "setupCtx.Err", "ErrInterfaceMismatch", "ErrIO"}

VARIABLES
  binding,   \* the import and export IDs each end was given
  pc,        \* control of the constructor
  ioErr,     \* the error runNegotiation returned, "nil" if none
  err,       \* setupOutcome.err
  handedOff, \* setupOutcome.handedOff
  callback,  \* "unset", "armed", "select", "close", "done" or "stopped"
  ctxDone,   \* is the caller's context done?
  setupDone, \* is the setup context done (caller, deadline or cancel)?
  closes,    \* Close calls that reached the stream
  ret,       \* "nil", "conn" or the error returned
  sent,      \* bytes put on the stream
  got        \* bytes of the peer read by setup

outcomeVars == <<err, handedOff>>
ctxVars == <<ctxDone, setupDone>>
wireVars == <<sent, got>>
vars == <<binding, pc, ioErr, outcomeVars, callback, ctxVars, closes, ret, wireVars>>

Init ==
  /\ binding \in [Ends -> [import : IDs, export : IDs]]
  /\ pc = [e \in Ends |-> "start"]
  /\ ioErr = [e \in Ends |-> "nil"]
  /\ err = [e \in Ends |-> "nil"]
  /\ handedOff = [e \in Ends |-> FALSE]
  /\ callback = [e \in Ends |-> "unset"]
  /\ ctxDone = [e \in Ends |-> FALSE] /\ setupDone = [e \in Ends |-> FALSE]
  /\ closes = [e \in Ends |-> 0]
  /\ ret = [e \in Ends |-> "nil"]
  /\ sent = [e \in Ends |-> 0] /\ got = [e \in Ends |-> 0]

Goto(e, label) == pc' = [pc EXCEPT ![e] = label]
Return(e, res) == Goto(e, "returned") /\ ret' = [ret EXCEPT ![e] = res]

-----------------------------------------------------------------------------
(* setupOutcome and closeOnceStream                                        *)
\* Mutant: the last error wins.
selectError_lastWins(e, res) ==
  /\ err' = [err EXCEPT ![e] = res]
  /\ UNCHANGED handedOff

\* selectError: the first error is permanent and none is selected after handoff.
selectError(e, res) ==
  /\ err' = [err EXCEPT ![e] = IF @ = "nil" /\ ~handedOff[e] THEN res ELSE @]
  /\ UNCHANGED handedOff
\* closeOnceStream.Close: sync.Once lets the first caller through only.
CloseOwner(e) == closes' = [closes EXCEPT ![e] = IF @ = 0 THEN 1 ELSE @]

\* The cancel function of the setup context.
Cancel(e) == setupDone' = [setupDone EXCEPT ![e] = TRUE] /\ UNCHANGED ctxDone

-----------------------------------------------------------------------------
(* The caller's context, the setup deadline and the callback               *)

ContextDone(e) ==
  /\ ~ctxDone[e] /\ pc[e] # "returned"
  /\ ctxDone' = [ctxDone EXCEPT ![e] = TRUE]
  /\ setupDone' = [setupDone EXCEPT ![e] = TRUE]
  /\ UNCHANGED <<binding, pc, ioErr, outcomeVars, callback, closes, ret, wireVars>>

Deadline(e) ==
  /\ callback[e] = "armed" /\ ~setupDone[e]
  /\ setupDone' = [setupDone EXCEPT ![e] = TRUE]
  /\ UNCHANGED <<binding, pc, ioErr, outcomeVars, callback, ctxDone, closes, ret, wireVars>>

\* The runtime starts the callback's goroutine; from here stop() returns false.
CallbackStart(e) ==
  /\ callback[e] = "armed" /\ setupDone[e]
  /\ callback' = [callback EXCEPT ![e] = "select"]
  /\ UNCHANGED <<binding, pc, ioErr, outcomeVars, ctxVars, closes, ret, wireVars>>

CallbackSelect(e) ==
  /\ callback[e] = "select"
  /\ selectError(e, "setupCtx.Err")
  /\ callback' = [callback EXCEPT ![e] = "close"]
  /\ UNCHANGED <<binding, pc, ioErr, ctxVars, closes, ret, wireVars>>

\* Mutant: the callback leaves the stream open.
CallbackClose_forgetsClose(e) ==
  /\ callback[e] = "close"
  /\ callback' = [callback EXCEPT ![e] = "done"]
  /\ UNCHANGED <<binding, pc, ioErr, outcomeVars, ctxVars, closes, ret, wireVars>>

\* owner.Close, then close(callbackDone).
CallbackClose(e) ==
  /\ callback[e] = "close"
  /\ CloseOwner(e)
  /\ callback' = [callback EXCEPT ![e] = "done"]
  /\ UNCHANGED <<binding, pc, ioErr, outcomeVars, ctxVars, ret, wireVars>>

-----------------------------------------------------------------------------
(* The constructor                                                         *)

\* Bad arguments, or a context that is done already: no ownership is taken.
Reject(e) ==
  /\ pc[e] = "start"
  /\ \/ Return(e, "ErrInvalidArgument")
     \/ ctxDone[e] /\ Return(e, "ctx.Err")
  /\ UNCHANGED <<binding, ioErr, outcomeVars, callback, ctxVars, closes, wireVars>>

Begin(e) ==
  /\ pc[e] = "start" /\ ~ctxDone[e]
  /\ callback' = [callback EXCEPT ![e] = "armed"]
  /\ Goto(e, IF e = "client" THEN "write" ELSE "read")
  /\ UNCHANGED <<binding, ioErr, outcomeVars, ctxVars, closes, ret, wireVars>>

\* writeInterfaceID: the stream takes n more bytes of the record.
WriteID(e) ==
  /\ pc[e] = "write" /\ closes[e] = 0
  /\ \E n \in 1 .. RecordLen - sent[e] :
       /\ sent' = [sent EXCEPT ![e] = @ + n]
       /\ Goto(e, IF sent[e] + n < RecordLen THEN "write"
                  ELSE IF e = "client" THEN "read" ELSE "stop")
  /\ UNCHANGED <<binding, ioErr, outcomeVars, callback, ctxVars, closes, ret, got>>

\* Mutant: the peer's ID is not looked at.
Compare_skipped(e) == Goto(e, IF e = "client" THEN "stop" ELSE "write") /\ UNCHANGED ioErr

\* The comparison that ends the read of the peer's record.
Compare(e) ==
  IF binding[Peer(e)].import = binding[e].export
  THEN Goto(e, IF e = "client" THEN "stop" ELSE "write") /\ UNCHANGED ioErr
  ELSE Goto(e, "fail") /\ ioErr' = [ioErr EXCEPT ![e] = "ErrInterfaceMismatch"]

\* readInterfaceID: Read fills at most the rest of the record.
ReadID(e) ==
  /\ pc[e] = "read" /\ closes[e] = 0
  /\ \E n \in 1 .. RecordLen - got[e] :
       /\ got[e] + n <= sent[Peer(e)]
       /\ got' = [got EXCEPT ![e] = @ + n]
       /\ IF got[e] + n < RecordLen THEN UNCHANGED <<pc, ioErr>> ELSE Compare(e)
  /\ UNCHANGED <<binding, outcomeVars, callback, ctxVars, closes, ret, sent>>

\* A read or write fails, at any time and always on a closed stream; a Write
\* may have taken some or all of the remaining bytes and still report an error
\* (bytes that come with a failing Read are dropped and not counted).
SetupIOError(e) ==
  /\ \/ pc[e] = "read" /\ UNCHANGED sent
     \/ /\ pc[e] = "write"
        /\ \E n \in 0 .. RecordLen - sent[e] :
             /\ n = 0 \/ closes[e] = 0
             /\ sent' = [sent EXCEPT ![e] = @ + n]
  /\ ioErr' = [ioErr EXCEPT ![e] = "ErrIO"]
  /\ Goto(e, "fail")
  /\ UNCHANGED <<binding, outcomeVars, callback, ctxVars, closes, ret, got>>

\* fail, first step.
Fail(e) ==
  /\ pc[e] = "fail"
  /\ selectError(e, ioErr[e])
  /\ Goto(e, "failStop")
  /\ UNCHANGED <<binding, ioErr, callback, ctxVars, closes, ret, wireVars>>
\* Mutants: the callback is not stopped; a running callback is not joined.
StopCallback_skipped(e) ==
  /\ pc[e] \in {"failStop", "stop"}
  /\ Goto(e, IF pc[e] = "stop" THEN "handoff" ELSE "failClose")
  /\ UNCHANGED <<binding, ioErr, outcomeVars, callback, ctxVars, closes, ret, wireVars>>

StopCallback_noJoin(e) ==
  /\ pc[e] \in {"failStop", "stop"}
  /\ callback' = [callback EXCEPT ![e] = IF @ = "armed" THEN "stopped" ELSE @]
  /\ Goto(e, IF pc[e] = "stop" THEN "handoff" ELSE "failClose")
  /\ UNCHANGED <<binding, ioErr, outcomeVars, ctxVars, closes, ret, wireVars>>

\* stopCallback: stop() wins over a callback that has not started, also when
\* the setup context is done already; otherwise callbackDone is awaited.
StopCallback(e) ==
  /\ pc[e] \in {"failStop", "stop"}
  /\ callback[e] \in {"armed", "done"}
  /\ callback' = [callback EXCEPT ![e] = IF @ = "armed" THEN "stopped" ELSE @]
  /\ Goto(e, IF pc[e] = "stop" THEN "handoff" ELSE "failClose")
  /\ UNCHANGED <<binding, ioErr, outcomeVars, ctxVars, closes, ret, wireVars>>

\* fail, the rest: Close, cancel and the selected error.
FailClose(e) ==
  /\ pc[e] = "failClose"
  /\ CloseOwner(e) /\ Cancel(e)
  /\ Return(e, err[e])
  /\ UNCHANGED <<binding, ioErr, outcomeVars, callback, wireVars>>

\* handoff: one transition under the outcome's lock.
Handoff(e) ==
  /\ pc[e] = "handoff"
  /\ Cancel(e)
  /\ \/ /\ err[e] = "nil"
        /\ handedOff' = [handedOff EXCEPT ![e] = TRUE]
        /\ Goto(e, "construct") /\ UNCHANGED <<closes, ret>>
     \/ /\ err[e] # "nil"
        /\ CloseOwner(e) /\ Return(e, err[e]) /\ UNCHANGED handedOff
  /\ UNCHANGED <<binding, ioErr, err, callback, wireVars>>
\* NewConnection(ctx, owner, ...): refuses a context that is done by now.
Construct(e) ==
  /\ pc[e] = "construct"
  /\ \/ ~ctxDone[e] /\ Return(e, "conn") /\ UNCHANGED closes
     \/ ctxDone[e] /\ CloseOwner(e) /\ Return(e, "ctx.Err")
  /\ UNCHANGED <<binding, ioErr, outcomeVars, callback, ctxVars, wireVars>>

-----------------------------------------------------------------------------
(* The connection that follows, as far as it shares the stream             *)

\* Frames may follow the record at once.
SendFrame(e) ==
  /\ ret[e] = "conn" /\ closes[e] = 0 /\ sent[e] < MaxSent
  /\ sent' = [sent EXCEPT ![e] = @ + 1]
  /\ UNCHANGED <<binding, pc, ioErr, outcomeVars, callback, ctxVars, closes, ret, got>>

-----------------------------------------------------------------------------
Next == \E e \in Ends :
  \/ ContextDone(e) \/ Deadline(e)
  \/ CallbackStart(e) \/ CallbackSelect(e) \/ CallbackClose(e)
  \/ Reject(e) \/ Begin(e) \/ WriteID(e) \/ ReadID(e) \/ SetupIOError(e)
  \/ Fail(e) \/ StopCallback(e) \/ FailClose(e) \/ Handoff(e) \/ Construct(e)
  \/ SendFrame(e)

Spec == Init /\ [][Next]_vars

\* The deadline's timer fires, goroutines that can run are run and I/O on a
\* closed stream fails.  Nothing is assumed of the peer or the caller's context.
Fairness == \A e \in Ends :
  /\ WF_vars(Deadline(e))
  /\ WF_vars(CallbackStart(e)) /\ WF_vars(CallbackSelect(e)) /\ WF_vars(CallbackClose(e))
  /\ WF_vars(closes[e] > 0 /\ SetupIOError(e))
  /\ WF_vars(Fail(e)) /\ WF_vars(StopCallback(e)) /\ WF_vars(FailClose(e))
  /\ WF_vars(Handoff(e)) /\ WF_vars(Construct(e))

FairSpec == Spec /\ Fairness

-----------------------------------------------------------------------------
(* Properties                                                              *)

\* Types; closeOnceStream closes the stream at most once.
TypeOK ==
  /\ binding \in [Ends -> [import : IDs, export : IDs]]
  /\ pc \in [Ends -> PCs]
  /\ ioErr \in [Ends -> Errors \cup {"nil"}]
  /\ err \in [Ends -> Errors \cup {"nil"}]
  /\ handedOff \in [Ends -> BOOLEAN]
  /\ callback \in [Ends -> {"unset", "armed", "select", "close", "done", "stopped"}]
  /\ ctxDone \in [Ends -> BOOLEAN] /\ setupDone \in [Ends -> BOOLEAN]
  /\ closes \in [Ends -> 0 .. 1]
  /\ ret \in [Ends -> Errors \cup {"nil", "conn"}]
  /\ sent \in [Ends -> 0 .. MaxSent]
  /\ got \in [Ends -> 0 .. MaxSent]

Accepts(e) == binding[Peer(e)].import = binding[e].export

\* An end gets a connection only if the peer expects its export, and the
\* client, which hears back, only if both directions agree.
OnlyAgreedConnections ==
  /\ \A e \in Ends : ret[e] = "conn" => Accepts(e)
  /\ ret["client"] = "conn" => Accepts("server")

\* The setup callback never touches a stream that was handed over: a
\* connection is returned open, with the callback stopped for good.  It starts
\* to read at the peer's first frame: setup has taken the whole record and
\* none of the frames the peer may have sent already.
HandoffIsSafe ==
  \A e \in Ends : ret[e] = "conn" => /\ handedOff[e] /\ err[e] = "nil"
                                     /\ closes[e] = 0 /\ callback[e] = "stopped"
                                     /\ got[e] = RecordLen

\* On every failure after ownership was taken the constructor returns with
\* the stream closed once and no callback running; a rejected call leaves the
\* caller's stream alone.
FailureCleansUp ==
  \A e \in Ends : ret[e] \notin {"nil", "conn"} =>
    /\ callback[e] \in {"unset", "stopped", "done"}
    /\ closes[e] = IF callback[e] = "unset" THEN 0 ELSE 1

KeepsFirstError ==
  \A e \in Ends : err[e] # "nil" => err'[e] = err[e] /\ ret'[e] \in {"nil", err[e]}

\* The first setup error is the one returned: the callback's own Close makes
\* the pending read or write fail, and that later failure never hides the
\* context error (nor the reverse).
FirstErrorReturned == [][KeepsFirstError]_vars

\* The strengthening that makes the three invariants above inductive: who has
\* selected an error, who has closed the stream, and how far the records are.
SetupInv ==
  /\ \A e \in Ends :
       /\ pc[e] = "start" => callback[e] = "unset"
       /\ callback[e] = "unset" =>
            /\ pc[e] \in {"start", "returned"} /\ err[e] = "nil" /\ closes[e] = 0
            /\ ~handedOff[e]
       /\ (ret[e] = "nil") <=> (pc[e] # "returned")
       /\ pc[e] = "fail" => ioErr[e] # "nil"
       /\ pc[e] \in {"failStop", "failClose"} => err[e] # "nil"
       /\ pc[e] \in {"failClose", "handoff", "construct", "returned"} =>
            callback[e] \in {"unset", "stopped", "done"}
       /\ callback[e] = "stopped" => pc[e] \in {"failClose", "handoff", "construct", "returned"}
       /\ callback[e] \in {"close", "done"} => err[e] # "nil"
       /\ callback[e] = "done" => closes[e] = 1
       /\ err[e] # "nil" => \/ callback[e] \in {"close", "done"}
                           \/ pc[e] \in {"failStop", "failClose"}
                           \/ ret[e] \notin {"nil", "conn"}
       /\ err[e] # "nil" => ret[e] \in {"nil", err[e]}
       /\ closes[e] # 0 => callback[e] = "done" \/ ret[e] \notin {"nil", "conn"}
       /\ pc[e] = "construct" => handedOff[e]
       /\ handedOff[e] => /\ pc[e] \in {"construct", "returned"} /\ err[e] = "nil"
                          /\ callback[e] = "stopped"
       /\ ret[e] = "conn" => handedOff[e]
       /\ pc[e] \in {"stop", "handoff", "construct"} => got[e] = RecordLen /\ Accepts(e)
       /\ got[e] <= RecordLen /\ got[e] <= sent[Peer(e)]
       /\ pc[e] \in {"start", "write"} => sent[e] < RecordLen
  /\ pc["server"] \in {"start", "read"} => sent["server"] = 0
  /\ pc["server"] = "write" => got["server"] = RecordLen
  /\ pc["server"] = "write" \/ sent["server"] > 0 => Accepts("server")
  /\ OnlyAgreedConnections /\ HandoffIsSafe /\ FailureCleansUp

\* The constructor returns, whatever the peer and the stream do.
SetupEnds == \A e \in Ends : (pc[e] # "start") ~> (pc[e] = "returned")
=============================================================================
