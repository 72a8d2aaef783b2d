----------------------------- MODULE GoBoundCalls -----------------------------
(***************************************************************************)
(* A call between two generated bindings.  A provider package is exported, *)
(* its interface imported, and a caller of the import talks to the export  *)
(* over a byte stream that delivers what it is given (what a connection    *)
(* does beyond that is GoConnection's).  Either end may also be a peer     *)
(* that sends whatever bytes it likes.  The frames of a call pass the       *)
(* reader of GoFrameStream one after the other, request and response.      *)
(***************************************************************************)
EXTENDS GoGenerator, GoFrameStream

VARIABLES
    im, ex,     \* the generated import and export bindings, once built
    call        \* one call: who made it, where it is, what it carried so far

bindings == <<vars, im, ex>>
callVars == <<bindings, call, frameVars>>

Idle == [at |-> "idle", from |-> "", proc |-> 0, args |-> <<>>, ctx |-> "", id |-> 0,
         alloc |-> 0, invoked |-> Nothing, did |-> Nothing, out |-> Nothing]

-----------------------------------------------------------------------------
(* The two sides, as their emitters register them.                         *)

ImportSide ==
    LET env == emitNamedPair(file.node, names.names)
        Node(t) == IF t = NoType THEN t ELSE goTypeOf(names.names, t)
        ps == SelectSeq(file.node, LAMBDA d : d.k = "procedure")
        xs == SelectSeq(file.node, LAMBDA d : d.k = "exception")
    IN  [env |-> env,
         procs |-> [i \in DOMAIN ps |->
            [name |-> ps[i].name, key |-> Key["procedure"][ps[i].name],
             params |-> [j \in DOMAIN ps[i].params |-> Node(ps[i].params[j].type)],
             result |-> Node(ps[i].type)]],
         excs |-> [i \in DOMAIN xs |->
            [name |-> xs[i].name, key |-> Key["exception"][xs[i].name], type |-> Node(xs[i].type)]]]

ExportSide ==
    LET w == job.w
        xs == walkExceptionDecls(w, Explicit)
        Node(t, g) == IF t = NoType THEN t ELSE buildNode(w, t, g)
    IN  [env |-> registerNamed(w, m),
         procs |-> [i \in DOMAIN Providers |->
            LET p == w.procs[Providers[i]]
                d == model.procs[i]
            IN  [name |-> d.name, key |-> Key["procedure"][d.name],
                 params |-> [j \in DOMAIN d.params |-> Node(d.params[j].type, p.params[j].type)],
                 result |-> Node(d.type, p.result)]],
         excs |-> [i \in DOMAIN xs |->
            LET x == w.excs[xs[i]]
                d == model.excs[i]
            IN  [name |-> d.name, key |-> Key["exception"][d.name], go |-> x.name,
                 type |-> IF d.type = NoType THEN NoType ELSE Node(d.type, w.types[x.name].rhs)]]]

ConnectionFromContext(ctx) ==
    CASE ctx = "nil" -> "invalid argument" [] ctx = "unbound" -> "no connection" [] ctx = "bound" -> ""

-----------------------------------------------------------------------------

\* The package variables of the two generated files are initialised.
Build ==
    /\ At("done") /\ Exporting /\ job.calls
    /\ im = Nothing
    /\ im' = ImportSide /\ ex' = ExportSide
    /\ UNCHANGED <<vars, call, frameVars>>

Linked == im # Nothing /\ call.at = "idle"

\* emitCaller, up to the request, under the ID the connection gives it.
Call(i, args, ctx, id) ==
    /\ Linked
    /\ LET enc == emitRequestEncoder(im, im.procs[i], args)
           why == IF ConnectionFromContext(ctx) # "" THEN ConnectionFromContext(ctx)
                  ELSE IF ~enc.ok THEN "encoder error" ELSE ""
           made == [Idle EXCEPT !.from = "caller", !.proc = i, !.args = args, !.ctx = ctx, !.id = id]
       IN  /\ call' = IF why # "" THEN [made EXCEPT !.at = "over", !.out = Outcome(why, "", 0)]
                   ELSE [made EXCEPT !.at = "request"]
           /\ IF why # "" THEN UNCHANGED frameVars ELSE SendFrame("request", id, im.procs[i].key, enc.b)
    /\ UNCHANGED bindings

PeerRequest(bytes) ==
    /\ Linked
    /\ call' = [Idle EXCEPT !.at = "request", !.from = "peer"]
    /\ SendBytes(bytes)
    /\ UNCHANGED bindings

\* The receive loop reads a frame.  A broken one ends the connection, and so
\* does a response that no call waits for.
ReadRequest ==
    /\ call.at = "request"
    /\ ReadFrame
    /\ LET why == IF frame'.err # "" THEN frame'.err ELSE IF frame'.kind = "response" THEN "protocol error" ELSE ""
       IN  call' = IF why # "" THEN [call EXCEPT !.at = "over", !.out = Outcome(why, "", 0)]
                   ELSE [call EXCEPT !.at = "dispatch"]
    /\ UNCHANGED bindings

\* handleRequest copies the request's ID.
Reply(c, reply) ==
    /\ call' = [c EXCEPT !.at = "response"]
    /\ SendFrame("response", frame.id, reply.key, reply.payload)

\* emitDispatch, up to the provider.
Dispatch ==
    /\ call.at = "dispatch"
    /\ \E r \in {Arm(ex, frame.key, frame.payload)} :
           IF r.proc # 0
           THEN /\ call' = [call EXCEPT !.at = "provider", !.alloc = r.alloc,
                                        !.invoked = [k |-> "call", proc |-> r.proc, args |-> r.args]]
                /\ UNCHANGED frameVars
           ELSE Reply([call EXCEPT !.alloc = r.alloc], r.reply)
    /\ UNCHANGED bindings

\* The provider returns, raises or panics, and the arm answers.
Provide(did) ==
    /\ call.at = "provider"
    /\ Reply([call EXCEPT !.did = did], emitProcCase(ex, ex.procs[call.invoked.proc], did))
    /\ UNCHANGED bindings

\* A peer answers a caller's request of procedure i with anything.
PeerResponse(i, kind, payload) ==
    /\ Linked
    /\ call' = [Idle EXCEPT !.at = "response", !.from = "answered", !.proc = i]
    /\ SendFrame("response", 0, kind, payload)
    /\ UNCHANGED bindings

Answered(c, r) == [c EXCEPT !.out = r.out, !.alloc = r.alloc]

\* The caller's receive loop: a response is decoded for the call with its ID.
Receive ==
    /\ call.at = "response"
    /\ ReadFrame
    /\ LET got == [call EXCEPT !.at = "over"]
       IN  call' = IF call.from = "peer" THEN got
                   ELSE IF frame'.err # "" THEN [got EXCEPT !.out = Outcome(frame'.err, "", 0)]
                   ELSE IF frame'.kind # "response" \/ frame'.id # call.id
                        THEN [got EXCEPT !.out = Outcome("protocol error", "", 0)]
                   ELSE Answered(got, emitResponseDecoder(im, im.procs[call.proc], frame'.key, frame'.payload))
    /\ UNCHANGED bindings

\* What a provider may do.  An error is identical to any of the sentinels (two
\* may hold one value), a pointer to a payload type, typed nil, or neither.
Behave(p) ==
    LET sentinels == {x.go : x \in {y \in Range(ex.excs) : y.type = NoType}}
        Raise(S, ptr, nil, v) == Provide([k |-> "raise", err |-> [is |-> S, ptr |-> ptr, nil |-> nil, v |-> v]])
    IN  \/ Provide([k |-> "panic"])
        \/ \E v \in IF p.result = NoType THEN {0} ELSE Sample(ex.env, p.result) : Provide([k |-> "return", v |-> v])
        \/ \E S \in SUBSET sentinels : Raise(S, "", FALSE, 0)
        \/ \E x \in {y \in Range(ex.excs) : y.type # NoType}, S \in SUBSET sentinels, nil \in BOOLEAN :
                \E v \in Sample(ex.env, x.type) : Raise(S, x.go, nil, v)

Payloads == UNION {[1 .. k -> Byte] : k \in 0 .. MaxPayload}
Keys == {0} \cup {Key[d.k][d.name] : d \in {x \in Range(file.node) : x.k # "type"}} \cup {2 * responseBit - 1}

\* Well-formed requests with any payload; any header before a few payloads;
\* and what is left of such a stream when it is cut.
Streams ==
    LET framed == {buildFrame("request", 0, kind, payload) : kind \in Keys, payload \in Payloads}
        heads == {PutUint64(raw) \o PutUint64(kind) \o PutUint64(len) :
                    raw \in {0, 1, responseBit - 1, responseBit, 2 * responseBit - 1}, kind \in Keys,
                    len \in {0, 1, MaxFramePayload, MaxFramePayload + 1, 2 * responseBit - 1}}
        tails == {[i \in 1 .. n |-> i % Radix] : n \in {0, 1, MaxFramePayload, MaxFramePayload + 2}}
    IN  framed \cup {h \o t : h \in heads, t \in tails} \cup {SubSeq(h, 1, headerSize - 1) : h \in heads}

CallNext ==
    \/ Next /\ UNCHANGED <<im, ex, call, frameVars>>
    \/ Build
    \/ Linked /\
        (\/ \E i \in DOMAIN im.procs, ctx \in {"nil", "unbound", "bound"}, id \in {0, responseBit - 1} :
              \E args \in SampleArgs(im.env, im.procs[i].params) : Call(i, args, ctx, id)
         \/ \E s \in Streams : PeerRequest(s)
         \/ \E i \in DOMAIN im.procs, kind \in Keys, payload \in Payloads : PeerResponse(i, kind, payload))
    \/ ReadRequest
    \/ Dispatch
    \/ call.at = "provider" /\ Behave(ex.procs[call.invoked.proc])
    \/ Receive

CallInit == Init /\ im = Nothing /\ ex = Nothing /\ call = Idle /\ FrameInit

CallSpec == CallInit /\ [][CallNext]_callVars

-----------------------------------------------------------------------------
(* Properties.                                                             *)

Views(env, ns, vs) == [i \in DOMAIN ns |-> View(env, ns[i], vs[i])]

\* What the caller should see of what the provider did.
Promised(p, did) ==
    LET Seen(k, name, n, v) == [k |-> k, name |-> name, v |-> IF n = NoType THEN 0 ELSE View(ex.env, n, v)]
        broken == [k |-> "exception", name |-> Internal, v |-> 0]
        raised == {x \in Range(ex.excs) :
                     \/ x.type = NoType /\ x.go \in did.err.is
                     \/ x.type # NoType /\ x.go = did.err.ptr /\ ~did.err.nil}
        Crosses(n, v) == n = NoType \/ Encodable(ex.env, n, v)
    IN  CASE did.k = "panic" -> broken
          [] did.k = "return" -> IF Crosses(p.result, did.v) THEN Seen("value", "", p.result, did.v) ELSE broken
          [] did.k = "raise" ->
                IF \E x \in raised : raised = {x} /\ Crosses(x.type, did.err.v)
                THEN LET x == CHOOSE y \in raised : TRUE IN Seen("exception", x.name, x.type, did.err.v)
                ELSE broken

\* A caller's arguments reach the provider it named, once and with the same
\* values field by field, whatever the two sides call their fields; the caller
\* gets exactly the value or exception the provider ended with, and the
\* internal exception where no single one stands for it.  Nothing is sent, and
\* no provider runs, without a connection or with a value that has no encoding.
\* A request or an answer beyond the ceiling of frames is sent, and ends the
\* connection at the reader.
ValuesCross ==
    call.at = "over" /\ call.from = "caller" =>
        LET p == im.procs[call.proc]
            sent == /\ call.ctx = "bound"
                    /\ \A i \in DOMAIN p.params : Encodable(im.env, p.params[i], call.args[i])
            fits == Len(emitRequestEncoder(im, p, call.args).b) <= MaxFramePayload
            q == ex.procs[call.invoked.proc]
            t == IF call.out.k = "value" THEN p.result
                 ELSE (CHOOSE x \in Range(im.excs) : x.name = call.out.name).type
        IN  /\ (call.invoked # Nothing) <=> sent /\ fits
            /\ sent /\ fits =>
                    /\ q.name = p.name
                    /\ Views(ex.env, q.params, call.invoked.args) = Views(im.env, p.params, call.args)
                    /\ Len(stream) > headerSize + MaxFramePayload => call.out.k = "protocol error"
                    /\ Len(stream) <= headerSize + MaxFramePayload =>
                        /\ call.out.k \in {"value", "exception"}
                        /\ [call.out EXCEPT !.v = IF t = NoType THEN 0 ELSE View(im.env, t, @)]
                               = Promised(q, call.did)

Deepest(env, ns) == Max({0} \cup {Nesting(env, ns[i]) : i \in DOMAIN ns})

\* Only the exact encoding of values is accepted.  From a peer's bytes a
\* provider is invoked with arguments that encode to those bytes and to nothing
\* else, and every encoding of arguments invokes it; other bytes get the fixed
\* exception that fits.  A caller accepts an answer on the same terms.  Neither
\* allocates more slice elements than the bytes it was sent can hold.
OnlyExactPayloads ==
    LET ReEncoded(env, t, v) == IF t = NoType THEN <<>> ELSE emitEncBody(env, t, v).b
        Encodings(env, t) ==
            IF t = NoType THEN {<<>>} ELSE {e.b : e \in {f \in {emitEncBody(env, t, v) : v \in Sample(env, t)} : f.ok}}
    IN  /\ call.from = "peer" /\ call.at = "provider" =>
            LET p == ex.procs[call.invoked.proc]
            IN  /\ p.key = frame.key
                /\ frame.payload = FlattenSeq([i \in DOMAIN p.params |-> ReEncoded(ex.env, p.params[i], call.invoked.args[i])])
                /\ call.alloc <= Deepest(ex.env, p.params) * Len(frame.payload)
        /\ call.from = "peer" /\ call.at = "dispatch" /\ Arm(ex, frame.key, frame.payload).proc = 0 =>
            LET r == Arm(ex, frame.key, frame.payload)
                ps == {p \in Range(im.procs) : p.key = frame.key}
            IN  /\ r.reply = FixedResponse(IF ps = {} THEN NotFound ELSE InvalidArguments)
                /\ \A p \in ps :
                    /\ r.alloc <= Deepest(im.env, p.params) * Len(frame.payload)
                    /\ \A args \in SampleArgs(im.env, p.params) :
                          LET e == emitRequestEncoder(im, p, args) IN e.ok => e.b # frame.payload
        /\ call.from = "answered" /\ call.at = "over" /\ frame.err = "" =>
            LET p == im.procs[call.proc]
                ts == {p.result : x \in {y \in {0} : y = frame.key}} \cup {x.type : x \in {y \in Range(im.excs) : y.key = frame.key}}
            IN  /\ call.out.k # "protocol error" => \E t \in ts : frame.payload = ReEncoded(im.env, t, call.out.v)
                /\ call.out.k = "protocol error" => \A t \in ts : frame.payload \notin Encodings(im.env, t)
                /\ \A t \in ts \ {NoType} : call.alloc <= Nesting(im.env, t) * Len(frame.payload)

=============================================================================
