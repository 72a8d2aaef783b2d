------------------------------ MODULE GoBindings ------------------------------
(***************************************************************************)
(* What generated Go bindings do (the emitters of src/go/internal/tool):   *)
(* value codecs, the request encoder, response decoder and caller of an    *)
(* import, the request decoder, matcher and dispatch of an export.         *)
(*                                                                         *)
(* A wire type is projected onto Go types once per side, so that a record  *)
(* knows its Go field names: those of the import's projection, or those of *)
(* the provider's own struct.  A Go value is an integer, the bits of a     *)
(* float, a sequence (strings, byte slices, slices), or a function from Go *)
(* field names.  Bytes have Radix values and integers Width of them.       *)
(***************************************************************************)
EXTENDS GoExport, GoFrame

CONSTANTS
    Width,          \* bytes of an integer or float, and of "uint64", the counts
    Signed, Floats, \* primitives that are two's complement, or have NaNs
    MaxInt,         \* the largest native int
    NaNs, QuietNaN, \* the bits of NaNs, and the ones that are sent
    ValidUTF8(_),   \* on sequences of bytes
    NotFound, InvalidArguments, Internal,    \* the fixed exceptions
    PrimSample, MaxList, MaxPayload          \* the values and payloads tried

ASSUME FixedAssumption == Fixed = {NotFound, InvalidArguments, Internal}

-----------------------------------------------------------------------------
(* Projected types.                                                        *)

\* goTypeOf: names gives the Go name of a field by its token.
RECURSIVE goTypeOf(_, _)
goTypeOf(names, t) ==
    CASE t.k = "list" -> [k |-> "list", elem |-> goTypeOf(names, t.elem)]
      [] t.k = "record" ->
            [k |-> "record", fields |-> [i \in DOMAIN t.fields |->
                [wire |-> t.fields[i].name, go |-> names[t.fields[i].at],
                 node |-> goTypeOf(names, t.fields[i].type)]]]
      [] OTHER -> [k |-> t.k, name |-> t.name]

\* typeKeyOf: the wire text of a type, without Go names.
RECURSIVE typeKeyOf(_)
typeKeyOf(t) ==
    CASE t.k = "list" -> [k |-> "list", elem |-> typeKeyOf(t.elem)]
      [] t.k = "record" ->
            [k |-> "record", fields |-> [i \in DOMAIN t.fields |->
                [wire |-> t.fields[i].name, node |-> typeKeyOf(t.fields[i].type)]]]
      [] OTHER -> [k |-> t.k, name |-> t.name]

\* structOf and sliceElem look through aliases and defined types.
RECURSIVE Underlying(_, _)
Underlying(w, g) == IF g.k = "id" THEN Underlying(w, w.types[g.n].rhs) ELSE g

\* buildNode: the wire type and the Go type it was mapped from, field by field.
RECURSIVE buildNode(_, _, _)
buildNode(w, t, g) ==
    CASE t.k = "list" -> [k |-> "list", elem |-> buildNode(w, t.elem, Underlying(w, g).elem)]
      [] t.k = "record" ->
            LET fs == Underlying(w, g).fields
            IN  [k |-> "record", fields |-> [i \in DOMAIN t.fields |->
                    [wire |-> t.fields[i].name, go |-> fs[i].name,
                     node |-> buildNode(w, t.fields[i].type, fs[i].type)]]]
      [] OTHER -> [k |-> t.k, name |-> t.name]

\* The named pairs of the two sides, by wire name.
emitNamedPair(decls, names) ==
    LET ts == {d \in Range(decls) : d.k = "type"}
    IN  [n \in {d.name : d \in ts} |-> goTypeOf(names, (CHOOSE d \in ts : d.name = n).type)]

registerNamed(w, m) ==
    LET GoName(wire) == CHOOSE n \in DOMAIN m.wire : m.wire[n] = wire
    IN  [wire \in DOMAIN m.type |-> buildNode(w, m.type[wire], [k |-> "id", n |-> GoName(wire)])]

RECURSIVE zeroWidthOf(_, _)
zeroWidthOf(env, n) ==
    CASE n.k = "named" -> zeroWidthOf(env, env[n.name])
      [] n.k = "record" -> \A i \in DOMAIN n.fields : zeroWidthOf(env, n.fields[i].node)
      [] OTHER -> FALSE

-----------------------------------------------------------------------------
(* The shared pairs of anonymous types in an import.                       *)

isAnonymousType(t) == t.k \in {"list", "record"}

\* The anonymous types under t, t first: the order of registration.
RECURSIVE registerType(_)
registerType(t) ==
    CASE t.k = "list" -> <<t>> \o registerType(t.elem)
      [] t.k = "record" -> <<t>> \o FlattenSeq([i \in DOMAIN t.fields |-> registerType(t.fields[i].type)])
      [] OTHER -> <<>>

\* The values of callers and exceptions, which are coded through a pair.
Occurrences(decls, kind) == Roots(SelectSeq(decls, LAMBDA d : d.k = kind))

\* register: the inside of named types, then exceptions, then procedures.
register(decls) ==
    LET All(ts) == FlattenSeq([i \in DOMAIN ts |-> registerType(ts[i])])
        inner == Occurrences(decls, "type")
    IN  FlattenSeq([i \in DOMAIN inner |->
                      IF isAnonymousType(inner[i]) THEN Tail(registerType(inner[i])) ELSE <<>>])
            \o All(Occurrences(decls, "exception")) \o All(Occurrences(decls, "procedure"))

\* Go accepts the generated file: a value that goes through the pair of its
\* wire text has the Go type of the occurrence that pair was emitted for.
CheckGo(decls, names) ==
    LET pairs == register(decls)
        PairOf(t) == pairs[CHOOSE i \in DOMAIN pairs :
                        /\ typeKeyOf(pairs[i]) = typeKeyOf(t)
                        /\ \A j \in 1 .. i - 1 : typeKeyOf(pairs[j]) # typeKeyOf(t)]
    IN  \A t \in {u \in Range(Occurrences(decls, "exception") \o Occurrences(decls, "procedure")) :
                    isAnonymousType(u)} :
            goTypeOf(names, t) = goTypeOf(names, PairOf(t))

-----------------------------------------------------------------------------
(* Codecs.  An encoder fails or appends; a decoder fails or returns a value *)
(* and the rest, and reports the slice elements it allocated either way.    *)

Bytes(b) == [ok |-> TRUE, b |-> b]
BadUTF8 == [ok |-> FALSE, b |-> <<>>]
Appended(rs) ==
    FoldLeft(LAMBDA acc, r : IF acc.ok /\ r.ok THEN Bytes(acc.b \o r.b) ELSE BadUTF8, Bytes(<<>>), rs)

LittleEndian(v, width) == [i \in 1 .. width |-> (v \div Radix^(i - 1)) % Radix]
FromBytes(b) == FoldLeft(LAMBDA acc, i : acc + b[i] * Radix^(i - 1), 0, [i \in DOMAIN b |-> i])

encPrim(k, v) ==
    CASE k \in Floats -> Bytes(LittleEndian(IF v \in NaNs THEN QuietNaN ELSE v, Width[k]))
      [] k = "string" -> IF ValidUTF8(v) THEN Bytes(LittleEndian(Len(v), Width["uint64"]) \o v) ELSE BadUTF8
      [] k = "bytes" -> Bytes(LittleEndian(Len(v), Width["uint64"]) \o v)
      [] OTHER -> Bytes(LittleEndian(v % Radix^Width[k], Width[k]))

Got(v, rest, alloc) == [ok |-> TRUE, v |-> v, rest |-> rest, alloc |-> alloc]
Failed(alloc) == [ok |-> FALSE, alloc |-> alloc]

decFixed(width, src) ==
    IF Len(src) < width THEN Failed(0)
    ELSE Got(FromBytes(SubSeq(src, 1, width)), SubSeq(src, width + 1, Len(src)), 0)

\* r is the number in front: the value, its bits or a length.
decNumber(k, r) ==
    LET half == Radix^Width[k] \div 2
        b == SubSeq(r.rest, 1, r.v)
    IN  IF ~r.ok THEN r
        ELSE CASE k \in Floats -> IF r.v \in NaNs \ {QuietNaN} THEN Failed(0) ELSE r
               [] k \in Signed -> [r EXCEPT !.v = IF @ >= half THEN @ - 2 * half ELSE @]
               [] k \in {"string", "bytes"} ->
                    IF r.v > Len(r.rest) \/ (k = "string" /\ ~ValidUTF8(b)) THEN Failed(0)
                    ELSE Got(b, SubSeq(r.rest, r.v + 1, Len(r.rest)), 0)
               [] OTHER -> r

decPrim(k, src) ==
    decNumber(k, decFixed(IF k \in {"string", "bytes"} THEN Width["uint64"] ELSE Width[k], src))

\* A zero-width list has its count only; zero-width fields have no bytes.
RECURSIVE emitEncBody(_, _, _)
emitEncBody(env, n, v) ==
    LET fields == SelectSeq(n.fields, LAMBDA f : ~zeroWidthOf(env, f.node))
    IN  CASE n.k = "prim" -> encPrim(n.name, v)
          [] n.k = "named" -> emitEncBody(env, env[n.name], v)
          [] n.k = "list" ->
                Appended(<<Bytes(LittleEndian(Len(v), Width["uint64"]))>> \o
                         (IF zeroWidthOf(env, n.elem) THEN <<>>
                          ELSE [i \in DOMAIN v |-> emitEncBody(env, n.elem, v[i])]))
          [] n.k = "record" ->
                Appended([i \in DOMAIN fields |-> emitEncBody(env, fields[i].node, v[fields[i].go])])

RECURSIVE ZeroValue(_, _)
ZeroValue(env, n) ==
    CASE n.k = "named" -> ZeroValue(env, env[n.name])
      [] n.k = "record" -> [g \in {n.fields[i].go : i \in DOMAIN n.fields} |->
            ZeroValue(env, n.fields[CHOOSE i \in DOMAIN n.fields : n.fields[i].go = g].node)]
      [] n.k = "list" \/ n.name \in {"string", "bytes"} -> <<>>
      [] OTHER -> 0

\* One decode after another: r read what acc had left over.  The value is one
\* more element, or the field go of a record.
Followed(acc, r, v) == IF r.ok THEN Got(v, r.rest, acc.alloc + r.alloc) ELSE Failed(acc.alloc + r.alloc)
ElementRead(acc, r) == Followed(acc, r, Append(acc.v, r.v))
FieldRead(acc, r, go) == Followed(acc, r, [acc.v EXCEPT ![go] = r.v])

\* A bug: the count is compared with the native int instead of the payload.
CountFits_native(zero, count, rest) == count <= MaxInt

\* What emitDecList checks before it allocates.
CountFits(zero, count, rest) == count <= (IF zero THEN MaxInt ELSE Len(rest))

RECURSIVE emitDecBody(_, _, _), emitDecList(_, _, _, _)
emitDecBody(env, n, src) ==
    CASE n.k = "prim" -> decPrim(n.name, src)
      [] n.k = "named" -> emitDecBody(env, env[n.name], src)
      [] n.k = "list" -> emitDecList(env, n.elem, decFixed(Width["uint64"], src), zeroWidthOf(env, n.elem))
      [] n.k = "record" ->
            FoldLeft(LAMBDA acc, f : IF ~acc.ok \/ zeroWidthOf(env, f.node) THEN acc
                                     ELSE FieldRead(acc, emitDecBody(env, f.node, acc.rest), f.go),
                     Got(ZeroValue(env, n), src, 0), n.fields)

\* c is the count.
emitDecList(env, elem, c, zero) ==
    IF ~c.ok THEN c
    ELSE IF ~CountFits(zero, c.v, c.rest) THEN Failed(0)
    ELSE IF zero THEN Got([i \in 1 .. c.v |-> ZeroValue(env, elem)], c.rest, 0)
    ELSE FoldLeft(LAMBDA acc, i : IF acc.ok THEN ElementRead(acc, emitDecBody(env, elem, acc.rest)) ELSE acc,
                  Got(<<>>, c.rest, c.v), [i \in 1 .. c.v |-> i])

\* The pairs of an export are the same over provider types.
emitEncNode(env, n, v) == emitEncBody(env, n, v)
emitDecNode(env, n, src) == emitDecBody(env, n, src)

-----------------------------------------------------------------------------
(* Import: side im has env, and its procedures and exceptions by index:     *)
(* name, key, params, result or payload (NoType if none).                   *)

emitRequestEncoder(im, p, args) ==
    Appended([i \in DOMAIN p.params |-> emitEncBody(im.env, p.params[i], args[i])])

Outcome(k, name, v) == [k |-> k, name |-> name, v |-> v]

Exactly(r, k, name) ==
    [out |-> IF r.ok /\ r.rest = <<>> THEN Outcome(k, name, r.v) ELSE Outcome("protocol error", "", 0),
     alloc |-> r.alloc]

\* A payload is consumed exactly; an empty one belongs to a missing type.
emitResponseDecoder(im, p, kind, payload) ==
    LET x == {i \in DOMAIN im.excs : im.excs[i].key = kind}
        exc == im.excs[CHOOSE i \in x : TRUE]
        t == IF kind = 0 THEN p.result ELSE exc.type
    IN  IF kind # 0 /\ x = {} THEN Exactly(Failed(0), "", "")
        ELSE Exactly(IF t = NoType THEN Got(0, payload, 0) ELSE emitDecBody(im.env, t, payload),
                     IF kind = 0 THEN "value" ELSE "exception", IF kind = 0 THEN "" ELSE exc.name)

-----------------------------------------------------------------------------
(* Export: side ex likewise, exceptions with the way they are matched.      *)

emitRequestDecoder(ex, p, payload) ==
    FoldLeft(LAMBDA acc, n : IF acc.ok THEN ElementRead(acc, emitDecNode(ex.env, n, acc.rest)) ELSE acc,
             Got(<<>>, payload, 0), p.params)

Response(kind, payload) == [key |-> kind, payload |-> payload]
FixedResponse(name) == Response(Key["exception"][name], <<>>)

\* A bug: the last match is sent when an error matches several exceptions.
Matched_last(ms) == IF ms = {} THEN {} ELSE {Max(ms)}

\* Exactly one exception has to match.
Matched(ms) == IF Cardinality(ms) = 1 THEN ms ELSE {}

\* A provider's error is identical to some sentinels and may be a pointer to a
\* payload type, nil or not.  What an error wraps is not looked at.
emitMatcher(ex, err) ==
    LET ms == {i \in DOMAIN ex.excs :
                 IF ex.excs[i].type = NoType THEN ex.excs[i].go \in err.is
                 ELSE ex.excs[i].go = err.ptr /\ ~err.nil}
        x == ex.excs[CHOOSE i \in Matched(ms) : TRUE]
        r == IF x.type = NoType THEN Bytes(<<>>) ELSE emitEncNode(ex.env, x.type, err.v)
    IN  IF Matched(ms) = {} THEN FixedResponse(Internal)
        ELSE IF ~r.ok THEN FixedResponse(Internal)
        ELSE Response(x.key, r.b)

\* The arm of a procedure, up to the call of the provider.
Arguments(i, r) ==
    IF ~r.ok \/ r.rest # <<>>
    THEN [proc |-> 0, reply |-> FixedResponse(InvalidArguments), alloc |-> r.alloc]
    ELSE [proc |-> i, args |-> r.v, alloc |-> r.alloc]

Arm(ex, kind, payload) ==
    LET ps == {i \in DOMAIN ex.procs : ex.procs[i].key = kind}
        i == CHOOSE j \in ps : TRUE
    IN  IF ps = {} THEN [proc |-> 0, reply |-> FixedResponse(NotFound), alloc |-> 0]
        ELSE Arguments(i, emitRequestDecoder(ex, ex.procs[i], payload))

\* The rest of the arm: the provider did this.  The runtime's recovery around
\* the dispatch turns a panic into the internal exception.
emitProcCase(ex, p, did) ==
    LET r == IF p.result = NoType THEN Bytes(<<>>) ELSE emitEncNode(ex.env, p.result, did.v)
    IN  CASE did.k = "panic" -> FixedResponse(Internal)
          [] did.k = "raise" -> emitMatcher(ex, did.err)
          [] did.k = "return" -> IF r.ok THEN Response(0, r.b) ELSE FixedResponse(Internal)

-----------------------------------------------------------------------------
(* What a value is, whichever side holds it.                               *)

RECURSIVE View(_, _, _)
View(env, n, v) ==
    CASE n.k = "named" -> View(env, env[n.name], v)
      [] n.k = "list" -> [i \in DOMAIN v |-> View(env, n.elem, v[i])]
      [] n.k = "record" -> [i \in DOMAIN n.fields |-> View(env, n.fields[i].node, v[n.fields[i].go])]
      [] OTHER -> IF n.name \in Floats /\ v \in NaNs THEN QuietNaN ELSE v

RECURSIVE Encodable(_, _, _)
Encodable(env, n, v) ==
    CASE n.k = "named" -> Encodable(env, env[n.name], v)
      [] n.k = "list" -> \A i \in DOMAIN v : Encodable(env, n.elem, v[i])
      [] n.k = "record" -> \A i \in DOMAIN n.fields : Encodable(env, n.fields[i].node, v[n.fields[i].go])
      [] OTHER -> n.name = "string" => ValidUTF8(v)

\* The nesting of lists: how many slices one byte can stand for.
RECURSIVE Nesting(_, _)
Nesting(env, n) ==
    CASE n.k = "named" -> Nesting(env, env[n.name])
      [] n.k = "list" -> 1 + Nesting(env, n.elem)
      [] n.k = "record" -> Max({0} \cup {Nesting(env, n.fields[i].node) : i \in DOMAIN n.fields})
      [] OTHER -> 0

RECURSIVE Sample(_, _)
Sample(env, n) ==
    CASE n.k = "named" -> Sample(env, env[n.name])
      [] n.k = "list" -> UNION {[1 .. k -> Sample(env, n.elem)] : k \in 0 .. MaxList}
      [] n.k = "record" ->
            FoldLeft(LAMBDA rs, f : {(f.go :> v) @@ r : v \in Sample(env, f.node), r \in rs}, {<<>>}, n.fields)
      [] OTHER -> PrimSample[n.name]

RECURSIVE SampleArgs(_, _)
SampleArgs(env, ns) ==
    IF ns = <<>> THEN {<<>>}
    ELSE {<<v>> \o rest : v \in Sample(env, Head(ns)), rest \in SampleArgs(env, Tail(ns))}

=============================================================================
