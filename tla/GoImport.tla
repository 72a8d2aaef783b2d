------------------------------- MODULE GoImport -------------------------------
(***************************************************************************)
(* The import side of the Go binding generator (src/go/internal/tool):     *)
(* the depth ceiling, the fixed runtime exceptions, --go-name overrides    *)
(* and their selectors, the projection of wire names to Go names and the   *)
(* scopes generated code reserves.  The input is a validated file, the     *)
(* declarations of InterfaceSyntax.                                        *)
(*                                                                         *)
(* A selector is the sequence of its segments, a kind s and a name n each. *)
(* Go names are strings that only the functions Pascal and Camel produce;  *)
(* the mangled private names of generated code are injective and never the *)
(* image of a projection, so only the unmangled reserved names appear.     *)
(***************************************************************************)
EXTENDS InterfaceSyntax

CONSTANTS
    Fixed,          \* wire names of the fixed runtime exceptions
    Pascal, Camel,  \* WireToGo in its two cases; "" when it fails
    Exported,       \* Go identifiers that are exported
    Keywords,       \* Go keywords
    MaxDepth        \* the projection depth ceiling

Seg(s, n) == [s |-> s, n |-> n]
Element == Seg("element", "")

-----------------------------------------------------------------------------
(* The projection depth: an explicit work stack that follows references,   *)
(* skips a type already walked at least as deep and stops at a cycle.      *)

UnderlyingOf(decls, name) ==
    LET d == {i \in DOMAIN decls : decls[i].k = "type" /\ decls[i].name = name}
    IN  IF d = {} THEN NoType ELSE decls[Max(d)].type

Frame(t, depth) == [k |-> "frame", t |-> t, depth |-> depth]
Exit(wire) == [k |-> "exit", t |-> wire, depth |-> 0]

\* A bug: a type once walked is never walked again, however deep.
Walked_once(st, name, depth) == st.walked[name] > 0

Walked(st, name, depth) == st.walked[name] >= depth

RECURSIVE DepthLoop(_, _, _)
DepthLoop(decls, st, stack) ==
    IF stack = <<>> \/ st.err # 0 THEN st
    ELSE LET e == Last(stack)
             rest == Front(stack)
             t == e.t
         IN  IF e.k = "exit" THEN DepthLoop(decls, [st EXCEPT !.gray = @ \ {t}], rest)
             ELSE IF e.depth > MaxDepth THEN [st EXCEPT !.err = t.at]
             ELSE CASE t.k = "named" ->
                        LET u == UnderlyingOf(decls, t.name)
                        IN  IF u = NoType THEN DepthLoop(decls, st, rest)
                            ELSE IF t.name \in st.gray THEN st
                            ELSE IF Walked(st, t.name, e.depth + 1) THEN DepthLoop(decls, st, rest)
                            ELSE DepthLoop(decls, [st EXCEPT !.walked[t.name] = e.depth + 1,
                                                             !.gray = @ \cup {t.name}],
                                           rest \o <<Exit(t.name), Frame(u, e.depth + 1)>>)
                    [] t.k = "list" ->
                        DepthLoop(decls, st, Append(rest, Frame(t.elem, e.depth + 1)))
                    [] t.k = "record" ->
                        DepthLoop(decls, st, rest \o
                            [i \in DOMAIN t.fields |->
                                Frame(t.fields[Len(t.fields) + 1 - i].type, e.depth + 1)])
                    [] OTHER -> DepthLoop(decls, st, rest)

\* The roots of a file in source order.
Roots(decls) ==
    FlattenSeq([i \in DOMAIN decls |->
        SelectSeq(Append([p \in DOMAIN decls[i].params |-> decls[i].params[p].type], decls[i].type),
                  LAMBDA t : t # NoType)])

checkSyntaxProjectionDepth(decls) ==
    FoldLeft(LAMBDA st, t : DepthLoop(decls, st, <<Frame(t, 1)>>),
             [walked |-> [n \in Idents |-> 0], gray |-> {}, err |-> 0], Roots(decls)).err

-----------------------------------------------------------------------------
(* The names the runtime keeps: a type or a procedure may not have one, and *)
(* an exception that has one carries no payload.                            *)
checkImportFixed(decls) ==
    \A i \in DOMAIN decls :
        decls[i].name \in Fixed => decls[i].k = "exception" /\ decls[i].type = NoType

-----------------------------------------------------------------------------
(* Selectors.                                                              *)

FieldPath(steps) ==
    /\ steps # <<>>
    /\ \A i \in DOMAIN steps : steps[i].s \in {"element", "field"}
    /\ Last(steps).s = "field"

ParseSelector(sel) ==
    LET rest == Tail(sel)
    IN  /\ Head(sel).s \in {"type", "exception", "procedure"}
        /\ \/ rest = <<>>
           \/ Head(sel).s # "procedure" /\ FieldPath(rest)
           \/ /\ Head(sel).s = "procedure" /\ rest # <<>> /\ Head(rest).s = "param"
              /\ (Tail(rest) = <<>> \/ FieldPath(Tail(rest)))
           \/ /\ Head(sel).s = "procedure" /\ rest # <<>> /\ Head(rest).s = "return"
              /\ FieldPath(Tail(rest))

NoTarget == [ok |-> FALSE, what |-> "none", at |-> 0]
Target(what, at) == [ok |-> TRUE, what |-> what, at |-> at]

\* The field a path leads to.  A named reference is never traversed, and the
\* last step stops at the field itself.
RECURSIVE walkFieldPath(_, _)
walkFieldPath(t, steps) ==
    LET st == Head(steps)
        fs == {f \in DOMAIN t.fields : t.fields[f].name = st.n}
    IN  CASE st.s = "element" /\ t.k = "list" -> walkFieldPath(t.elem, Tail(steps))
          [] st.s = "field" /\ t.k = "record" ->
                IF fs = {} THEN NoTarget
                ELSE IF Len(steps) = 1 THEN Target("field", t.fields[Min(fs)].at)
                ELSE walkFieldPath(t.fields[Min(fs)].type, Tail(steps))
          [] OTHER -> NoTarget

ResolveSelector(decls, sel) ==
    LET ds == {i \in DOMAIN decls : decls[i].name = Head(sel).n}
        d == decls[Min(ds)]
        rest == Tail(sel)
        ps == {p \in DOMAIN d.params : d.params[p].name = Head(rest).n}
    IN  IF ds = {} THEN NoTarget
        ELSE IF d.k # Head(sel).s \/ (d.k = "exception" /\ d.name \in Fixed) THEN NoTarget
        ELSE IF rest = <<>> THEN Target("decl", d.at)
        ELSE IF d.k # "procedure" THEN walkFieldPath(d.type, rest)
        ELSE IF Head(rest).s = "return" THEN walkFieldPath(d.type, Tail(rest))
        ELSE IF ps = {} THEN NoTarget
        ELSE IF Tail(rest) = <<>> THEN Target("param", d.params[Min(ps)].at)
        ELSE walkFieldPath(d.params[Min(ps)].type, Tail(rest))

-----------------------------------------------------------------------------
(* The projection.  Its state n keeps the first error and the names so far, *)
(* a function of the node's token.                                          *)

Projection(err, names) == [err |-> err, names |-> names]
Named(n, at, name) == [n EXCEPT !.names = (at :> name) @@ @]

nodeName(over, at, wire, case) == IF at \in DOMAIN over THEN over[at] ELSE case[wire]
Usable(name, isParam) ==
    /\ name # "" /\ name \notin Keywords
    /\ isParam \/ name \in Exported

RECURSIVE walkType(_, _, _)
walkType(n, over, t) ==
    LET Step(acc, f) ==
            LET name == nodeName(over, f.at, f.name, Pascal)
            IN  IF acc.n.err # "" THEN acc
                ELSE IF ~Usable(name, FALSE) \/ name \in acc.seen
                  THEN [acc EXCEPT !.n.err = "field"]
                ELSE [n |-> walkType(Named(acc.n, f.at, name), over, f.type),
                      seen |-> acc.seen \cup {name}]
    IN  CASE t.k = "list" -> walkType(n, over, t.elem)
          [] t.k = "record" -> FoldLeft(Step, [n |-> n, seen |-> {}], t.fields).n
          [] OTHER -> n

projectDecl(n, over, d) ==
    LET name == nodeName(over, d.at, d.name, Pascal)
        Step(acc, p) ==
            LET pname == nodeName(over, p.at, p.name, Camel)
            IN  IF acc.n.err # "" THEN acc
                ELSE IF ~Usable(pname, TRUE) \/ pname \in acc.seen
                  THEN [acc EXCEPT !.n.err = "parameter"]
                ELSE [n |-> walkType(Named(acc.n, p.at, pname), over, p.type),
                      seen |-> acc.seen \cup {pname}]
        m == FoldLeft(Step, [n |-> Named(n, d.at, name), seen |-> {}], d.params).n
    IN  IF n.err # "" \/ (d.k = "exception" /\ d.name \in Fixed) THEN n
        ELSE IF ~Usable(name, FALSE) THEN [n EXCEPT !.err = "declaration"]
        ELSE IF m.err # "" THEN m
        ELSE walkType(m, over, d.type)

\* The overrides that apply, by the token of their node.  Every override is
\* resolved and validated before any name is projected.
Overrides(decls, overrides) ==
    LET T(i) == ResolveSelector(decls, overrides[i].sel)
    IN  [at \in {T(i).at : i \in DOMAIN overrides} |->
            overrides[CHOOSE i \in DOMAIN overrides : T(i).at = at].name]

validateOverride(decls, o) ==
    LET t == ResolveSelector(decls, o.sel)
    IN  t.ok /\ Usable(o.name, t.what = "param")

ProjectNames(decls, overrides) ==
    LET over == Overrides(decls, overrides)
        n == FoldLeft(LAMBDA m, d : projectDecl(m, over, d), Projection("", <<>>), decls)
        clash == \E i, j \in DOMAIN decls :
                    /\ i < j /\ {decls[i].at, decls[j].at} \subseteq DOMAIN n.names
                    /\ n.names[decls[i].at] = n.names[decls[j].at]
    IN  IF \E i, j \in DOMAIN overrides : i < j /\ overrides[i].sel = overrides[j].sel
          THEN Projection("duplicate override", <<>>)
        ELSE IF \E i \in DOMAIN overrides : ~validateOverride(decls, overrides[i])
          THEN Projection("override", <<>>)
        ELSE IF n.err # "" THEN n
        ELSE IF clash THEN [n EXCEPT !.err = "declaration"]
        ELSE n

-----------------------------------------------------------------------------
(* The reserved scopes of generated code.                                  *)

importPackageScope == {"ImportBinding", "importBinding", "_intercallSemantic"}

typeIdentifiers(decls, names, t) ==
    LET DeclAt(w) == decls[CHOOSE i \in DOMAIN decls : decls[i].k = "type" /\ decls[i].name = w].at
    IN  {IF u.k = "named" THEN names[DeclAt(u.name)]
         ELSE IF u.name = "bytes" THEN "byte" ELSE u.name :
            u \in {v \in TypesIn(t) : v.k \in {"prim", "named"}}}

importParamScope(decls, names, d) ==
    {"importBinding", "intercall", "error", "byte", "uint64", "nil"}
        \cup typeIdentifiers(decls, names, d.type)

reserveImportScopes(decls, names) ==
    \A i \in DOMAIN decls :
        LET d == decls[i]
        IN  /\ d.at \in DOMAIN names => names[d.at] \notin importPackageScope
            /\ d.k = "exception" /\ d.type.k = "record" /\ d.name \notin Fixed =>
                 \A f \in DOMAIN d.type.fields : names[d.type.fields[f].at] # "Error"
            /\ d.k = "procedure" =>
                 \A p \in DOMAIN d.params :
                    names[d.params[p].at] \notin importParamScope(decls, names, d)

-----------------------------------------------------------------------------
(* What an accepted import is, stated as a property of the file and of the  *)
(* names it got.                                                            *)

RECURSIVE Depth(_, _)
Depth(decls, t) ==
    CASE t.k = "named" -> 1 + Depth(decls, UnderlyingOf(decls, t.name))
      [] t.k = "list" -> 1 + Depth(decls, t.elem)
      [] t.k = "record" -> 1 + Max({0} \cup {Depth(decls, t.fields[f].type) : f \in DOMAIN t.fields})
      [] OTHER -> 1

FitsDepth(decls) == \A i \in DOMAIN Roots(decls) : Depth(decls, Roots(decls)[i]) <= MaxDepth

\* The named nodes of a file, each by its selector: where it is, its wire name
\* and whether it is a parameter.  Fixed exceptions have no Go name.  Two nodes
\* are in one scope when their selectors differ in the last segment only.
NamedNode(sel, at, param) == [sel |-> sel, at |-> at, wire |-> Last(sel).n, param |-> param]

RECURSIVE FieldNodes(_, _)
FieldNodes(sel, t) ==
    CASE t.k = "list" -> FieldNodes(Append(sel, Element), t.elem)
      [] t.k = "record" ->
            UNION {LET below == Append(sel, Seg("field", f.name))
                   IN  {NamedNode(below, f.at, FALSE)} \cup FieldNodes(below, f.type) : f \in Range(t.fields)}
      [] OTHER -> {}

DeclNodes(d) ==
    LET sel == <<Seg(d.k, d.name)>>
        Param(p) == Append(sel, Seg("param", p.name))
    IN  {NamedNode(sel, d.at, FALSE)}
        \cup UNION {{NamedNode(Param(p), p.at, TRUE)} \cup FieldNodes(Param(p), p.type) : p \in Range(d.params)}
        \cup FieldNodes(IF d.k = "procedure" THEN Append(sel, Seg("return", "")) ELSE sel, d.type)

NamedNodes(decls) == UNION {DeclNodes(d) : d \in {e \in Range(decls) : ~(e.k = "exception" /\ e.name \in Fixed)}}

\* The Go name of a node: its override's, or the projection of its wire name.
GivenName(overrides, x) ==
    LET os == {o \in Range(overrides) : o.sel = x.sel}
    IN  IF os # {} THEN (CHOOSE o \in os : TRUE).name
        ELSE IF x.param THEN Camel[x.wire] ELSE Pascal[x.wire]

\* A fixed name stands for a sentinel of the runtime: nothing that would
\* generate code has one.
FixedAreSentinels(decls) ==
    {d \in Range(decls) : d.k # "exception" \/ d.type # NoType} \cap {d \in Range(decls) : d.name \in Fixed} = {}

\* Every override names one node, and no node twice.
OverridesFit(decls, overrides) ==
    /\ \A o \in Range(overrides) : \E x \in NamedNodes(decls) : x.sel = o.sel
    /\ \A i, j \in DOMAIN overrides : i # j => overrides[i].sel # overrides[j].sel

\* Every node has its Go name, a usable one, and in no scope do two nodes have
\* the same.
NamesFit(decls, overrides, names) ==
    LET G(x) == GivenName(overrides, x)
    IN  /\ \A x \in NamedNodes(decls) : Usable(G(x), x.param) /\ (x.at \in DOMAIN names => names[x.at] = G(x))
        /\ \A x, y \in NamedNodes(decls) : x # y /\ Front(x.sel) = Front(y.sel) => G(x) # G(y)

\* The generated text means what it should: the package has one accessor, an
\* exception's struct has one Error, and no parameter hides what the caller's
\* and the encoder's bodies mention, the words of the result type included.
TextFits(decls, overrides) ==
    LET G(x) == GivenName(overrides, x)
        Word(u) == IF u.k = "named" THEN {G(x) : x \in {y \in NamedNodes(decls) : y.sel = <<Seg("type", u.name)>>}}
                   ELSE IF u.name = "bytes" THEN {"byte"} ELSE {u.name}
        Body(d) == {"importBinding", "intercall", "uint64", "byte", "error", "nil"}
                     \cup UNION {Word(u) : u \in {v \in TypesIn(d.type) : v.k \notin {"list", "record"}}}
    IN  \A x \in NamedNodes(decls) :
            /\ Len(x.sel) = 1 => G(x) # "ImportBinding"
            /\ Front(x.sel) = <<Seg("exception", x.sel[1].n)>> => G(x) # "Error"
            /\ x.param => \A d \in Range(decls) : d.name = x.sel[1].n => G(x) \notin Body(d)

=============================================================================
