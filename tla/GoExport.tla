------------------------------- MODULE GoExport -------------------------------
(***************************************************************************)
(* The export side of the Go binding generator (src/go/internal/tool):     *)
(* discovery and selection of providers in a workspace, the mapping of Go  *)
(* types to wire types, exceptions, procedures, and the order in which the *)
(* interface lists them.                                                   *)
(*                                                                         *)
(* A workspace w is what go list and go/types report:                      *)
(*   w.pkgs[p]    a package: path (its elements), imports, name, and       *)
(*                whether it has Go files, errors and well-formed          *)
(*                directives;                                              *)
(*   w.types[t]   a type declaration: package, alias or defined, generic,  *)
(*                its directive, whether its comments are in order, its    *)
(*                right-hand side;                                         *)
(*   w.procs, w.excs   functions and tagged exceptions in source order;    *)
(*   w.body       the constant of the generated file, if there is one.     *)
(* Documentation text is left out; wire names are compared by WireOrder,   *)
(* the byte order of the names that occur.                                 *)
(***************************************************************************)
EXTENDS GoMetadata

CONSTANTS
    ToWire,         \* GoToWire: the default wire name of a Go name, "" if none
    WireOrder,      \* every wire name that occurs, in byte order
    ReservedWords   \* words an interface file reserves

WireLess(a, b) ==
    LET At(x) == CHOOSE i \in DOMAIN WireOrder : WireOrder[i] = x IN At(a) < At(b)

-----------------------------------------------------------------------------
(* Discovery.                                                              *)

validateOperands(patterns) ==
    patterns # <<>> /\ \A i \in DOMAIN patterns : patterns[i] \notin {"", "x.go", "file=", "pattern="}

unmatchedPatterns(w, patterns) == {i \in DOMAIN patterns : w.match[patterns[i]] = {}}

collectExplicit(w, patterns) == UNION {w.match[patterns[i]] : i \in DOMAIN patterns}

parseSelectors(sels) ==
    /\ \A i \in DOMAIN sels : sels[i].n # ""
    /\ \A i, j \in DOMAIN sels : sels[i] = sels[j] => i = j

collectCandidates(w, explicit) ==
    {i \in DOMAIN w.procs : w.procs[i].pkg \in explicit /\ w.procs[i].tagged /\ ~w.procs[i].generated}

resolveSelector(w, explicit, sel) ==
    {i \in collectCandidates(w, explicit) :
        w.procs[i].pkg = sel.s /\ w.procs[i].name = sel.n /\ w.procs[i].sig # "generic"}

buildProvider(p) == p.sig = "ok"

Selected(w, explicit, inc, exc) ==
    LET Of(sels) == UNION {resolveSelector(w, explicit, sels[i]) : i \in DOMAIN sels}
    IN  {i \in collectCandidates(w, explicit) :
            (inc = <<>> \/ i \in Of(inc)) /\ i \notin Of(exc)}

selectProviders(w, explicit, inc, exc) ==
    /\ \A i \in collectCandidates(w, explicit) : w.procs[i].name \in Exported
    /\ \A i \in DOMAIN inc : resolveSelector(w, explicit, inc[i]) # {}
    /\ \A i \in DOMAIN exc : resolveSelector(w, explicit, exc[i]) # {}
    /\ \A i \in Selected(w, explicit, inc, exc) : buildProvider(w.procs[i])

\* Whether a package reaches path through its imports: a search that visits a
\* package once.
RECURSIVE importsPath(_, _, _)
importsPath(w, path, todo) ==
    LET deps == UNION {w.pkgs[p].imports : p \in todo.open}
        fresh == deps \ todo.seen
    IN  path \in deps \/ (fresh # {} /\ importsPath(w, path, [open |-> fresh, seen |-> todo.seen \cup fresh]))

Imports(w, path, p) == importsPath(w, path, [open |-> {p}, seen |-> {}])

\* The last element "internal" that has elements on both sides decides, and
\* the last element of the path only if there is none.
internalVisible(importer, path) ==
    LET inner == {i \in 2 .. Len(path) - 1 : path[i] = "internal"}
        last == IF Len(path) > 1 /\ Last(path) = "internal" THEN {Len(path)} ELSE {}
        at == IF inner # {} THEN inner ELSE last
    IN  at = {} \/ IsPrefix(SubSeq(path, 1, Max(at) - 1), importer)

\* The binding in package out cannot import every provider.
checkOutputProviders(w, out, providers) ==
    \A i \in providers :
        LET p == w.procs[i].pkg
        IN  p # out /\ ~Imports(w, out, p) /\ internalVisible(w.pkgs[out].path, w.pkgs[p].path)

\* Nor the package of every reached type and exception.
Importable(w, out, p) ==
    /\ p # out
    /\ w.pkgs[p].name # "main"
    /\ w.pkgs[p].files
    /\ internalVisible(w.pkgs[out].path, w.pkgs[p].path)
    /\ ~Imports(w, out, p)

checkImportable(w, out, n) == Importable(w, out, w.types[n].pkg)
checkExceptionImportable(w, out, x) == Importable(w, out, x.pkg)

\* An output package with errors is used if all of them come from imports that
\* a first export has yet to make possible.
outputPackageUsable(o) ==
    LET broken == {e.n : e \in {x \in o.errors : x.k = "import"}}
    IN  /\ broken # {}
        /\ \A e \in o.errors : e.k = "import" \/ (e.k = "undefined" /\ e.n \in broken \cap o.qualifiers)

checkOutputPackage(w, out, selected) ==
    LET o == w.pkgs[out]
        fresh == o.errors # {} /\ o.fresh
    IN  /\ ~fresh => /\ o.errors # {} => outputPackageUsable(o)
                     /\ o.name # "main" /\ o.files
        /\ checkOutputProviders(w, out, selected)

Discover(w, j) ==
    LET explicit == collectExplicit(w, j.patterns)
    IN  /\ validateOperands(j.patterns)
        /\ parseSelectors(j.inc) /\ parseSelectors(j.exc)
        /\ unmatchedPatterns(w, j.patterns) = {}
        /\ \A p \in explicit : /\ w.pkgs[p].errors = {}
                               /\ w.pkgs[p].name # "main" /\ w.pkgs[p].files
                               /\ w.pkgs[p].directives
        /\ selectProviders(w, explicit, j.inc, j.exc)
        /\ checkOutputPackage(w, j.out, Selected(w, explicit, j.inc, j.exc))

-----------------------------------------------------------------------------
(* Mapping Go types.  The mapper m keeps the named types reached so far:    *)
(* their wire names, claimed before their right-hand sides are mapped, and  *)
(* the wire types of those.                                                 *)

Mapper(excs) == [wire |-> <<>>, type |-> <<>>, excTypes |-> excs, excWire |-> {}, err |-> ""]
Mapped(m, t) == [m |-> m, t |-> t]
Reject(m, why) == Mapped([m EXCEPT !.err = why], NoType)

mapBasic(m, n) ==
    CASE n = "byte" -> Mapped(m, Prim("uint8"))
      [] n \in Prims -> Mapped(m, Prim(n))
      [] OTHER -> Reject(m, "not a wire value")

\* The wire name of a declaration: its directive's, or the projection.
WireNameOf(d) == IF d.wire # "" THEN d.wire ELSE ToWire[d.name]
ValidWire(wire) == wire \notin {""} \cup ReservedWords

\* What becomes of the parts that were mapped: r is the last of them.
ListMapped(r) == IF r.m.err # "" THEN r ELSE Mapped(r.m, ListOf(r.t))
RecordMapped(all) == Mapped(all.m, RecordOf(all.fs))
NameMapped(r, wire) ==
    IF r.m.err # "" THEN r ELSE Mapped([r.m EXCEPT !.type = (wire :> r.t) @@ @], Ref(wire))
FieldMapped(acc, wire, r) == [m |-> r.m, fs |-> Append(acc.fs, WireField(wire, r.t))]
ValueMapped(acc, r) == [m |-> r.m, ts |-> Append(acc.ts, r.t)]

RECURSIVE mapExpr(_, _, _), mapArray(_, _, _), mapStruct(_, _, _), mapIdent(_, _, _), mapNamedType(_, _, _)
mapExpr(w, m, e) ==
    CASE e.k = "basic" -> mapBasic(m, e.n)
      [] e.k = "slice" -> mapArray(w, m, e.elem)
      [] e.k = "struct" -> mapStruct(w, m, e.fields)
      [] e.k = "id" -> mapIdent(w, m, e.n)
      [] OTHER -> Reject(m, "not a wire value")

\* []byte, written so, is bytes; []uint8 is a list.
mapArray(w, m, elem) ==
    IF elem = Basic("byte") THEN Mapped(m, Prim("bytes")) ELSE ListMapped(mapExpr(w, m, elem))

\* An alias is replaced by its right-hand side.
mapAlias(w, m, n) == mapExpr(w, m, w.types[n].rhs)

\* A qualified name (mapByType) is mapped in the same way.
mapIdent(w, m, n) == IF w.types[n].alias THEN mapAlias(w, m, n) ELSE mapNamedType(w, m, n)

mapStruct(w, m, fields) ==
    RecordMapped(FoldLeft(LAMBDA acc, f :
            LET wire == IF f.tag # "" THEN f.tag ELSE ToWire[f.name]
            IN  IF acc.m.err # "" THEN acc
                ELSE IF f.name \notin Exported \/ ~ValidWire(wire)
                          \/ \E i \in DOMAIN acc.fs : acc.fs[i].name = wire
                  THEN [acc EXCEPT !.m.err = "field"]
                ELSE FieldMapped(acc, wire, mapExpr(w, acc.m, f.type)),
        [m |-> m, fs |-> <<>>], fields))

\* The named references of a wire type in source order.
RECURSIVE walkTypeRefs(_)
walkTypeRefs(t) ==
    CASE t.k = "named" -> <<t.name>>
      [] t.k = "list" -> walkTypeRefs(t.elem)
      [] t.k = "record" -> FlattenSeq([i \in DOMAIN t.fields |-> walkTypeRefs(t.fields[i].type)])
      [] OTHER -> <<>>

\* A type of a generated file is taken from the file's constant, and so are
\* the types it refers to.
mapSemantic(w, m, n, wire) ==
    LET decls == Parse(w.body).node
        td == CHOOSE d \in Range(decls) : d.k = "type" /\ d.name = wire
        SpecOf(x) == CHOOSE o \in Rows(w.types) : w.types[o].wire = x
        refs == FoldLeft(LAMBDA acc, x : IF acc.m.err # "" THEN acc ELSE mapNamedType(w, acc.m, SpecOf(x)),
                         Mapped(m, NoType), walkTypeRefs(td.type))
    IN  IF ~RecoverSemantic(w.types, w.body) THEN Reject(m, "metadata")
        ELSE IF ~sameType(td.type, projectType(Table(w.types), w.types[n].rhs)) THEN Reject(m, "metadata")
        ELSE Mapped(refs.m, Plain(td.type))

mapNamedType(w, m, n) ==
    LET d == w.types[n]
        wire == WireNameOf(d)
        claimed == [m EXCEPT !.wire = (n :> wire) @@ @]
    IN  IF n \in DOMAIN m.wire THEN Mapped(m, Ref(m.wire[n]))
        ELSE IF n \in m.excTypes THEN Reject(m, "exception type")
        ELSE IF n \notin Exported \/ d.generic \/ ~d.docs \/ ~d.tagged THEN Reject(m, "type")
        ELSE IF ~ValidWire(wire) \/ wire \in Fixed \/ (d.generated /\ d.wire = "") THEN Reject(m, "wire name")
        ELSE IF wire \in m.excWire \cup Range(m.wire) THEN Reject(m, "collision")
        ELSE NameMapped(IF d.generated THEN mapSemantic(w, claimed, n, wire)
                        ELSE mapExpr(w, claimed, d.rhs), wire)

\* The types of a provider's parameters and result, in order; nothing is
\* mapped after the first rejection.
MapAll(w, m, es) ==
    FoldLeft(LAMBDA acc, e : IF acc.m.err # "" THEN acc
                             ELSE ValueMapped(acc, mapExpr(w, acc.m, e)),
             [m |-> m, ts |-> <<>>], es)

Values(p) == [i \in DOMAIN p.params |-> p.params[i].type]
                \o (IF p.result.k = "none" THEN <<>> ELSE <<p.result>>)

mapProviders(w, m, providers) ==
    MapAll(w, m, FlattenSeq([i \in DOMAIN providers |-> Values(w.procs[providers[i]])]))

-----------------------------------------------------------------------------
(* The depth preflight: the first occurrence beyond the ceiling is kept     *)
(* while the walk goes on, because a recursive graph has its own diagnostic. *)

\* What the walk follows from a reference: what the mapper would report
\* without descending is a leaf.
Leaf(w, m, n) == n \in m.excTypes \/ n \notin Exported \/ w.types[n].generic

RECURSIVE GoDepthLoop(_, _, _, _)
GoDepthLoop(w, m, st, stack) ==
    IF stack = <<>> \/ st.recursive THEN st
    ELSE LET e == Last(stack)
             rest == Front(stack)
             over == [st EXCEPT !.over = @ \/ e.depth > MaxDepth]
             Step(next) == GoDepthLoop(w, m, over, rest \o next)
         IN  CASE e.k = "exit" -> GoDepthLoop(w, m, [st EXCEPT !.gray = @ \ {e.t}], rest)
               [] e.k = "frame" /\ e.t.k = "slice" -> Step(<<Frame(e.t.elem, e.depth + 1)>>)
               [] e.k = "frame" /\ e.t.k = "struct" ->
                    Step([i \in DOMAIN e.t.fields |->
                            Frame(e.t.fields[Len(e.t.fields) + 1 - i].type, e.depth + 1)])
               [] e.k = "frame" /\ e.t.k = "id" ->
                    LET n == e.t.n
                        d == w.types[n]
                        walked == [over EXCEPT !.walked = (n :> e.depth + 1) @@ @]
                    IN  IF Leaf(w, m, n) THEN Step(<<>>)
                        ELSE IF n \in st.gray THEN [over EXCEPT !.recursive = TRUE]
                        ELSE IF n \in DOMAIN st.walked /\ st.walked[n] > e.depth THEN Step(<<>>)
                        ELSE IF d.alias
                          THEN GoDepthLoop(w, m, walked, Append(rest, Frame(d.rhs, e.depth + 1)))
                        ELSE GoDepthLoop(w, m, [walked EXCEPT !.gray = @ \cup {n}],
                                         rest \o <<Exit(n), Frame(d.rhs, e.depth + 1)>>)
               [] OTHER -> Step(<<>>)

\* The exceptions of the explicit packages, by index in source order.
walkExceptionDecls(w, explicit) ==
    SelectSeq([i \in DOMAIN w.excs |-> i], LAMBDA i : w.excs[i].pkg \in explicit)

GoRoots(w, providers, explicit) ==
    LET excs == SelectSeq(walkExceptionDecls(w, explicit), LAMBDA i : w.excs[i].kind = "type")
    IN  FlattenSeq([i \in DOMAIN providers |-> Values(w.procs[providers[i]])])
            \o [i \in DOMAIN excs |-> w.types[w.excs[excs[i]].name].rhs]

preflightGoDepth(w, m, roots) ==
    LET st == FoldLeft(LAMBDA s, t : GoDepthLoop(w, m, s, <<Frame(t, 1)>>),
                       [walked |-> <<>>, gray |-> {}, over |-> FALSE, recursive |-> FALSE], roots)
    IN  st.recursive \/ ~st.over

-----------------------------------------------------------------------------
(* Exceptions and procedures.                                              *)

scanExceptions(w, explicit) ==
    {w.excs[i].name : i \in {j \in Range(walkExceptionDecls(w, explicit)) : w.excs[j].kind = "type"}}

\* One exception: its form, its wire name, which it claims before its payload
\* is mapped, and the payload.
Collected(acc, wire, r) ==
    [m |-> r.m, decls |-> Append(acc.decls, Declaration("exception", 0, wire, <<>>, 0, r.t, 0))]

collectException(w, acc, x) ==
    LET wire == WireNameOf(x)
        m == [acc.m EXCEPT !.excWire = @ \cup {wire}]
    IN  IF acc.m.err # "" THEN acc
        ELSE IF ~x.isError \/ (x.kind = "type" /\ w.types[x.name].tagged)
          THEN [acc EXCEPT !.m.err = "contradictory directive"]
        ELSE IF ~ValidWire(wire) \/ wire \in Fixed THEN [acc EXCEPT !.m.err = "wire name"]
        ELSE IF wire \in Range(acc.m.wire) \cup acc.m.excWire THEN [acc EXCEPT !.m.err = "collision"]
        ELSE Collected(acc, wire, IF x.kind = "type" THEN mapExpr(w, m, w.types[x.name].rhs)
                                  ELSE Mapped(m, NoType))

collectExceptions(w, m, explicit) ==
    FoldLeft(LAMBDA acc, i : collectException(w, acc, w.excs[i]), [m |-> m, decls |-> <<>>],
             walkExceptionDecls(w, explicit))

\* One procedure: its wire name against everything declared so far, then its
\* parameters' in their own scope.  ts are the mapped values of its signature.
exportProc(m, acc, p, ts) ==
    LET wire == WireNameOf(p)
        Param(i) == IF p.params[i].wire # "" THEN p.params[i].wire ELSE ToWire[p.params[i].name]
        n == Len(p.params)
        used == {acc.decls[i].name : i \in DOMAIN acc.decls}
        ok == /\ ValidWire(wire) /\ wire \notin Fixed
              /\ wire \notin Range(m.wire) \cup m.excWire \cup used
              /\ \A i \in 1 .. n : ValidWire(Param(i)) /\ \A j \in 1 .. i - 1 : Param(j) # Param(i)
    IN  IF acc.err # "" THEN acc
        ELSE IF ~ok THEN [acc EXCEPT !.err = "procedure"]
        ELSE [acc EXCEPT !.decls = Append(@, Declaration("procedure", 0, wire,
                [i \in 1 .. n |-> [at |-> 0, name |-> Param(i), type |-> ts[i]]], 0,
                IF Len(ts) > n THEN ts[n + 1] ELSE NoType, 0))]

exportProcs(w, m, providers, types) ==
    LET From(i) == FoldLeft(LAMBDA n, p : n + Len(Values(w.procs[p])), 0, SubSeq(providers, 1, i - 1))
        Step(acc, i) == exportProc(m, acc, w.procs[providers[i]],
                          SubSeq(types, From(i) + 1, From(i) + Len(Values(w.procs[providers[i]]))))
    IN  FoldLeft(Step, [err |-> "", decls |-> <<>>], [i \in DOMAIN providers |-> i])

-----------------------------------------------------------------------------
(* The type graph.                                                         *)

Deps(m, wire) == Range(walkTypeRefs(m.type[wire]))

Smallest(ws) == CHOOSE x \in ws : \A y \in ws \ {x} : WireLess(x, y)

\* A bug: every type is counted down once per emitted type, dependent or not.
Ready_any(m, order) == {x \in DOMAIN m.type \ Range(order) : Cardinality(Deps(m, x)) <= Len(order)}

\* emissionOrder: the ready type with the smallest wire name, again and again;
\* what is left over is recursive.
Ready(m, order) == {x \in DOMAIN m.type \ Range(order) : Deps(m, x) \subseteq Range(order)}

RECURSIVE EmissionLoop(_, _)
EmissionLoop(m, order) ==
    IF Ready(m, order) = {} THEN order
    ELSE EmissionLoop(m, Append(order, Smallest(Ready(m, order))))

emissionOrder(m) == EmissionLoop(m, <<>>)

\* finalize: the packages of the reached types and exceptions, and the order.
finalize(w, m, out, excs) ==
    /\ \A n \in DOMAIN m.wire : checkImportable(w, out, n)
    /\ Len(emissionOrder(m)) = Cardinality(DOMAIN m.type)
    /\ \A i \in Range(excs) : checkExceptionImportable(w, out, w.excs[i])

SortByWire(decls) == SetToSortSeq(Range(decls), LAMBDA a, b : WireLess(a.name, b.name))

fixedExceptions == {Declaration("exception", 0, f, <<>>, 0, NoType, 0) : f \in Fixed}

checkInterfaceKeys(decls) ==
    LET K(i) == Key[decls[i].k][decls[i].name]
    IN  \A i \in DOMAIN decls : decls[i].k # "type" =>
            /\ K(i) # 0
            /\ \A j \in DOMAIN decls : j < i /\ decls[j].k # "type" => K(j) # K(i)

assembleInterface(m, excs, procs) ==
    LET order == emissionOrder(m)
    IN  [i \in DOMAIN order |-> Declaration("type", 0, order[i], <<>>, 0, m.type[order[i]], 0)]
            \o SetToSortSeq(Range(excs) \cup fixedExceptions, LAMBDA a, b : WireLess(a.name, b.name))
            \o SortByWire(procs)

-----------------------------------------------------------------------------
(* What an export promises.                                                *)

\* The order puts every type after the types it uses, and is the one that
\* takes the smallest wire name wherever there is a choice.
IsEmissionOrder(m, order) ==
    /\ Range(order) = DOMAIN m.type
    /\ \A i, j \in DOMAIN order : order[i] = order[j] => i = j
    /\ \A i \in DOMAIN order :
        /\ Deps(m, order[i]) \subseteq {order[j] : j \in 1 .. i - 1}
        /\ \A j \in i + 1 .. Len(order) :
              Deps(m, order[j]) \subseteq {order[h] : h \in 1 .. i - 1} => WireLess(order[i], order[j])

RECURSIVE Closure(_, _)
Closure(m, ws) ==
    LET more == ws \cup UNION {Deps(m, x) : x \in ws}
    IN  IF more = ws THEN ws ELSE Closure(m, more)

Recursive(m) == \E x \in DOMAIN m.type : x \in Closure(m, Deps(m, x))

\* The packages a binding imports: those of its providers, of the types it
\* mentions and of the exceptions it matches.
BindingImports(w, m, providers, explicit) ==
    {w.procs[i].pkg : i \in Range(providers)} \cup {w.types[n].pkg : n \in DOMAIN m.wire}
        \cup {w.excs[i].pkg : i \in Range(walkExceptionDecls(w, explicit))}

\* No set of packages imports itself round once out has these imports.
NoImportCycle(w, out, used) ==
    LET After(p) == w.pkgs[p].imports \cup (IF p = out THEN used ELSE {})
    IN  \A S \in SUBSET DOMAIN w.pkgs \ {{}} : \E p \in S : After(p) \cap S = {}

\* Go's internal rule: a package is imported only from the tree of the parent
\* of the last "internal" in its path.
InternalRule(importer, path) ==
    \A i \in 2 .. Len(path) :
        path[i] = "internal" /\ (\A j \in i + 1 .. Len(path) : path[j] # "internal")
            => IsPrefix(SubSeq(path, 1, i - 1), importer)

\* The go command builds package out with these imports.
BuildsWith(w, out, used) ==
    /\ NoImportCycle(w, out, used)
    /\ \A p \in used : w.pkgs[p].name # "main" /\ InternalRule(w.pkgs[out].path, w.pkgs[p].path)

\* The paths for which internalVisible departs from the rule and from its own
\* comment, which has the innermost "internal" decide: they end in "internal" and
\* have another before it, which is the one that decides.
MisplacedInternal(path) ==
    path[Len(path)] = "internal" /\ \E i \in 2 .. Len(path) - 1 : path[i] = "internal"

=============================================================================
