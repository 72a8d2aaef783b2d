---------------------------- MODULE MCGoGenerator ----------------------------
(* Instances of GoGenerator for TLC.                                       *)
EXTENDS GoBoundCalls

MCKey == [k \in {"procedure", "exception"} |->
            [n \in Idents |-> CASE n = "b" /\ k = "exception" -> 0
                                [] n = "c" /\ k = "procedure" -> 1
                                [] n = "c" /\ k = "exception" -> 4
                                [] n = "a" /\ k = "exception" -> 1
                                [] n = "a" /\ k = "procedure" -> 2
                                [] n = "p" /\ k = "procedure" -> 5
                                [] n = "A" /\ k = "exception" -> 5
                                [] n = "q" /\ k = "procedure" -> 6
                                [] n = "p" /\ k = "exception" -> 4
                                [] n = "q" /\ k = "exception" -> 7
                                [] n = "nf" /\ k = "exception" -> 8
                                [] n = "ie" /\ k = "exception" -> 9
                                [] OTHER -> 3]]

\* A and a project to the same Go names, the parameter error to a predeclared one.
MCPascal == [n \in Idents |-> CASE n \in {"a", "A"} -> "A" [] n = "b" -> "B" [] n = "error" -> "Error"
                                [] n = "_" -> "" [] n = "p" -> "P" [] n = "q" -> "Q"
                                [] n = "nf" -> "NF" [] n = "ie" -> "IE" [] OTHER -> "C"]
MCCamel == [n \in Idents |-> CASE n \in {"a", "A"} -> "a" [] n = "b" -> "b" [] n = "error" -> "error"
                               [] n = "_" -> "" [] n = "p" -> "p" [] n = "q" -> "q"
                               [] n = "nf" -> "nf" [] n = "ie" -> "ie" [] OTHER -> "c"]

Source(ws) == [i \in DOMAIN ws |-> Tok(ws[i], 0)]
Words == {"type", "exception", "procedure", "list", "record", "{", "}", ";", Bad, "uint8", "a", "b"}

Job(ws, grow, words, comments, overrides) ==
    [src |-> Source(ws), grow |-> grow, words |-> words, comments |-> comments, overrides |-> overrides,
     reexport |-> FALSE]

MCLayouts == {<<Line(1, "x")>>,
              <<Line(0, ""), Line(3, "y"), Line(0, ""), Line(2, "z")>>}

\* Every file of up to six tokens, and what may follow some longer beginnings.
Grammar ==
    {Job(<<>>, 6, Words, 0, <<>>),
     Job(<<"procedure", "a", "{", "a", "uint8", ";">>, 11, Words \ {"type", "exception", "record"}, 0, <<>>),
     Job(<<"type", "a", "record", "{", "a", "list">>, 11, Words \ {"type", "exception", "procedure"}, 0, <<>>),
     Job(<<"type", "b", "uint8", ";", "exception">>, 12, {"a", "b", "c", "exception", "procedure", ";", "{", "}"}, 0, <<>>),
     Job(<<"type", "a", "list", "uint8", ";", "procedure", "b", "{", "a", "a", ";", "b">>, 18,
         {"list", "a", "uint8", ";", "}"}, 0, <<>>)}

\* Comments in every place of finished files.
Commented ==
    {Job(<<"type", "a", "uint8", ";", "type", "b", "list", "a", ";">>, 0, {}, 2, <<>>),
     Job(<<"procedure", "a", "{", "b", "uint8", ";", "}", "list", "uint8", ";">>, 0, {}, 1, <<>>),
     Job(<<"exception", "a", "record", "{", "b", "uint8", ";", "c", "uint8", ";", "}", ";">>, 0, {}, 1, <<>>)}

Over(sel, name) == [sel |-> sel, name |-> name]
Candidates ==
    {Over(<<Seg("type", "a")>>, "B"),
     Over(<<Seg("type", "a"), Seg("field", "A")>>, "B"),
     Over(<<Seg("type", "a"), Seg("field", "A")>>, "a"),
     Over(<<Seg("type", "a"), Seg("field", "A")>>, "C"),
     Over(<<Seg("type", "a"), Seg("field", "b"), Element, Seg("field", "a")>>, "C"),
     Over(<<Seg("type", "a"), Seg("field", "b"), Seg("field", "a")>>, "Error"),
     Over(<<Seg("procedure", "b")>>, "A"),
     Over(<<Seg("procedure", "b")>>, "ImportBinding"),
     Over(<<Seg("procedure", "b"), Seg("param", "a")>>, "A"),
     Over(<<Seg("procedure", "b"), Seg("param", "a")>>, "go"),
     Over(<<Seg("procedure", "b"), Seg("param", "a"), Element, Seg("field", "a")>>, "C"),
     Over(<<Seg("procedure", "b"), Seg("param", "error")>>, "B"),
     Over(<<Seg("procedure", "b"), Seg("return", ""), Element, Seg("field", "a")>>, "B"),
     Over(<<Seg("exception", "c")>>, "C"),
     Over(<<Seg("exception", "A"), Seg("field", "error")>>, "C")}

Overridden ==
    LET files == {<<"type", "a", "record", "{", "a", "uint8", ";", "A", "uint8", ";",
                    "b", "record", "{", "a", "uint8", ";", "}", ";", "}", ";",
                    "procedure", "b", "{", "a", "uint8", ";", "b", "a", ";", "}", "a", ";">>,
                  <<"procedure", "b", "{", "a", "uint8", ";", "error", "uint8", ";", "}",
                    "list", "record", "{", "a", "uint8", ";", "}", ";", "exception", "c", ";">>,
                  <<"procedure", "b", "{", "a", "list", "record", "{", "a", "uint8", ";", "}", ";", "}", ";">>,
                  <<"exception", "A", "record", "{", "error", "uint8", ";", "}", ";",
                    "procedure", "b", "{", "a", "uint8", ";", "A", "uint8", ";", "}", ";">>}
        chosen == {<<>>} \cup {<<x>> : x \in Candidates} \cup {<<x, y>> : x, y \in Candidates}
    IN  {Job(ws, 0, {}, 0, os) : ws \in files, os \in {o \in chosen : \A i \in DOMAIN o : ParseSelector(o[i].sel)}}

\* Imports whose types other providers use.
Reused ==
    {[Job(<<"type", "a", "bytes", ";", "type", "b", "record", "{", "a", "a", ";", "b", "list", "uint8", ";", "}", ";",
            "type", "q", "record", "{", "q", "list", "string", ";", "}", ";", "procedure", "p", "{", "a", "b", ";", "}", "q", ";">>, 0, {}, 0, os) EXCEPT !.reexport = TRUE] :
        os \in {<<>>, <<Over(<<Seg("type", "b")>>, "C"), Over(<<Seg("type", "b"), Seg("field", "a")>>, "C")>>}}

MCImportJobs == Grammar \cup Commented \cup Overridden \cup Reused

-----------------------------------------------------------------------------
(* Exports.  The wire names p and q are those of procedures; the key of     *)
(* exception p is that of the fixed exception c.                            *)

MCToWire == [n \in {"A", "B", "C", "P", "Q", "E", "c", "x", "y"} |->
                CASE n = "A" -> "a" [] n = "B" -> "b" [] n = "C" -> "A" [] n = "P" -> "p" [] n = "Q" -> "q"
                  [] n = "E" -> "error" [] n = "c" -> "c" [] n = "x" -> "a" [] OTHER -> "b"]
MCWireOrder == <<"A", "a", "b", "c", "error", "ie", "nf", "p", "q">>

Field(name, tag, t) == [name |-> name, tag |-> tag, type |-> t]
NoResult == [k |-> "none"]

TypeDecl(n, pkg, wire, rhs) ==
    [name |-> n, pkg |-> pkg, alias |-> FALSE, generic |-> FALSE, tagged |-> TRUE, wire |-> wire, rhs |-> rhs,
     generated |-> FALSE, docs |-> TRUE]
Alias(n, pkg, rhs) == [TypeDecl(n, pkg, "", rhs) EXCEPT !.alias = TRUE, !.tagged = FALSE]
Proc(n, pkg, ts, result) ==
    [pkg |-> pkg, name |-> n, tagged |-> TRUE, generated |-> FALSE, sig |-> "ok", wire |-> "",
     params |-> [i \in DOMAIN ts |-> [name |-> IF i = 1 THEN "x" ELSE "y", wire |-> "", type |-> ts[i]]],
     result |-> result]
Exc(n, pkg, kind, wire) == [pkg |-> pkg, name |-> n, kind |-> kind, wire |-> wire, isError |-> TRUE]

Pkg(path, imports) ==
    [path |-> path, imports |-> imports, name |-> "lib", files |-> TRUE, errors |-> {},
     directives |-> TRUE, fresh |-> FALSE, qualifiers |-> {}]

\* Providers in m/p, the types they use in m/t, the binding in m/o.
MCPkgs == [p \in {"p", "t", "o"} |->
              CASE p = "p" -> Pkg(<<"m", "p">>, {"t"}) [] p = "t" -> Pkg(<<"m", "t">>, {})
                [] p = "o" -> Pkg(<<"m", "o">>, {})]
MCMatch == [x \in {"./p", "./...", "./t", "./none", "x.go"} |->
              CASE x = "./p" -> {"p"} [] x = "./..." -> {"p", "t", "o"} [] x = "./t" -> {"t"} [] OTHER -> {}]

Workspace(types, procs, excs) ==
    [errors |-> {"E", "Q"}, pkgs |-> MCPkgs, match |-> MCMatch, types |-> types, procs |-> procs, excs |-> excs, body |-> <<>>]
ExportJob(w, patterns, inc, exc) ==
    [w |-> w, patterns |-> patterns, inc |-> inc, exc |-> exc, out |-> "o",
     grow |-> 0, comments |-> 0, overrides |-> <<>>, words |-> {}, calls |-> FALSE,
     reexport |-> FALSE, edited |-> TRUE, files |-> <<>>]

Types(a, b, alias, c, wa, wb) ==
    LET named == ("A" :> TypeDecl("A", "t", wa, a)) @@ ("B" :> TypeDecl("B", "t", wb, b))
    IN  named @@ (alias :> Alias(alias, "t", c)) @@ ("E" :> [TypeDecl("E", "p", "", Id("A")) EXCEPT !.tagged = FALSE])

\* Every pair of right-hand sides, recursive and deep ones included.
RHS == {Basic("uint8"), Slice(Id("A")), Slice(Id("B")), Id("C"), Slice(Slice(Id("B"))), Slice(Basic("byte")),
        Struct(<<Field("A", "", Id("B")), Field("B", "", Slice(Id("A")))>>),
        Struct(<<Field("A", "b", Basic("uint8")), Field("B", "", Id("C"))>>),
        Struct(<<Field("A", "b", Id("B")), Field("B", "a", Slice(Basic("uint8")))>>),
        [k |-> "map"]}

Graphs ==
    {ExportJob(Workspace(Types(a, b, "C", c, "", ""), <<Proc("P", "p", <<Id("A"), Id("B")>>, NoResult)>>, <<>>),
               <<"./p">>, <<>>, <<>>) :
        a, b \in RHS, c \in {Basic("uint8"), Slice(Id("B")), Slice(Slice(Basic("uint8")))}}

\* Wire names that meet: of types, exceptions, procedures and parameters.
Meeting ==
    LET progs == {Workspace(Types(a[1], Slice(Basic("uint8")), a[2], Slice(Id("B")), w[1], w[2]), procs, excs) :
                    a \in {<<Basic("uint8"), "C">>, <<Id("B"), "C">>, <<Id("C"), "C">>, <<Id("c"), "c">>},
                    w \in {<<"", "">>, <<"b", "a">>, <<"b", "">>, <<"c", "">>, <<"q", "">>},
                    procs \in {<<Proc("P", "p", <<Id("A"), Slice(Id("B"))>>, Id("A"))>>,
                               <<Proc("P", "p", <<Id("E")>>, NoResult), Proc("Q", "p", <<>>, Id("B"))>>,
                               <<[Proc("P", "p", <<Basic("uint8"), Id("A")>>, NoResult) EXCEPT !.params[1].wire = "b"]>>},
                    excs \in {<<>>, <<Exc("E", "p", "var", "")>>, <<Exc("E", "p", "type", "")>>,
                              <<Exc("E", "p", "type", "a")>>, <<Exc("Q", "p", "var", "q"), Exc("E", "p", "type", "")>>,
                              <<Exc("Q", "p", "var", "p")>>, <<Exc("Q", "p", "var", "A")>>, <<[Exc("Q", "p", "var", "") EXCEPT !.isError = FALSE]>>}}
    IN  {ExportJob(w, <<"./p">>, <<>>, <<>>) : w \in progs}

\* One program, and everything discovery looks at.
Sel(pkg, n) == [s |-> pkg, n |-> n]
Found ==
    LET w == Workspace(Types(Slice(Id("B")), Basic("uint8"), "C", Id("B"), "", ""),
                       <<Proc("P", "p", <<Id("A")>>, NoResult), Proc("Q", "p", <<Id("B")>>, NoResult),
                         [Proc("A", "p", <<>>, NoResult) EXCEPT !.sig = "bad"]>>,
                       <<Exc("E", "p", "var", "")>>)
        only == [w EXCEPT !.procs = SubSeq(@, 1, 2)]
        broken == {[k |-> "import", n |-> "t"]}
        Using == {MCPkgs["t"], [MCPkgs["t"] EXCEPT !.imports = {"o"}]}
                    \cup {[MCPkgs["t"] EXCEPT !.path = x] : x \in {<<"n", "internal", "t">>, <<"m", "internal", "t">>}}
    IN  {ExportJob(w, ps, inc, exc) :
            ps \in {<<>>, <<"./p">>, <<"./t">>, <<"./none", "./p">>, <<"x.go">>, <<"./...">>},
            inc \in {<<>>, <<Sel("p", "P")>>, <<Sel("p", "P"), Sel("p", "Q")>>, <<Sel("t", "P")>>},
            exc \in {<<>>, <<Sel("p", "A")>>, <<Sel("p", "P")>>, <<Sel("p", "A"), Sel("p", "A")>>}}
        \cup {ExportJob([only EXCEPT !.pkgs["p"] = pp, !.pkgs["o"] = po, !.pkgs["t"] = pt], <<"./p">>, <<>>, <<>>) :
            pp \in {MCPkgs["p"], [MCPkgs["p"] EXCEPT !.imports = {"t", "o"}], [MCPkgs["p"] EXCEPT !.name = "main"],
                    [MCPkgs["p"] EXCEPT !.path = <<"m", "internal">>],
                    [MCPkgs["p"] EXCEPT !.path = <<"m", "p", "internal", "q">>],
                    [MCPkgs["p"] EXCEPT !.path = <<"m", "internal", "p", "internal">>]},
            po \in {MCPkgs["o"], [MCPkgs["o"] EXCEPT !.imports = {"p"}], [MCPkgs["o"] EXCEPT !.imports = {"t"}],
                    [MCPkgs["o"] EXCEPT !.errors = broken], [MCPkgs["o"] EXCEPT !.errors = broken, !.name = "main"],
                    [MCPkgs["o"] EXCEPT !.errors = broken \cup {[k |-> "undefined", n |-> "t"]}, !.qualifiers = {"t"}],
                    [MCPkgs["o"] EXCEPT !.errors = {[k |-> "undefined", n |-> "t"]}],
                    [MCPkgs["o"] EXCEPT !.errors = broken, !.files = FALSE, !.fresh = TRUE]},
            pt \in Using}
        \cup {ExportJob([Workspace(w.types, <<Proc("P", "p", <<Basic("uint8")>>, NoResult)>>, <<Exc("Q", "t", "var", "q")>>)
                           EXCEPT !.pkgs["p"].imports = {}, !.pkgs["t"] = pt], <<"./p", "./t">>, <<>>, <<>>) : pt \in Using}

\* A provider that uses one type of a generated package, after one edit of it.
MCReexports(types, const) ==
    LET ts == [n \in DOMAIN types |-> types[n] @@ [pkg |-> "t", docs |-> TRUE]]
        hand == TypeDecl("E", "t", "", Slice(Basic("byte")))
        Uses(n, e) == e.k = "struct" /\ \E i \in DOMAIN e.fields : e.fields[i].type = Id(n)
        one == UNION {{[ts EXCEPT ![n] = d] : d \in
                  {[ts[n] EXCEPT !.tagged = FALSE], [ts[n] EXCEPT !.alias = TRUE], [ts[n] EXCEPT !.generic = TRUE]}
                  \cup {[ts[n] EXCEPT !.rhs = e] : e \in {f \in {Id("E"), Slice(Basic("uint8"))}
                                                \cup {ts[x].rhs : x \in DOMAIN ts} : ~Uses(n, f)}}
                  \cup {[ts[n] EXCEPT !.wire = v] : v \in {"", "a", "b", "p"}}} : n \in DOMAIN ts}
        fields == {[ts EXCEPT ![n].rhs.fields[1] = f] : n \in {x \in DOMAIN ts : ts[x].rhs.k = "struct"},
                     f \in {Field("A", "", Id("A")), Field("a", "a", Id("A")), Field("B", "a", Slice(Basic("byte"))),
                            Field("Q", "a", Id("A")), Field("A", "p", Id("A"))}}
        files == {[x EXCEPT !.E = e] : x \in {y @@ ("E" :> hand) : y \in {ts} \cup one \cup fields},
                    e \in {hand, [hand EXCEPT !.generated = TRUE], [hand EXCEPT !.generated = TRUE, !.wire = "a"],
                           [hand EXCEPT !.generated = TRUE, !.tagged = FALSE, !.alias = TRUE]}}
        bodies == {const, <<>>, Front(const), [const EXCEPT ![2].nl = 1 - @], Append(const, Tok("type", 1)),
                   const \o Format([n \in {0} |-> <<>>], <<Declaration("type", 0, "c", <<>>, 0, Prim("uint8"), 0)>>)}
    IN  {[ExportJob([Workspace(f, <<Proc("P", "p", <<Id(n)>>, NoResult)>>, <<>>) EXCEPT !.body = b],
                    <<"./p">>, <<>>, <<>>) EXCEPT !.edited = (f # ts @@ ("E" :> hand) \/ b # const)] :
            f \in files, b \in {const}, n \in DOMAIN types}
        \cup {[ExportJob([Workspace(ts @@ ("E" :> hand), <<Proc("P", "p", <<Id(n)>>, NoResult)>>, <<>>) EXCEPT !.body = b],
                         <<"./p">>, <<>>, <<>>) EXCEPT !.edited = (b # const)] : b \in bodies, n \in DOMAIN types}

\* Programs whose bindings are called.
Called ==
    LET empty == Struct(<<>>)
        pair == Struct(<<Field("A", "b", Basic("uint8")), Field("B", "a", Basic("uint8"))>>)
        Prog(a, b, wa, procs, excs) ==
            [ExportJob(Workspace(Types(a, b, "C", Slice(Id("B")), wa, ""), procs, excs), <<"./p">>, <<>>, <<>>)
                EXCEPT !.calls = TRUE]
        sentinel == Exc("Q", "p", "var", "q")
        payload == Exc("E", "p", "type", "")
    IN  {[Prog(pair, empty, "p", <<[Proc("P", "p", <<Id("A"), Id("B")>>, Slice(Id("B"))) EXCEPT !.wire = "a"]>>,
               <<payload, sentinel, Exc("C", "p", "var", "A")>>)
            EXCEPT !.overrides = <<Over(<<Seg("exception", "A")>>, "C")>>],
         Prog(Slice(Basic("string")), Basic("float32"), "",
              <<Proc("P", "p", <<Id("B")>>, Id("A")), Proc("Q", "p", <<Id("A")>>, Basic("string"))>>, <<>>),
         Prog(Basic("uint8"), Slice(Basic("int16")), "", <<Proc("P", "p", <<Slice(Id("B"))>>, NoResult)>>, <<sentinel>>),
         Prog(Slice(Id("B")), empty, "",
              <<Proc("P", "p", <<Slice(Struct(<<Field("A", "", Id("B")), Field("B", "", Slice(Basic("byte")))>>))>>, Id("C"))>>,
              <<payload>>),
         Prog(Basic("string"), Basic("uint8"), "",
              <<Proc("P", "p", <<Struct(<<Field("B", "", Slice(Slice(Basic("uint8")))), Field("A", "", Id("A"))>>)>>, NoResult)>>,
              <<payload, sentinel>>)}

\* Programs with their sources: directives above functions, groups and
\* specifications, in files of an explicit package and of another.
Spec1(ns, doc) == [names |-> ns, alias |-> FALSE, generic |-> FALSE, doc |-> doc, fields |-> <<>>]
Group(k, doc, specs) == [k |-> k, doc |-> doc, specs |-> specs]
Func(k, n, params, results, doc) == [k |-> k, name |-> n, params |-> params, results |-> results, doc |-> doc]
File(pkg, decls) == [pkg |-> pkg, generated |-> FALSE, intercall |-> FALSE, decls |-> decls]
End1(doc) == [doc EXCEPT ![1].end = TRUE]

TypeD == DocLine("type", <<>>)
ProcD == DocLine("procedure", <<>>)
ExcD == DocLine("exception", <<>>)
ProseL == DocLine(Prose, <<>>)

Sourced ==
    LET lines == {ProcD, DocLine("procedure", <<"q">>), DocLine("param", <<"x", "b">>), DocLine("param", <<"y", "c">>),
                  DocLine("param", <<"ctx", "b">>), DocLine("param", <<"z", "b">>), DocLine("param", <<"x">>),
                  DocLine("@param", <<"x", "text">>), DocLine("@return", <<"text">>), DocLine("", <<>>),
                  DocLine("procedure", <<"type">>), ExcD, TypeD, ProseL, [ProseL EXCEPT !.end = TRUE]}
        funcs == {<<>>, <<ProcD>>} \cup {<<x, y>> : x, y \in lines} \cup {<<ProcD, DocLine("param", <<"x", "b">>), y>> : y \in lines}
        above == {NoDoc, <<TypeD>>, <<DocLine("type", <<"b">>)>>, <<ExcD>>, <<ProseL>>}
        twice == above \cup {<<TypeD, TypeD>>, <<ExcD, TypeD>>, End1(<<ProseL>>)}
        alias == Group("type", NoDoc, <<[Spec1(<<"C">>, NoDoc) EXCEPT !.alias = TRUE]>>)
        A(doc) == Spec1(<<"A">>, doc)
        B(doc) == Spec1(<<"B">>, doc)
        tagged == Group("type", NoDoc, <<A(<<TypeD>>), B(<<TypeD>>)>>)
        P(doc, results) == Func("func", "P", <<"ctx", "x", "y">>, results, doc)
        sentinel == Group("var", <<ExcD>>, <<Spec1(<<"Q">>, NoDoc)>>)
        pfiles == {<<P(d, r), sentinel>> : d \in funcs, r \in {1, 2}}
            \cup {<<Func("method", "Q", <<"ctx", "x">>, 1, d), P(<<ProcD>>, 1)>> : d \in {NoDoc, <<ProcD>>, <<ProseL>>}}
            \cup {<<P(<<ProcD>>, 1), Group(k, g, specs)>> : k \in {"var", "const"}, g \in twice,
                    specs \in {<<Spec1(<<"Q">>, a)>> : a \in twice} \cup {<<Spec1(<<"Q", "R">>, a)>> : a \in above}
                          \cup {<<Spec1(<<"Q">>, a), Spec1(<<"R">>, b)>> : a, b \in above}}
            \cup {<<P(<<ProcD>>, 1), Group("type", g, <<s>>)>> : g \in above,
                    s \in {[Spec1(<<n>>, a) EXCEPT !.alias = l, !.generic = e, !.fields = fs] : n \in {"R", "r"},
                            a \in above, l, e \in BOOLEAN, fs \in {<<>>, <<<<TypeD>>>>, <<End1(<<TypeD>>)>>}}}
        tfiles == {<<Group("type", g, <<A(a), B(b)>>), alias>> : g \in above, a, b \in twice}
            \cup {<<Group("type", g, <<A(a)>>), Group("type", NoDoc, <<B(<<TypeD>>)>>), alias>> : g, a \in twice}
        types == [n \in {"A", "B", "C"} |-> Types(Slice(Id("B")), Basic("uint8"), "C", Id("B"), "", "")[n]]
        w(r) == Workspace(types, <<Proc("P", "p", <<Id("A"), Id("C")>>, IF r = 2 THEN Id("A") ELSE NoResult)>>, <<>>)
        Results(ds) == (CHOOSE d \in Range(ds) : d.k = "func").results
        Of(ps, ts, pattern) == [ExportJob(w(Results(ps.decls)), pattern, <<>>, <<>>) EXCEPT !.files = <<ps, ts>>]
        plain == File("p", <<P(<<ProcD>>, 1)>>)
    IN  {Of(File("p", ds), File("t", <<tagged, alias>>), <<"./p">>) : ds \in pfiles}
        \cup {Of(plain, [File("t", ds) EXCEPT !.generated = g], pat) :
                ds \in tfiles, g \in BOOLEAN, pat \in {<<"./p">>, <<"./p", "./t">>}}
        \cup {Of([plain EXCEPT !.generated = g, !.intercall = i], File("t", <<tagged, alias>>), <<"./p">>) :
                g, i \in BOOLEAN}

\* What the go command loads has no import cycle.
MCExportJobs == {j \in Graphs \cup Meeting \cup Found \cup Called \cup Sourced : NoImportCycle(j.w, j.out, {})}

MCWidth == [k \in {"uint8", "uint64", "int16", "float32", "string", "bytes"} |-> IF k = "int16" THEN 2 ELSE 1]
MCSample == [k \in {"uint8", "int16", "float32", "string", "bytes"} |->
                CASE k = "uint8" -> {0, 3} [] k = "int16" -> {-8, -1, 7} [] k = "float32" -> 0 .. 3
                  [] k \in {"string", "bytes"} -> UNION {[1 .. n -> Byte] : n \in 0 .. 1} \cup {<<2, 1>>, <<1, 2>>, <<3, 3, 3>>}]

\* Byte 2 starts a character that ends with byte 1, byte 3 is in none.
MCValidUTF8(s) == \A i \in DOMAIN s : s[i] # 3 /\ (s[i] = 2 => i < Len(s) /\ s[i + 1] = 1)

\* Two occurrences of one record, one of them renamed.
MCSharedJobs ==
    {Job(<<"procedure", "b", "{", "a", "record", "{", "a", "uint8", ";", "}", ";",
           "b", "record", "{", "a", "uint8", ";", "}", ";", "}", ";">>, 0, {}, 0, os) :
        os \in {<<>>, <<Over(<<Seg("procedure", "b"), Seg("param", "b"), Seg("field", "a")>>, "B")>>}}
    \cup Overridden
=============================================================================
