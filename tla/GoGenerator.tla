----------------------------- MODULE GoGenerator -----------------------------
(***************************************************************************)
(* intercall-go (src/go/cmd/intercall-go, src/go/internal/tool): one run   *)
(* of the command, phase by phase.  import reads an interface file that    *)
(* somebody wrote; export discovers tagged Go declarations and writes the  *)
(* interface itself.  Every phase may end the command with a diagnostic.   *)
(***************************************************************************)
EXTENDS GoBindings, GoSource

CONSTANTS
    ImportJobs,     \* the imports: where the author starts and how far they go
    ExportJobs,     \* the exports: a workspace, patterns, filters, an output package
    Reexports(_, _), \* the exports of programs that use an import's types: the generated
                    \* declarations and the constant, as they are or edited by hand
    Layouts         \* the comments an author writes: their lines

VARIABLES
    stage,      \* the phase that comes next, or "done"
    failed,     \* whether the command ended in that phase with a diagnostic
    job,        \* what the command was started with
    src,        \* the interface file, as pieces
    file,       \* the result of Parse
    docs,       \* the documentation slots
    body,       \* the canonical form
    names,      \* the result of ProjectNames
    m,          \* the export mapper
    model       \* what the export has mapped so far

importVars == <<src, file, docs, body, names>>
exportVars == <<m, model>>
vars == <<stage, failed, job, importVars, exportVars>>

NoFile == Fail(<<EOF>>, 1, "unread")

NoModel == [types |-> <<>>, excs |-> <<>>, procs |-> <<>>, decls |-> <<>>]

Init ==
    /\ \/ job \in ImportJobs /\ stage = "write" /\ src = job.src
       \/ job \in ExportJobs /\ stage = (IF job.files = <<>> THEN "discover" ELSE "load") /\ src = <<>>
    /\ failed = FALSE
    /\ file = NoFile
    /\ docs = <<>>
    /\ body = <<>>
    /\ names = Projection("", <<>>)
    /\ m = Mapper({})
    /\ model = NoModel

-----------------------------------------------------------------------------
(* The author.  Tokens are added while the file can still become a          *)
(* sentence, so each wrong token is tried at each place and no further.     *)

Viable(s) == Parse(s).ok \/ Parse(s).at = Len(Tokens(s))

WriteToken(w) ==
    /\ stage = "write" /\ ~failed
    /\ Len(src) < job.grow
    /\ Viable(src)
    /\ src' = Append(src, Tok(w, 0))
    /\ UNCHANGED <<stage, failed, job, file, docs, body, names, exportVars>>

\* A comment goes between two pieces, with a separation on either side.
InsertComment(i, text, before, after) ==
    /\ stage = "write" /\ ~failed
    /\ Cardinality({p \in DOMAIN src : src[p].w = Comment}) < job.comments
    /\ \A p \in DOMAIN src : src[p].w = Comment => p < i
    /\ LET rest == SubSeq(src, i, Len(src))
           moved == [p \in DOMAIN rest |-> IF p = 1 THEN [rest[p] EXCEPT !.nl = after] ELSE rest[p]]
       IN  src' = SubSeq(src, 1, i - 1) \o <<Com(text, before)>> \o moved
    /\ UNCHANGED <<stage, failed, job, file, docs, body, names, exportVars>>

Author ==
    \/ \E w \in job.words : WriteToken(w)
    \/ \E i \in 1 .. Len(src), text \in Layouts, before, after \in 0 .. 2 :
            InsertComment(i, text, before, after)

-----------------------------------------------------------------------------
(* import                                                                  *)

At(phase) == stage = phase /\ ~failed
End(ok, next) == IF ok THEN stage' = next /\ UNCHANGED failed ELSE failed' = TRUE /\ UNCHANGED stage

ParseFile ==
    /\ At("write")
    /\ file' = Parse(src)
    /\ End(file'.ok, "attach")
    /\ UNCHANGED <<job, src, docs, body, names, exportVars>>

Attach ==
    /\ At("attach")
    /\ docs' = AttachDocs(src, file.node)
    /\ End(TRUE, "validate")
    /\ UNCHANGED <<job, src, file, body, names, exportVars>>

ValidateFile ==
    /\ At("validate")
    /\ End(Validate(file.node) = NoError, "format")
    /\ UNCHANGED <<job, src, file, docs, body, names, exportVars>>

FormatFile ==
    /\ At("format")
    /\ body' = Format(docs, file.node)
    /\ End(TRUE, "map")
    /\ UNCHANGED <<job, src, file, docs, names, exportVars>>

MapImport ==
    /\ At("map")
    /\ names' = ProjectNames(file.node, job.overrides)
    /\ End(/\ checkSyntaxProjectionDepth(file.node) = 0
           /\ checkImportFixed(file.node)
           /\ names'.err = ""
           /\ reserveImportScopes(file.node, names'.names), "check")
    /\ UNCHANGED <<job, src, file, docs, body, exportVars>>

\* The artifact layer type-checks the generated file before it writes it.
CheckBinding ==
    /\ At("check")
    /\ End(CheckGo(file.node, names.names), "done")
    /\ UNCHANGED <<job, importVars, exportVars>>

Import == ParseFile \/ Attach \/ ValidateFile \/ FormatFile \/ MapImport \/ CheckBinding

-----------------------------------------------------------------------------
(* export.  The functions of a workspace are listed by package and name, the *)
(* order in which the providers are mapped.                                  *)

Exporting == "w" \in DOMAIN job
Explicit == collectExplicit(job.w, job.patterns)
Providers == SetToSortSeq(Selected(job.w, Explicit, job.inc, job.exc), <)

\* The directives of the sources, if the workspace is given with its sources.
LoadSources ==
    /\ At("load")
    /\ job' = [job EXCEPT !.w = Documented(@, job.files)]
    /\ End(TRUE, "discover")
    /\ UNCHANGED <<importVars, exportVars>>

DiscoverProviders ==
    /\ At("discover")
    /\ End(Discover(job.w, job), "preflight")
    /\ UNCHANGED <<job, importVars, exportVars>>

Preflight ==
    /\ At("preflight")
    /\ m' = Mapper(scanExceptions(job.w, Explicit))
    /\ End(preflightGoDepth(job.w, m', GoRoots(job.w, Providers, Explicit)), "providers")
    /\ UNCHANGED <<job, importVars, model>>

MapProviders ==
    /\ At("providers")
    /\ \E r \in {mapProviders(job.w, m, Providers)} :
           /\ m' = r.m
           /\ model' = [model EXCEPT !.types = r.ts]
           /\ End(r.m.err = "", "exceptions")
    /\ UNCHANGED <<job, importVars>>

CollectExceptions ==
    /\ At("exceptions")
    /\ \E r \in {collectExceptions(job.w, m, Explicit)} :
           /\ m' = r.m
           /\ model' = [model EXCEPT !.excs = r.decls]
           /\ End(r.m.err = "", "procedures")
    /\ UNCHANGED <<job, importVars>>

ExportProcedures ==
    /\ At("procedures")
    /\ \E r \in {exportProcs(job.w, m, Providers, model.types)} :
           /\ model' = [model EXCEPT !.procs = r.decls]
           /\ End(r.err = "", "finalize")
    /\ UNCHANGED <<job, importVars, m>>

Finalize ==
    /\ At("finalize")
    /\ End(finalize(job.w, m, job.out, walkExceptionDecls(job.w, Explicit)), "assemble")
    /\ UNCHANGED <<job, importVars, exportVars>>

\* The keys are checked on the sorted model, and the assembled interface is
\* validated once more.
Assemble ==
    /\ At("assemble")
    /\ \E ds \in {assembleInterface(m, model.excs, model.procs)} :
           /\ model' = [model EXCEPT !.decls = ds]
           /\ End(checkInterfaceKeys(ds), "verify")
    /\ UNCHANGED <<job, importVars, m>>

Verify ==
    /\ At("verify")
    /\ body' = Format([n \in {0} |-> <<>>], model.decls)
    /\ End(Validate(model.decls) = NoError, "exported")
    /\ UNCHANGED <<job, src, file, docs, names, exportVars>>

\* Somebody imports the interface that was exported.
ImportExported ==
    /\ At("exported")
    /\ src' = body
    /\ End(TRUE, "write")
    /\ UNCHANGED <<job, file, docs, body, names, exportVars>>

Export ==
    \/ LoadSources \/ DiscoverProviders \/ Preflight \/ MapProviders \/ CollectExceptions \/ ExportProcedures
    \/ Finalize \/ Assemble \/ Verify \/ ImportExported

\* Somebody exports providers that use the types of an import.
Reexport(next) ==
    /\ At("done") /\ job.reexport
    /\ job' = next
    /\ stage' = "discover"
    /\ src' = <<>> /\ file' = NoFile /\ docs' = <<>> /\ body' = <<>> /\ names' = Projection("", <<>>)
    /\ UNCHANGED <<failed, exportVars>>

Reuse == stage = "done" /\ job.reexport /\ \E next \in Reexports(emitTypeDecls(file.node, names.names), body) : Reexport(next)

Next == Author \/ Import \/ Export \/ Reuse

Spec == Init /\ [][Next]_vars

-----------------------------------------------------------------------------
(* Properties.                                                             *)

\* The parser walks types with a stack of frames.  For every file it accepts
\* the same sentences as a recursive descent over the grammar, builds the same
\* tree and stops at the same token with the same complaint; the tokens of the
\* tree it builds, printed again, are the tokens it read.
ParsesTheGrammar ==
    /\ stage = "write" => \A i \in DOMAIN Tokens(src) :
            parseTypeSpec(Tokens(src), i) = Descent(Tokens(src), i)
    /\ stage = "map" => Tokens(body) = Tokens(src)

\* The validator stops at the first violation in the documented order: by
\* declaration, then its name, its types, its key, and it accepts exactly the
\* files that have none.
ReportsFirstViolation ==
    stage = "attach" =>
        LET e == Validate(file.node)
            vs == Violations(file.node)
        IN  /\ (e = NoError) <=> (vs = {})
            /\ vs # {} => \E v \in vs : e.at = v[3] /\ \A w \in vs : Before(v, w)

\* Each comment documents the node the layout rule gives it to, and the
\* canonical form is a fixed point: read again it has the same declarations
\* and the same documentation, and prints the same.
CanonicalForm ==
    /\ stage = "validate" => \A n \in Anchors(file.node) : docs[n] = DocRule(src, file.node, n)
    /\ stage = "map" /\ ~failed =>
        LET again == Parse(body)
        IN  /\ again.ok /\ again.node = file.node
            /\ AttachDocs(body, again.node) = docs
            /\ Format(docs, again.node) = body

\* MapImport accepts a file exactly when no occurrence is too deep, no fixed
\* name generates code, the overrides name nodes, and overrides and default
\* projections together give every scope distinct usable names that hide
\* nothing the generated text mentions; and the names are those.
ImportMeetsItsRules ==
    stage = "check" \/ (stage = "map" /\ failed) =>
        LET ds == file.node
        IN  (stage = "check") <=>
                /\ FitsDepth(ds)
                /\ FixedAreSentinels(ds)
                /\ OverridesFit(ds, job.overrides)
                /\ NamesFit(ds, job.overrides, names.names)
                /\ TextFits(ds, job.overrides)

\* A generated file is believed only as a whole.  If an export takes a type from
\* the constant, mapping every type with a machine line as if it were written
\* by hand gives exactly the types the constant declares, whichever of them
\* the providers reach; and a file nobody edited is never refused.
MetadataIsTrue ==
    /\ Exporting /\ stage = "exceptions" /\ (\E n \in DOMAIN m.wire : job.w.types[n].generated) =>
        LET hand == [job.w EXCEPT !.types = [n \in DOMAIN @ |-> [@[n] EXCEPT !.generated = FALSE]]]
            rows == SetToSeq(Rows(job.w.types))
            r == MapAll(hand, Mapper({}), [i \in DOMAIN rows |-> Id(rows[i])])
            ts == {d \in Range(Parse(job.w.body).node) : d.k = "type"}
        IN  /\ r.m.err = ""
            /\ DOMAIN r.m.type = {d.name : d \in ts}
            /\ \A d \in ts : r.m.type[d.name] = Plain(d.type)
            /\ \A x \in DOMAIN m.type : m.type[x] = r.m.type[x]
    /\ Exporting /\ failed /\ stage = "providers" => job.edited

\* The type check finds nothing: the preflight of MapImport has diagnosed every
\* defect an interface file and its overrides can have.
NothingLeftToCheck == ~(stage = "check" /\ failed)

\* No directive is ignored or given to another declaration, however comments
\* lie over groups and specifications: a file of an explicit package is accepted
\* exactly when every directive in it fits the one object under it, and then
\* its declarations have the directives that are written; a type reached in
\* another package has its own directive, once, and a comment that fits.
\* (Except the comment of a group of one specification with its own comment.)
DirectivesApply ==
    Exporting /\ stage # "load" =>
        /\ \A f \in DOMAIN job.files :
            LET go == job.files[f]
            IN  /\ ParseGoSource(go) <=> FileFits(go)
                /\ ParseGoSource(go) => UNION {Range(r.dirs) : r \in Range(buildDecls(go))} = Written(go)
        /\ stage = "exceptions" /\ job.files # <<>> => \A n \in DOMAIN m.wire :
            \E f \in DOMAIN job.files : \E o \in Owners(job.files[f]) :
                /\ o[2].kind = "type" /\ o[2].names = <<n>> /\ DocFits(o[1], o[2])
                /\ \E i \in DOMAIN o[1] : o[1][i].word = "type"

\* The phase at which an export ends is the right one.  A recursive type graph
\* is rejected, and only because it is; the final validation never has
\* anything to say, whatever wire names, payloads and keys met; the interface
\* lists every reached type once, after the types it uses and smallest name
\* first; the imports are refused only if the go command would refuse the
\* binding, and the binding builds; and an import of the interface parses,
\* validates and fits the depth ceiling.
\* (Two cases are left out.  A package whose path ends in a second internal is
\* MisplacedInternal: internalVisible accepts it from outside its parent, against
\* its own comment, and that binding does not build.  An unexported alias is
\* followed by the mapper but not by the depth walk.)
ExportImports ==
    LET used == BindingImports(job.w, m, Providers, Explicit)
    IN  Exporting =>
        /\ failed => stage \notin {"verify", "write", "validate"}
        /\ stage = "assemble" => ~Recursive(m)
        /\ failed /\ stage = "finalize" => Recursive(m) \/ ~BuildsWith(job.w, job.out, used)
        /\ stage = "exported" =>
              /\ IsEmissionOrder(m, SubSeq([i \in DOMAIN model.decls |-> model.decls[i].name],
                                           1, Cardinality(DOMAIN m.type)))
              /\ NoImportCycle(job.w, job.out, used)
              /\ BuildsWith(job.w, job.out, {p \in used : ~MisplacedInternal(job.w.pkgs[p].path)})
              /\ (\A n \in DOMAIN job.w.types : job.w.types[n].alias => n \in Exported)
                    => FitsDepth(model.decls)

=============================================================================
