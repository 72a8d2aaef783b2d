------------------------------- MODULE GoSource -------------------------------
(***************************************************************************)
(* Source directives (src/go/internal/tool/gosource.go and directives.go): *)
(* which declaration a doc comment belongs to, the grammar and the checks  *)
(* of the @intercall lines in it, and what the rest of an export reads     *)
(* from them.                                                              *)
(*                                                                         *)
(* A file has its package, whether it is marked as generated, and by whom, *)
(* and its declarations: functions and methods with a doc comment, and     *)
(* groups of specifications, in which the group and each specification may *)
(* have one.  A doc comment is its lines: the word it starts with, the     *)
(* operands, and whether its text contains a comment end.  Without a       *)
(* comment it is empty.                                                    *)
(***************************************************************************)
EXTENDS GoExport

NoDoc == <<>>
Prose == "prose"
DocLine(word, args) == [word |-> word, args |-> args, end |-> FALSE]

isDeclarationDirective(word) == word \in {"procedure", "exception", "type"}

\* Whether a line that is no prose is a well-formed directive.
parseDirectiveLine(ln) ==
    LET n == Len(ln.args)
    IN  \/ isDeclarationDirective(ln.word) /\ n <= 1 /\ \A i \in 1 .. n : ValidWire(ln.args[i])
        \/ ln.word = "param" /\ n = 2 /\ ln.args[1] \notin Keywords /\ ValidWire(ln.args[2])
        \/ ln.word = "@param" /\ n >= 2 /\ ln.args[1] \notin Keywords
        \/ ln.word = "@return" /\ n >= 1

\* What a doc comment belongs to; group is the number of specifications if it
\* is the comment of a group, else 0.
specTarget(gd, spec) ==
    [kind |-> gd.k, names |-> spec.names, alias |-> spec.alias, generic |-> spec.generic,
     params |-> <<>>, results |-> 0, group |-> 0]

\* The parameters of a function begin with its context.
collectFuncInfo(gd) ==
    [kind |-> gd.k, names |-> <<gd.name>>, alias |-> FALSE, generic |-> FALSE,
     params |-> gd.params, results |-> gd.results, group |-> 0]

checkPlacement(dir, target) ==
    CASE dir.word = "exception" -> target.kind \in {"var", "type"}
      [] dir.word = "type" -> target.kind = "type"
      [] OTHER -> target.kind = "func"

checkResolution(dir, target) ==
    CASE dir.word = "exception" /\ target.kind = "var" ->
            Len(target.names) = 1 /\ target.names[1] \in Exported
      [] dir.word = "exception" /\ target.kind = "type" ->
            target.names[1] \in Exported /\ ~target.alias /\ ~target.generic
      [] dir.word = "type" /\ target.kind = "type" -> ~target.alias /\ ~target.generic
      [] dir.word \in {"param", "@param"} /\ target.kind = "func" ->
            LET at == {i \in DOMAIN target.params : target.params[i] = dir.args[1]}
            IN  at # {} /\ Min(at) # 1
      [] dir.word = "@return" /\ target.kind = "func" -> target.results >= 2
      [] OTHER -> TRUE

\* A directive repeats another of its kind, for its parameter if it names one.
Repeats(d, e) ==
    d.word = e.word /\ (d.word \in {"param", "@param"} => d.args[1] = e.args[1])

checkDirectives(dirs, target) ==
    /\ \A i \in DOMAIN dirs :
        IF isDeclarationDirective(dirs[i].word) /\ target.group > 1 THEN FALSE
        ELSE checkPlacement(dirs[i], target) /\ checkResolution(dirs[i], target)
    /\ \A i, j \in DOMAIN dirs : Repeats(dirs[i], dirs[j]) => i = j

\* The directives of a doc comment, and whether nothing is wrong with it.  The
\* retained prose and the texts of directives must not end a comment.
processDoc(doc, target) ==
    LET dirs == SelectSeq(doc, LAMBDA ln : ln.word # Prose /\ parseDirectiveLine(ln))
    IN  [dirs |-> dirs,
         ok |-> /\ \A i \in DOMAIN doc : ~doc[i].end
                /\ \A i \in DOMAIN doc : doc[i].word # Prose => parseDirectiveLine(doc[i])
                /\ checkDirectives(dirs, target)]

\* A field's comment is prose throughout.
FieldDocOK(doc) == \A i \in DOMAIN doc : ~doc[i].end

\* The specification that inherits the comment of its group, or 0.
firstDocless(gd) ==
    LET none == {i \in DOMAIN gd.specs : gd.specs[i].doc = NoDoc}
    IN  IF none = {} THEN 0 ELSE Min(none)

Inert(file) == file.generated /\ ~file.intercall

Record(kind, names, doc) == [kind |-> kind, names |-> names, dirs |-> doc.dirs, ok |-> doc.ok]

buildSpec(file, gd, i) ==
    LET spec == gd.specs[i]
        inherits == spec.doc = NoDoc /\ gd.doc # NoDoc /\ i = firstDocless(gd)
        target == [specTarget(gd, spec) EXCEPT !.group = IF inherits THEN Len(gd.specs) ELSE 0]
        fields == \A h \in DOMAIN spec.fields : FieldDocOK(spec.fields[h])
        doc == processDoc(IF inherits THEN gd.doc ELSE spec.doc, target)
    IN  Record(gd.k, spec.names,
               IF Inert(file) THEN [dirs |-> <<>>, ok |-> TRUE] ELSE [doc EXCEPT !.ok = @ /\ fields])

\* The comment of a group in which every specification has its own.
checkGroupDoc_skipped(file, gd) == TRUE

checkGroupDoc(file, gd) ==
    \/ Len(gd.specs) <= 1 \/ gd.doc = NoDoc \/ firstDocless(gd) # 0 \/ Inert(file)
    \/ processDoc(gd.doc, [specTarget(gd, gd.specs[1]) EXCEPT !.group = Len(gd.specs)]).ok

buildDecls(file) ==
    LET Of(gd) ==
            IF gd.k \in {"func", "method"}
            THEN <<Record(gd.k, <<gd.name>>, IF Inert(file) THEN [dirs |-> <<>>, ok |-> TRUE]
                                                 ELSE processDoc(gd.doc, collectFuncInfo(gd)))>>
            ELSE [i \in DOMAIN gd.specs |-> buildSpec(file, gd, i)]
    IN  FlattenSeq([i \in DOMAIN file.decls |-> Of(file.decls[i])])

Groups(file) == {d \in Range(file.decls) : d.k \notin {"func", "method"}}

ParseGoSource(file) ==
    /\ \A i \in DOMAIN buildDecls(file) : buildDecls(file)[i].ok
    /\ \A d \in Groups(file) : checkGroupDoc(file, d)

-----------------------------------------------------------------------------
(* What an export reads.                                                   *)

hasDirective(rec, word) == \E i \in DOMAIN rec.dirs : rec.dirs[i].word = word

\* directiveOf: the wire name the first directive of a kind gives, "" if none.
directiveOf(rec, word) ==
    LET ds == SelectSeq(rec.dirs, LAMBDA d : d.word = word)
    IN  IF ds = <<>> \/ ds[1].args = <<>> THEN "" ELSE ds[1].args[1]

paramDirectiveOf(rec, name) ==
    LET ds == SelectSeq(rec.dirs, LAMBDA d : d.word = "param" /\ d.args[1] = name)
    IN  IF ds = <<>> THEN "" ELSE ds[1].args[2]

\* A type that is reached in a package nobody asked for: only its own comment
\* and its group's are looked at.
goDeclOf(file, n) ==
    \E d \in Groups(file) : \E i \in DOMAIN d.specs :
        /\ d.k = "type" /\ d.specs[i].names = <<n>>
        /\ buildSpec(file, d, i).ok /\ checkGroupDoc(file, d)

\* The workspace with what its files say.
Documented(w, files) ==
    LET recs == [f \in DOMAIN files |-> buildDecls(files[f])]
        FileOf(n, kinds) == CHOOSE f \in DOMAIN files : \E r \in Range(recs[f]) : r.kind \in kinds /\ r.names[1] = n
        RecOf(n, kinds) == CHOOSE r \in Range(recs[FileOf(n, kinds)]) : r.kind \in kinds /\ r.names[1] = n
        Func(p) == RecOf(p.name, {"func"})
        Type(n) == RecOf(n, {"type"})
        Excs(f) == LET rs == SelectSeq(recs[f], LAMBDA r : r.kind \in {"var", "type"} /\ hasDirective(r, "exception"))
                   IN  IF files[f].generated THEN <<>>
                       ELSE [i \in DOMAIN rs |->
                               [pkg |-> files[f].pkg, name |-> rs[i].names[1], kind |-> rs[i].kind,
                                wire |-> directiveOf(rs[i], "exception"), isError |-> rs[i].names[1] \in w.errors]]
    IN  [w EXCEPT
            !.pkgs = [p \in DOMAIN @ |->
                [@[p] EXCEPT !.directives = \A f \in DOMAIN files : files[f].pkg = p => ParseGoSource(files[f])]],
            !.procs = [i \in DOMAIN @ |->
                [@[i] EXCEPT !.tagged = hasDirective(Func(w.procs[i]), "procedure"),
                             !.wire = directiveOf(Func(w.procs[i]), "procedure"),
                             !.generated = files[FileOf(w.procs[i].name, {"func"})].generated,
                             !.params = [h \in DOMAIN @ |->
                                [@[h] EXCEPT !.wire = paramDirectiveOf(Func(w.procs[i]), w.procs[i].params[h].name)]]]],
            !.types = [n \in DOMAIN @ |->
                [@[n] EXCEPT !.tagged = hasDirective(Type(n), "type"),
                             !.wire = directiveOf(Type(n), "type"),
                             !.docs = goDeclOf(files[FileOf(n, {"type"})], n)]],
            !.excs = FlattenSeq([f \in DOMAIN files |-> Excs(f)])]

-----------------------------------------------------------------------------
(* What a directive promises.                                              *)

\* The comment of a group of one that has a comment of its own: the code never
\* reads it.
Overshadowed(gd) == Len(gd.specs) = 1 /\ gd.specs[1].doc # NoDoc

\* The other doc comments of a file with what each is written above: the kind,
\* the objects declared there, and what is known of them.
Owners(file) ==
    LET Whole(gd) == [specTarget(gd, gd.specs[1]) EXCEPT
                        !.names = FlattenSeq([i \in DOMAIN gd.specs |-> gd.specs[i].names])]
        funcs == {<<d.doc, collectFuncInfo(d)>> : d \in Range(file.decls) \ Groups(file)}
        groups == {<<d.doc, Whole(d)>> : d \in {g \in Groups(file) : ~Overshadowed(g)}}
        specs == UNION {{<<d.specs[i].doc, specTarget(d, d.specs[i])>> : i \in DOMAIN d.specs} : d \in Groups(file)}
    IN  {o \in funcs \cup groups \cup specs : o[1] # NoDoc}

\* A directive fits what it is written above.
Fits(dir, t) ==
    CASE dir.word = "procedure" -> t.kind = "func"
      [] dir.word = "exception" ->
            /\ t.kind \in {"var", "type"} /\ Len(t.names) = 1 /\ t.names[1] \in Exported
            /\ ~t.alias /\ ~t.generic
      [] dir.word = "type" -> t.kind = "type" /\ Len(t.names) = 1 /\ ~t.alias /\ ~t.generic
      [] dir.word = "@return" -> t.kind = "func" /\ t.results >= 2
      [] OTHER -> t.kind = "func" /\ \E i \in 2 .. Len(t.params) : dir.args[1] = t.params[i] /\ dir.args[1] # t.params[1]

DocFits(doc, t) ==
    LET dirs == {i \in DOMAIN doc : doc[i].word # Prose}
    IN  /\ \A i \in DOMAIN doc : ~doc[i].end
        /\ \A i \in dirs : parseDirectiveLine(doc[i]) /\ Fits(doc[i], t)
        /\ \A i, j \in dirs : i # j => ~Repeats(doc[i], doc[j])

FieldDocs(file) == UNION {UNION {Range(d.specs[i].fields) : i \in DOMAIN d.specs} : d \in Groups(file)}

\* Every directive of the file fits, and so does everything else in comments.
FileFits(file) ==
    \/ Inert(file)
    \/ /\ \A o \in Owners(file) : DocFits(o[1], o[2])
       /\ \A doc \in FieldDocs(file) : FieldDocOK(doc)

\* The directives the file gives its declarations are those that are written.
Written(file) ==
    IF Inert(file) THEN {} ELSE {d \in UNION {Range(o[1]) : o \in Owners(file)} : d.word # Prose}

=============================================================================
