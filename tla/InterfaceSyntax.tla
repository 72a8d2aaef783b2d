--------------------------- MODULE InterfaceSyntax ---------------------------
(***************************************************************************)
(* The interface language of src/go/internal/syntax: the parser, the       *)
(* semantic validator, documentation attachment and the canonical form.    *)
(*                                                                         *)
(* A source is a sequence of pieces, tokens and comments in source order.  *)
(* Of the layout a piece keeps only nl, what separates it from the piece   *)
(* before it: 0 the same line, 1 a line break, 2 a blank line.  A comment  *)
(* is a sequence of lines, a line its indentation and its text.  Nodes are *)
(* identified by at, the index of their first token among the tokens, so   *)
(* documentation slots are a function of that index.                       *)
(***************************************************************************)
EXTENDS Integers, FiniteSets, SequencesExt

CONSTANTS
    Prims,      \* the spellings of the primitive types
    Idents,     \* identifiers: words that are not reserved
    Key         \* the hash: Key[kind][name], kind "procedure" or "exception"

Comment == "/**/"
EOF == "EOF"
Bad == "bad"        \* a byte at which no token starts, or an open comment
NoType == [k |-> "none"]

Tok(w, nl) == [w |-> w, nl |-> nl, text |-> <<>>]
Com(text, nl) == [w |-> Comment, nl |-> nl, text |-> text]
Line(ws, t) == [ws |-> ws, t |-> t]

\* The tokens of a source; the parser keeps the comments aside (next).
Tokens(src) ==
    LET toks == SelectSeq(src, LAMBDA p : p.w # Comment)
    IN  Append([i \in DOMAIN toks |-> toks[i].w], EOF)

-----------------------------------------------------------------------------
(* The parser.  A scanner error reads as the end of the file with the error *)
(* already recorded, and every check of the current token looks at the      *)
(* recorded error first: the parser stops there with the scanner's error.   *)

Fail(toks, i, msg) ==
    [ok |-> FALSE, at |-> i, msg |-> IF toks[i] = Bad THEN "invalid" ELSE msg]
Done(i, node) == [ok |-> TRUE, at |-> i, node |-> node]

Then(r, F(_, _)) == IF r.ok THEN F(r.at, r.node) ELSE r

expect(toks, i, w) == IF toks[i] = w THEN Done(i + 1, w) ELSE Fail(toks, i, w)
expectIdent(toks, i) ==
    IF toks[i] \in Idents THEN Done(i + 1, toks[i]) ELSE Fail(toks, i, "identifier")

\* parseTypeSpec: one iteration of its loop per unfolding.  The innermost open
\* container is the last frame; complete is the last completed type, if any.
RECURSIVE TypeSpecLoop(_, _, _, _)
TypeSpecLoop(toks, i, stack, complete) ==
    LET top == Last(stack)
        Push(f, n) == TypeSpecLoop(toks, n, Append(stack, f), NoType)
        Pop(n, t) == TypeSpecLoop(toks, n, Front(stack), t)
    IN  CASE complete # NoType /\ stack = <<>> -> Done(i, complete)
          [] complete # NoType /\ stack # <<>> /\ top.k = "elem" ->
                Pop(i, [k |-> "list", at |-> top.at, elem |-> complete])
          [] complete # NoType /\ stack # <<>> /\ top.k = "field" ->
                Then(expect(toks, i, ";"), LAMBDA n, w :
                    LET rec == stack[Len(stack) - 1]
                        fld == [at |-> top.at, name |-> toks[top.at], type |-> complete]
                    IN  TypeSpecLoop(toks, n,
                          Append(SubSeq(stack, 1, Len(stack) - 2),
                                 [rec EXCEPT !.fields = Append(@, fld)]), NoType))
          [] complete = NoType /\ stack # <<>> /\ top.k = "record" ->
                IF toks[i] \in Idents THEN Push([k |-> "field", at |-> i], i + 1)
                ELSE IF toks[i] = "}"
                  THEN Pop(i + 1, [k |-> "record", at |-> top.at, fields |-> top.fields,
                                   end |-> i])
                ELSE Fail(toks, i, IF toks[i] = EOF THEN "} or field" ELSE "identifier")
          [] OTHER ->
                IF toks[i] \in Prims
                  THEN TypeSpecLoop(toks, i + 1, stack, [k |-> "prim", at |-> i, name |-> toks[i]])
                ELSE IF toks[i] \in Idents
                  THEN TypeSpecLoop(toks, i + 1, stack, [k |-> "named", at |-> i, name |-> toks[i]])
                ELSE IF toks[i] = "list" THEN Push([k |-> "elem", at |-> i], i + 1)
                ELSE IF toks[i] = "record"
                  THEN Then(expect(toks, i + 1, "{"),
                            LAMBDA n, w : Push([k |-> "record", at |-> i, fields |-> <<>>], n))
                ELSE Fail(toks, i, "type")

\* The same loop with a bug in the fold: an element that completes a list
\* inside a record field is taken for the field's type.
parseTypeSpec_loses_list(toks, i) ==
    Then(TypeSpecLoop(toks, i, <<>>, NoType), LAMBDA n, t :
        Done(n, IF t.k = "record"
                THEN [t EXCEPT !.fields = [f \in DOMAIN @ |->
                         IF @[f].type.k = "list" THEN [@[f] EXCEPT !.type = @.elem] ELSE @[f]]]
                ELSE t))

parseTypeSpec(toks, i) == TypeSpecLoop(toks, i, <<>>, NoType)

OptionalType(toks, i) ==
    IF toks[i] = ";" THEN Done(i, NoType) ELSE parseTypeSpec(toks, i)

\* parseProcDecl's parameter loop, and parseParam for each parameter.
RECURSIVE ParamLoop(_, _, _)
ParamLoop(toks, i, params) ==
    IF toks[i] = "}" THEN Done(i, params)
    ELSE IF toks[i] = EOF THEN Fail(toks, i, "} or parameter")
    ELSE Then(expectIdent(toks, i), LAMBDA n, name :
         Then(parseTypeSpec(toks, n), LAMBDA m, t :
         Then(expect(toks, m, ";"), LAMBDA l, w :
            ParamLoop(toks, l, Append(params, [at |-> i, name |-> name, type |-> t])))))

Declaration(kind, at, name, params, rbrace, type, semi) ==
    [k |-> kind, at |-> at, name |-> name, params |-> params, rbrace |-> rbrace,
     type |-> type, semi |-> semi]

parseTypeDecl(toks, i) ==
    Then(expectIdent(toks, i + 1), LAMBDA n, name :
    Then(parseTypeSpec(toks, n), LAMBDA m, t :
    Then(expect(toks, m, ";"), LAMBDA l, w :
        Done(l, Declaration("type", i, name, <<>>, 0, t, m)))))

parseExceptionDecl(toks, i) ==
    Then(expectIdent(toks, i + 1), LAMBDA n, name :
    Then(OptionalType(toks, n), LAMBDA m, t :
    Then(expect(toks, m, ";"), LAMBDA l, w :
        Done(l, Declaration("exception", i, name, <<>>, 0, t, m)))))

parseProcDecl(toks, i) ==
    Then(expectIdent(toks, i + 1), LAMBDA n, name :
    Then(expect(toks, n, "{"), LAMBDA m, w :
    Then(ParamLoop(toks, m, <<>>), LAMBDA r, params :
    Then(OptionalType(toks, r + 1), LAMBDA s, t :
    Then(expect(toks, s, ";"), LAMBDA l, x :
        Done(l, Declaration("procedure", i, name, params, r, t, s)))))))

parseDecl(toks, i) ==
    CASE toks[i] = "type" -> parseTypeDecl(toks, i)
      [] toks[i] = "exception" -> parseExceptionDecl(toks, i)
      [] toks[i] = "procedure" -> parseProcDecl(toks, i)
      [] OTHER -> Fail(toks, i, "declaration")

RECURSIVE DeclLoop(_, _, _)
DeclLoop(toks, i, decls) ==
    IF toks[i] = EOF THEN Done(i, decls)
    ELSE Then(parseDecl(toks, i), LAMBDA n, d : DeclLoop(toks, n, Append(decls, d)))

Parse(src) == DeclLoop(Tokens(src), 1, <<>>)

-----------------------------------------------------------------------------
(* The semantic validator: one pass over the declarations that stops at the *)
(* first violation.  A violation is the token it is reported at.            *)

NoError == [at |-> 0, what |-> "none"]
Violation(at, what) == [at |-> at, what |-> what]

\* typeSpec: the explicit work stack.  A record's fields are visited one by
\* one, each field's type before the next field.
RECURSIVE WorkLoop(_, _)
WorkLoop(stack, types) ==
    IF stack = <<>> THEN NoError
    ELSE LET s == Last(stack)
             rest == Front(stack)
         IN  CASE s.k = "named" ->
                    IF s.name \in types THEN WorkLoop(rest, types)
                    ELSE Violation(s.at, "unresolved type reference")
               [] s.k = "list" -> WorkLoop(Append(rest, s.elem), types)
               [] s.k = "record" ->
                    WorkLoop(Append(rest, [k |-> "fields", fields |-> s.fields, seen |-> {}]), types)
               [] s.k = "fields" /\ s.fields # <<>> ->
                    LET f == Head(s.fields)
                    IN  IF f.name \in s.seen THEN Violation(f.at, "duplicate field")
                        ELSE WorkLoop(rest \o <<[s EXCEPT !.fields = Tail(@), !.seen = @ \cup {f.name}],
                                                f.type>>, types)
               [] OTHER -> WorkLoop(rest, types)

typeSpec(t, types) == WorkLoop(<<t>>, types)

\* The parameters of a procedure in order: a name, then its type.
RECURSIVE ParamSpecs(_, _, _)
ParamSpecs(params, seen, types) ==
    IF params = <<>> THEN NoError
    ELSE LET p == Head(params)
             e == typeSpec(p.type, types)
         IN  IF p.name \in seen THEN Violation(p.at, "duplicate parameter")
             ELSE IF e # NoError THEN e
             ELSE ParamSpecs(Tail(params), seen \cup {p.name}, types)

FirstOf(es) == IF \E i \in DOMAIN es : es[i] # NoError
               THEN es[CHOOSE i \in DOMAIN es : es[i] # NoError /\ \A j \in 1 .. i - 1 : es[j] = NoError]
               ELSE NoError

declName(v, d) ==
    IF d.name \in v.global THEN Violation(d.at + 1, "duplicate name") ELSE NoError

\* A bug: the key of a declaration is compared with those of its own kind only.
key_per_kind(v, d) ==
    IF d.k = "type" THEN NoError
    ELSE IF Key[d.k][d.name] = 0 THEN Violation(d.at + 1, "zero key")
    ELSE IF <<d.k, Key[d.k][d.name]>> \in v.keys THEN Violation(d.at + 1, "key collision")
    ELSE NoError

key(v, d) ==
    IF d.k = "type" THEN NoError
    ELSE IF Key[d.k][d.name] = 0 THEN Violation(d.at + 1, "zero key")
    ELSE IF \E k \in v.keys : k[2] = Key[d.k][d.name] THEN Violation(d.at + 1, "key collision")
    ELSE NoError

\* decl: the name, the type specifiers in source order, the key.
decl(v, d) ==
    LET e == FirstOf(<<declName(v, d), ParamSpecs(d.params, {}, v.types),
                       typeSpec(d.type, v.types), key(v, d)>>)
    IN  [err |-> e,
         global |-> v.global \cup {d.name},
         types |-> IF d.k = "type" THEN v.types \cup {d.name} ELSE v.types,
         keys |-> IF d.k = "type" THEN v.keys ELSE v.keys \cup {<<d.k, Key[d.k][d.name]>>}]

Validate(decls) ==
    FoldLeft(LAMBDA v, d : IF v.err = NoError THEN decl(v, d) ELSE v,
             [err |-> NoError, global |-> {}, types |-> {}, keys |-> {}], decls).err

-----------------------------------------------------------------------------
(* Documentation attachment.                                               *)

\* The types that occur in a type, itself included, in source order.
RECURSIVE TypesIn(_)
TypesIn(t) ==
    CASE t.k = "none" -> {}
      [] t.k = "list" -> {t} \cup TypesIn(t.elem)
      [] t.k = "record" -> {t} \cup UNION {TypesIn(t.fields[f].type) : f \in DOMAIN t.fields}
      [] OTHER -> {t}

DeclTypes(d) == TypesIn(d.type) \cup UNION {TypesIn(d.params[p].type) : p \in DOMAIN d.params}

\* The index of the last token of a type; of a field it is the one after it.
RECURSIVE EndOf(_)
EndOf(t) == CASE t.k = "list" -> EndOf(t.elem)
              [] t.k = "record" -> t.end
              [] OTHER -> t.at

FieldsIn(d) == {d.params[p] : p \in DOMAIN d.params} \cup
               UNION {{t.fields[f] : f \in DOMAIN t.fields} :
                        t \in {u \in DeclTypes(d) : u.k = "record"}}

\* collect: the tokens that end a node, the tokens after which a type is
\* introduced, and the tokens that start a documented node.
Ends(decls) == UNION {{d.semi} \cup {EndOf(t) : t \in DeclTypes(d)}
                               \cup {EndOf(f.type) + 1 : f \in FieldsIn(d)} : d \in Range(decls)}
PrefixEnds(decls) == UNION {{IF d.k = "procedure" THEN d.rbrace ELSE d.at + 1}
                            \cup {t.at : t \in {u \in DeclTypes(d) : u.k = "list"}}
                            \cup {f.at : f \in FieldsIn(d)} : d \in Range(decls)}
Anchors(decls) == UNION {{d.at} \cup {t.at : t \in DeclTypes(d)}
                               \cup {f.at : f \in FieldsIn(d)} : d \in Range(decls)}

\* Where token n sits among the pieces (0 for n = 0), and the line a piece
\* starts on.  A comment spans the lines of its text.
PieceOf(src, n) ==
    IF n = 0 THEN 0
    ELSE CHOOSE i \in DOMAIN src : /\ src[i].w # Comment
            /\ n = Len(SelectSeq(SubSeq(src, 1, i), LAMBDA p : p.w # Comment))
Height(p) == IF p.w = Comment THEN Len(p.text) - 1 ELSE 0
LineOf(src, i) == FoldLeft(LAMBDA n, p : n + p.nl + Height(p), 0, SubSeq(src, 1, i))
                    - Height(src[i])

isTrailing(src, decls, i) ==
    \E n \in Ends(decls) :
        /\ PieceOf(src, n) < i
        /\ \A m \in Ends(decls) : PieceOf(src, m) < i => m <= n
        /\ LineOf(src, PieceOf(src, n)) = LineOf(src, i)

\* A bug: a comment's indentation is kept.
normalizeDoc_keeps_indentation(text) ==
    LET full == {i \in DOMAIN text : text[i].t # ""}
    IN  IF full = {} THEN <<>> ELSE SubSeq(text, Min(full), Max(full))

\* normalizeDoc: trailing blanks and outer blank lines go, and the common
\* indentation of the lines that are not blank.
normalizeDoc(text) ==
    LET trimmed == [i \in DOMAIN text |-> IF text[i].t = "" THEN Line(0, "") ELSE text[i]]
        full == {i \in DOMAIN text : text[i].t # ""}
        body == SubSeq(trimmed, Min(full), Max(full))
        common == Min({trimmed[i].ws : i \in full})
    IN  IF full = {} THEN <<>>
        ELSE [i \in DOMAIN body |-> IF body[i].t = "" THEN body[i]
                                    ELSE [body[i] EXCEPT !.ws = @ - common]]

groupDoc(group) ==
    FoldLeft(LAMBDA doc, c : LET d == normalizeDoc(c.text)
                             IN  IF d = <<>> \/ doc = <<>> THEN doc \o d
                                 ELSE doc \o <<Line(0, "")>> \o d,
             <<>>, group)

\* attach, for the anchor at token n: the comments between the previous token
\* and it, from the last blank line on, without the trailing ones.
DocOf(src, decls, n) ==
    LET prev == PieceOf(src, n - 1)
        this == PieceOf(src, n)
        group == (prev + 1) .. (this - 1)
        seg == CHOOSE i \in group : /\ \A j \in i + 1 .. this - 1 : src[j].nl # 2
                                    /\ i = prev + 1 \/ src[i].nl = 2
        kept == {i \in seg .. this - 1 :
                    (n - 1) \in PrefixEnds(decls)
                        \/ \E j \in seg .. i : ~isTrailing(src, decls, j)}
    IN  IF group = {} THEN <<>>
        ELSE IF src[this].nl = 2 \/ kept = {} THEN <<>>
        ELSE groupDoc(SubSeq(src, Min(kept), this - 1))

AttachDocs(src, decls) == [n \in Anchors(decls) |-> DocOf(src, decls, n)]

-----------------------------------------------------------------------------
(* The canonical form: the formatter's item stack, written out as pieces.   *)

\* writeDoc: a document of one line stays on one line; a longer one is a block
\* with its lines one level deeper than the node.
writeDoc(indent, doc, nl) ==
    IF doc = <<>> THEN <<>>
    ELSE IF Len(doc) = 1 THEN <<Com(<<Line(1 + doc[1].ws, doc[1].t)>>, nl)>>
    ELSE <<Com(<<Line(0, "")>>
                 \o [i \in DOMAIN doc |-> IF doc[i].t = "" THEN Line(0, "")
                                          ELSE Line(indent + 4 + doc[i].ws, doc[i].t)]
                 \o <<Line(indent, "")>>, nl)>>

\* A document and then the first word of its node; nl separates the two of
\* them from what is before.
Head1(docs, at, w, indent, nl) ==
    writeDoc(indent, docs[at], nl) \o <<Tok(w, IF docs[at] = <<>> THEN nl ELSE 1)>>

Item(k, x, indent) == [k |-> k, x |-> x, indent |-> indent]

\* runFormat: the items still to be written, the next one last.
RECURSIVE runFormat(_, _, _)
runFormat(docs, items, out) ==
    IF items = <<>> THEN out
    ELSE LET it == Last(items)
             x == it.x
             rest == Front(items)
             Fields(fs) == [i \in DOMAIN fs |-> Item("field", fs[Len(fs) + 1 - i], it.indent + 4)]
             First(w) == Head1(docs, x.at, w, it.indent, IF docs[x.at] = <<>> THEN 0 ELSE 1)
         IN  CASE it.k = "semi" -> runFormat(docs, rest, Append(out, Tok(";", 0)))
               [] it.k = "tail" -> runFormat(docs, rest, Append(out, Tok("}", 1)))
               [] it.k = "field" ->
                    runFormat(docs, rest \o <<Item("semi", x, 0), Item("type", x.type, it.indent)>>,
                              out \o Head1(docs, x.at, x.name, it.indent, 1))
               [] it.k = "type" /\ x.k = "list" ->
                    runFormat(docs, Append(rest, Item("type", x.elem, it.indent)), out \o First("list"))
               [] it.k = "type" /\ x.k = "record" ->
                    IF x.fields = <<>>
                    THEN runFormat(docs, rest, out \o First("record") \o <<Tok("{", 0), Tok("}", 0)>>)
                    ELSE runFormat(docs, Append(rest, Item("tail", x, it.indent)) \o Fields(x.fields),
                                   out \o First("record") \o <<Tok("{", 0)>>)
               [] it.k = "type" /\ x.k \in {"prim", "named"} ->
                    runFormat(docs, rest, out \o First(x.name))
               [] OTHER -> runFormat(docs, rest, out)

\* writeDecl: the heading, and the items of the rest.
writeDecl(docs, d, nl) ==
    LET head == Append(Head1(docs, d.at, d.k, 0, nl), Tok(d.name, 0))
        tail == <<Item("semi", d, 0), Item("type", d.type, 0)>>
        params == [i \in DOMAIN d.params |-> Item("field", d.params[Len(d.params) + 1 - i], 4)]
    IN  IF d.k # "procedure" THEN runFormat(docs, tail, head)
        ELSE IF d.params = <<>> THEN runFormat(docs, tail, head \o <<Tok("{", 0), Tok("}", 0)>>)
        ELSE runFormat(docs, Append(tail, Item("tail", d, 0)) \o params, Append(head, Tok("{", 0)))

Format(docs, decls) ==
    FoldLeft(LAMBDA out, d : out \o writeDecl(docs, d, IF out = <<>> THEN 0 ELSE 2), <<>>, decls)

-----------------------------------------------------------------------------
(* What the three promise, stated without their stacks and searches.       *)

\* The type grammar by recursive descent.
RECURSIVE Descent(_, _), FieldDescent(_, _, _)
Descent(toks, i) ==
    CASE toks[i] \in Prims -> Done(i + 1, [k |-> "prim", at |-> i, name |-> toks[i]])
      [] toks[i] \in Idents -> Done(i + 1, [k |-> "named", at |-> i, name |-> toks[i]])
      [] toks[i] = "list" ->
            Then(Descent(toks, i + 1), LAMBDA n, t : Done(n, [k |-> "list", at |-> i, elem |-> t]))
      [] toks[i] = "record" ->
            Then(expect(toks, i + 1, "{"), LAMBDA n, w :
            Then(FieldDescent(toks, n, <<>>), LAMBDA m, fs :
                Done(m + 1, [k |-> "record", at |-> i, fields |-> fs, end |-> m])))
      [] OTHER -> Fail(toks, i, "type")
FieldDescent(toks, i, fs) ==
    IF toks[i] = "}" THEN Done(i, fs)
    ELSE IF toks[i] = EOF THEN Fail(toks, i, "} or field")
    ELSE Then(expectIdent(toks, i), LAMBDA n, name :
         Then(Descent(toks, n), LAMBDA m, t :
         Then(expect(toks, m, ";"), LAMBDA l, w :
            FieldDescent(toks, l, Append(fs, [at |-> i, name |-> name, type |-> t])))))

\* Every violation of a file, with its place in the documented precedence:
\* the declaration, then name, types and key in that order, then the token.
Violations(decls) ==
    LET Types(d) == {decls[j].name : j \in {j \in DOMAIN decls : j < d /\ decls[j].k = "type"}}
        Repeats(fs) == {fs[i].at : i \in {i \in DOMAIN fs : \E j \in 1 .. i - 1 : fs[j].name = fs[i].name}}
        Of(d) ==
            LET D == decls[d]
                K(e) == Key[e.k][e.name]
            IN  {<<d, 1, D.at + 1>> : j \in {j \in 1 .. d - 1 : decls[j].name = D.name}}
                \cup {<<d, 2, t.at>> : t \in {u \in DeclTypes(D) : u.k = "named" /\ u.name \notin Types(d)}}
                \cup {<<d, 2, n>> : n \in Repeats(D.params)}
                \cup {<<d, 2, n>> : n \in UNION {Repeats(t.fields) : t \in {u \in DeclTypes(D) : u.k = "record"}}}
                \cup {<<d, 3, D.at + 1>> : j \in {j \in 1 .. d :
                        /\ D.k # "type" /\ decls[j].k # "type"
                        /\ (K(D) = 0 \/ (j < d /\ K(decls[j]) = K(D)))}}
    IN  UNION {Of(d) : d \in DOMAIN decls}

Before(v, w) == \/ v[1] < w[1]
                \/ v[1] = w[1] /\ v[2] < w[2]
                \/ v[1] = w[1] /\ v[2] = w[2] /\ v[3] <= w[3]

\* The documentation rule for one comment on its own: it belongs to the node
\* that starts at the next token if no blank line is between, and if it is
\* not on the line of an earlier node's end, or the token before introduces
\* the node.
BelongsTo(src, decls, i, n) ==
    /\ src[i].w = Comment
    /\ i \in PieceOf(src, n - 1) + 1 .. PieceOf(src, n) - 1
    /\ \A j \in i + 1 .. PieceOf(src, n) : src[j].nl # 2
    /\ \/ (n - 1) \in PrefixEnds(decls)
       \/ \A m \in Ends(decls) : m < n => LineOf(src, PieceOf(src, m)) # LineOf(src, i)

DocRule(src, decls, n) ==
    LET mine == SetToSortSeq({i \in DOMAIN src : BelongsTo(src, decls, i, n)}, <)
    IN  groupDoc([i \in DOMAIN mine |-> src[mine[i]]])

=============================================================================
