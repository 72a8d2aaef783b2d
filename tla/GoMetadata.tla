------------------------------ MODULE GoMetadata ------------------------------
(***************************************************************************)
(* Type declarations of a generated import file, read again by an export   *)
(* (src/go/internal/tool/metadata.go).  The file carries the canonical     *)
(* interface as a constant and a machine line with the wire name on each   *)
(* type.  An export that reaches one of the types takes its wire structure *)
(* from the constant, after checking the whole table against it.           *)
(*                                                                         *)
(* A Go type expression is basic, slice, struct, id (a declared type) or   *)
(* something that is no wire value.                                        *)
(***************************************************************************)
EXTENDS GoImport

Prim(n) == [k |-> "prim", at |-> 0, name |-> n]
Ref(wire) == [k |-> "named", at |-> 0, name |-> wire]
ListOf(t) == [k |-> "list", at |-> 0, elem |-> t]
RecordOf(fs) == [k |-> "record", at |-> 0, fields |-> fs, end |-> 0]
WireField(name, t) == [at |-> 0, name |-> name, type |-> t]

\* A wire type without its place in a file.
RECURSIVE Plain(_)
Plain(t) ==
    CASE t.k = "list" -> ListOf(Plain(t.elem))
      [] t.k = "record" -> RecordOf([i \in DOMAIN t.fields |-> WireField(t.fields[i].name, Plain(t.fields[i].type))])
      [] OTHER -> [t EXCEPT !.at = 0]

sameType(a, b) == Plain(a) = Plain(b)

Basic(n) == [k |-> "basic", n |-> n]
Slice(e) == [k |-> "slice", elem |-> e]
Struct(fs) == [k |-> "struct", fields |-> fs]
Id(n) == [k |-> "id", n |-> n]

-----------------------------------------------------------------------------
(* What an import writes.                                                  *)

GoNameOf(decls, names, wire) ==
    names[decls[CHOOSE i \in DOMAIN decls : decls[i].k = "type" /\ decls[i].name = wire].at]

RECURSIVE GoExpr(_, _, _)
GoExpr(decls, names, t) ==
    CASE t.k = "prim" -> IF t.name = "bytes" THEN Slice(Basic("byte")) ELSE Basic(t.name)
      [] t.k = "named" -> Id(GoNameOf(decls, names, t.name))
      [] t.k = "list" -> Slice(GoExpr(decls, names, t.elem))
      [] t.k = "record" -> Struct([i \in DOMAIN t.fields |->
            [name |-> names[t.fields[i].at], tag |-> t.fields[i].name,
             type |-> GoExpr(decls, names, t.fields[i].type)]])

\* The declared types by Go name, each with its machine line.
emitTypeDecls(decls, names) ==
    LET ts == {d \in Range(decls) : d.k = "type"}
    IN  [n \in {names[d.at] : d \in ts} |->
            LET d == CHOOSE x \in ts : names[x.at] = n
            IN  [name |-> n, alias |-> FALSE, generic |-> FALSE, tagged |-> TRUE, generated |-> TRUE,
                 wire |-> d.name, rhs |-> GoExpr(decls, names, d.type)]]

-----------------------------------------------------------------------------
(* What an export reads.  types are the declarations of the file by Go      *)
(* name, body the constant.                                                 *)

Conflict == [k |-> "conflict", at |-> 0]

RECURSIVE projectType(_, _)
projectType(table, e) ==
    CASE e.k = "basic" -> IF e.n \in Prims \ {"bytes"} THEN Prim(e.n) ELSE Conflict
      [] e.k = "id" -> IF e.n \in DOMAIN table THEN Ref(table[e.n]) ELSE Conflict
      [] e.k = "slice" -> IF e.elem = Basic("byte") THEN Prim("bytes") ELSE ListOf(projectType(table, e.elem))
      [] e.k = "struct" ->
            IF \A i \in DOMAIN e.fields : e.fields[i].name \in Exported /\ e.fields[i].tag # ""
            THEN RecordOf([i \in DOMAIN e.fields |-> WireField(e.fields[i].tag, projectType(table, e.fields[i].type))])
            ELSE Conflict
      [] OTHER -> Conflict

Rows(types) == {n \in DOMAIN types : types[n].generated /\ types[n].tagged}
Table(types) == [n \in Rows(types) |-> types[n].wire]

\* A bug: only the row that was reached is compared with the constant.
validateMachineTable_names_only(types, decls) ==
    {types[n].wire : n \in Rows(types)} = {d.name : d \in {x \in Range(decls) : x.k = "type"}}

\* The rows are a bijection with the declared types of the constant, and each
\* row's Go type projects back to the declaration's structure.
validateMachineTable(types, decls) ==
    LET Declared(wire) == {d.type : d \in {x \in Range(decls) : x.k = "type" /\ x.name = wire}}
    IN  /\ \A n \in Rows(types) :
            /\ types[n].wire # ""
            /\ \A o \in Rows(types) \ {n} : types[o].wire # types[n].wire
            /\ Declared(types[n].wire) # {}
            /\ ~types[n].alias /\ ~types[n].generic
            /\ \A t \in Declared(types[n].wire) : sameType(t, projectType(Table(types), types[n].rhs))
        /\ \A d \in Range(decls) : d.k = "type" => \E n \in Rows(types) : types[n].wire = d.name

\* The constant is a valid interface in canonical form that fits the depth
\* ceiling, and the table agrees with it.
RecoverSemantic(types, body) ==
    LET f == Parse(body)
    IN  /\ f.ok
        /\ Validate(f.node) = NoError
        /\ checkSyntaxProjectionDepth(f.node) = 0
        /\ Format(AttachDocs(body, f.node), f.node) = body
        /\ validateMachineTable(types, f.node)

=============================================================================
