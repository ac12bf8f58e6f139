------------------------------ MODULE Resolver ------------------------------
(***************************************************************************)
(* The declarations of a program and what the generator makes sure of      *)
(* before a back end sees them: src/source/ast.scala, meta.scala and       *)
(* resolver.scala.                                                         *)
(*                                                                         *)
(* A declaration is a record [name, as, kind, params, ext, fields,         *)
(* methods, consts, deriving]:                                             *)
(*   as        "intern" (from a .djinni file), "extern" or "protobuf"      *)
(*   kind      "enum", "record", "interface" or "protobuf"                 *)
(*   params    type parameters                                             *)
(*   ext       the languages after "+"; of a protobuf type, those its      *)
(*             manifest has a section for                                  *)
(*   fields    the types of a record's fields, in order                    *)
(*   methods   [static, const, lang, params, ret]: lang is the languages   *)
(*             after the method, ret has no type or one                    *)
(*   consts    the types of the constants; a value that fits is assumed    *)
(* Members have distinct names, which are their positions.  "i32" stands   *)
(* for the numbers.                                                        *)
(***************************************************************************)
EXTENDS Integers, SequencesExt, FiniteSets

VARIABLE program  \* the declarations, in the order of the list

Simple == {"i32", "bool", "string", "date", "binary", "void"}
Generic == {"optional", "list", "set", "array", "map"}
Builtins == Simple \union Generic

Names == {program[i].name : i \in DOMAIN program}
Decl(n) == program[CHOOSE i \in DOMAIN program : program[i].name = n]

\* A type expression names a base and has arguments.
Type(base, args) == [base |-> base, args |-> args]
ArgumentsOf(t) == Range(t.args)

\* Every type expression in t, t included.
RECURSIVE Within(_)
Within(t) == {t} \union UNION {Within(a) : a \in ArgumentsOf(t)}
Mentioned(types) == {x.base : x \in UNION {Within(t) : t \in types}}

\* What a generator matches on: the builtin, the kind of the declaration, or
\* "param" for a type parameter.
Kind(base) ==
  IF base \in Builtins THEN base
  ELSE IF base \in Names THEN Decl(base).kind ELSE "param"
KindOf(t) == Kind(t.base)

Intern(base) == base \in Names /\ Decl(base).as = "intern"

NumParams(base) ==
  CASE base = "map" -> 2
    [] base \in Generic \ {"map"} -> 1
    [] base \in Names -> Cardinality(Decl(base).params)
    [] OTHER -> 0

\* buildMExpr(): known names, the right number of arguments, and no optional
\* directly in another one.
RECURSIVE Buildable(_, _)
Buildable(t, params) ==
  /\ t.base \in Builtins \union Names \union params
  /\ Len(t.args) = NumParams(t.base)
  /\ \A a \in ArgumentsOf(t) : Buildable(a, params)
  /\ t.base = "optional" => t.args[1].base # "optional"

FieldTypes(d) == Range(d.fields)
Types(m) == Range(m.params \o m.ret)
MethodTypes(d) == UNION {Types(m) : m \in Range(d.methods)}
ConstTypes(d) == Range(d.consts)

\* Mutant: a collection in an ordered record is let through.
FieldVerdictNoOrdCheck(d, t) ==
  IF \/ ~Buildable(t, d.params)
     \/ d.ext # {} /\ d.deriving \intersect {"eq", "ord"} # {}
     \/ KindOf(t) = "interface"
     \/ KindOf(t) = "record" /\ ~(d.deriving \subseteq Decl(t.base).deriving)
  THEN "rejected"
  ELSE IF KindOf(t) \in {"void", "param"} THEN "aborted" ELSE "ok"

\* resolveRecord(), one field.  Only the outermost type is looked at.  "void"
\* and a type parameter end in an AssertionError that nothing catches.
FieldVerdict(d, t) ==
  IF \/ ~Buildable(t, d.params)
     \/ d.ext # {} /\ d.deriving \intersect {"eq", "ord"} # {}
     \/ "ord" \in d.deriving /\ KindOf(t) \in Generic \union {"binary", "bool"}
     \/ KindOf(t) = "interface"
     \/ KindOf(t) = "record" /\ ~(d.deriving \subseteq Decl(t.base).deriving)
  THEN "rejected"
  ELSE IF KindOf(t) \in {"void", "param"} THEN "aborted" ELSE "ok"

FirstBad(verdicts) == FoldLeft(LAMBDA acc, v : IF acc = "ok" THEN v ELSE acc, "ok", verdicts)

\* resolveInterface(): static and const need +c alone.
InterfaceAllowed(d) ==
  /\ d.ext \intersect {"java", "objc"} # {} => \A m \in Range(d.methods) : ~m.static /\ ~m.const
  /\ "cpp" \in d.ext => \A m \in Range(d.methods) : ~(m.static /\ m.const)
  /\ \A t \in MethodTypes(d) : Buildable(t, d.params)

DeclVerdict(d) ==
  FirstBad(
    (CASE d.kind = "record" -> [i \in DOMAIN d.fields |-> FieldVerdict(d, d.fields[i])]
       [] d.kind = "interface" -> <<IF InterfaceAllowed(d) THEN "ok" ELSE "rejected">>
       [] OTHER -> <<>>)
    \o [i \in DOMAIN d.consts |-> IF Buildable(d.consts[i], d.params) THEN "ok" ELSE "rejected"])

\* constTypeCheck(): the types some value of which is accepted.  A record
\* value lists every field, at least one, so a record inside itself has none.
RECURSIVE HasValue(_, _)
HasValue(t, inside) ==
  CASE t.base = "optional" -> HasValue(t.args[1], inside)
    [] t.base \in {"i32", "bool", "string"} -> TRUE
    [] Intern(t.base) /\ KindOf(t) = "enum" -> TRUE
    [] Intern(t.base) /\ KindOf(t) = "record" ->
         /\ t.base \notin inside
         /\ Decl(t.base).fields # <<>>
         /\ \A f \in FieldTypes(Decl(t.base)) : HasValue(f, inside \union {t.base})
    [] OTHER -> FALSE

ConstsVerdict(d) == IF \A t \in ConstTypes(d) : HasValue(t, {}) THEN "ok" ELSE "rejected"

\* resolve(): the names, then the bodies, then the values of the constants.
LoadScopeVerdict ==
  IF \/ Cardinality(Names) # Len(program)
     \/ \E d \in Range(program) : d.kind = "enum" /\ d.params # {}
  THEN "rejected" ELSE "ok"

ResolveVerdict ==
  FirstBad(<<LoadScopeVerdict>>
           \o [i \in DOMAIN program |-> DeclVerdict(program[i])]
           \o [i \in DOMAIN program |-> ConstsVerdict(program[i])])
=============================================================================
