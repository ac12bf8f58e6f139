------------------------------ MODULE CppBackEnd -----------------------------
(***************************************************************************)
(* What a back end writes, and the C++ one (src/source/CppGenerator.scala, *)
(* CppMarshal.scala, and the parts of generator.scala all of them use).    *)
(*                                                                         *)
(* A generator writes a sequence of files.  Of a file, the model keeps its *)
(* path (directory, name and extension, with every identifier converter    *)
(* taken as the identity), the files it includes, the types it provides in *)
(* full, the types it needs in full, the functions it defines and those it *)
(* calls, and whether writing it ends in an exception.                     *)
(***************************************************************************)
EXTENDS Resolver

\* The options: backEnds (those with an output folder), cppExtDir and
\* objcExtDir (where extended records are included from), jniDir (where the
\* include paths of the JNI module file lead), parcelable, useOnLoad,
\* genProtocol and omitConstants.
VARIABLE settings

\* Where a file's text comes to an exception: "before" the file is created,
\* "inside" its writer, or not at all.
File(dir, name, ext) ==
  [path |-> <<dir, name, ext>>, includes |-> {}, provides |-> {}, needs |-> {},
   defines |-> {}, calls |-> {}, throws |-> "no"]

ThrowsIf(cond, where) == IF cond THEN where ELSE "no"

\* The declarations mentioned by some types, of the kinds given.
Refs(types, kinds) == {n \in Mentioned(types) \intersect Names : Kind(n) \in kinds}
MDefs(types) == {n \in Mentioned(types) \intersect Names : Intern(n)}
Complete == {"record", "enum"}

HasParam(types, d) == Mentioned(types) \intersect d.params # {}

\* The name of the generated half of an extended record.
BaseName(d, lang) == IF d.kind = "record" /\ lang \in d.ext THEN d.name \o "_base" ELSE d.name

\* `asInstanceOf[MDef]` on the type of a record value: the type may be an
\* optional.
RECURSIVE CastFails(_)
CastFails(t) ==
  CASE t.base = "optional" -> KindOf(t.args[1]) = "record"
    [] KindOf(t) = "record" -> \E f \in FieldTypes(Decl(t.base)) : CastFails(f)
    [] OTHER -> FALSE
ConstCastFails(d) == \E t \in ConstTypes(d) : CastFails(t)

\* The names that the enum values in a constant are qualified by: that of the
\* type the value is for, which may be an optional.
RECURSIVE OptionOwners(_)
OptionOwners(t) ==
  LET inner == IF t.base = "optional" THEN t.args[1] ELSE t IN
  CASE KindOf(inner) = "enum" -> {t.base}
    [] KindOf(inner) = "record" -> UNION {OptionOwners(f) : f \in FieldTypes(Decl(inner.base))}
    [] OTHER -> {}
ConstOwners(d) == UNION {OptionOwners(t) : t \in ConstTypes(d)}

\* CppMarshal.moveOnly() follows record fields, through optionals only, with
\* no record of where it has been.
Unwrapped(t) == IF t.base = "optional" THEN t.args[1] ELSE t
RECURSIVE MoveOnlyLoops(_, _)
MoveOnlyLoops(t, inside) ==
  LET n == Unwrapped(t).base IN
  /\ Intern(n) /\ Kind(n) = "record"
  /\ n \in inside \/ \E f \in FieldTypes(Decl(n)) : MoveOnlyLoops(f, inside \union {n})
MaybeMoveFails(types) == \E t \in types : MoveOnlyLoops(t, {})

-----------------------------------------------------------------------------
\* CppMarshal.include(): an extended record is the handwritten one.
CppHeader(n) ==
  IF Kind(n) = "record" /\ "cpp" \in Decl(n).ext THEN <<settings.cppExtDir, n, "hpp">> ELSE <<"cpp", n, "hpp">>

\* Extern and protobuf types have a header of their own.
ExternHeader(n) == <<"extern", n, "hpp">>
CppInclude(n) == IF Intern(n) THEN CppHeader(n) ELSE ExternHeader(n)

\* hppReferences(): interfaces are declared forward always, records and enums
\* where forwardDeclareOnly says so.
HppIncludes(types, d, forwardDeclareOnly) ==
  {ExternHeader(n) : n \in {m \in Refs(types, Complete \union {"interface", "protobuf"}) : ~Intern(m)}}
  \union IF forwardDeclareOnly THEN {}
         ELSE {CppInclude(n) : n \in {m \in MDefs(types) : Kind(m) \in Complete} \ {d.name}}

\* cppReferences(): what was only declared in the header.
CppIncludes(types, d) ==
  {CppInclude(n) : n \in {m \in MDefs(types) : Kind(m) \in Complete} \ {d.name}}

NonStatics(d) == {i \in DOMAIN d.methods : ~d.methods[i].static}

\* A static C++ method, which the user of the interface implements.
UserStatic(d, i) == <<"static", d.name, i>>

NonConstexpr(d) == {i \in DOMAIN d.consts : KindOf(d.consts[i]) \notin {"i32", "bool"}}

CppConstants(d) == {<<"cpp const", d.name, i>> : i \in NonConstexpr(d)}
Operators(d) == {<<"cpp operator", d.name, op>> : op \in d.deriving \intersect {"eq", "ord"}}

CppEnum(d) == <<[File("cpp", d.name, "hpp") EXCEPT !.provides = {<<"cpp", d.name>>}]>>

CppRecord(d) ==
  LET used == FieldTypes(d) \union ConstTypes(d)
      name == BaseName(d, "cpp")
      header == [File("cpp", name, "hpp") EXCEPT
                   !.includes = HppIncludes(used, d, FALSE),
                   !.provides = {<<"cpp", name>>},
                   !.needs = {<<"cpp", n>> : n \in Refs(used, Complete) \ {d.name}},
                   !.calls = CppConstants(d) \union Operators(d)]
      body == [File("cpp", name, "cpp") EXCEPT
                 !.includes = {<<"cpp", name, "hpp">>}
                                \union (IF "cpp" \in d.ext THEN {CppHeader(d.name)} ELSE {}),
                 !.needs = {<<"cpp", n>> : n \in ConstOwners(d)},
                 !.defines = CppConstants(d) \union Operators(d),
                 !.throws = ThrowsIf(ConstCastFails(d), "inside")]
  IN <<header>> \o IF d.consts # <<>> \/ Operators(d) # {} THEN <<body>> ELSE <<>>

CppInterface(d) ==
  LET used == MethodTypes(d) \union ConstTypes(d)
      header == [File("cpp", d.name, "hpp") EXCEPT
                   !.includes = HppIncludes(used, d, TRUE),
                   !.provides = {<<"cpp", d.name>>},
                   !.calls = CppConstants(d)]
      body == [File("cpp", d.name, "cpp") EXCEPT
                 !.includes = {<<"cpp", d.name, "hpp">>} \union CppIncludes(used, d),
                 !.needs = {<<"cpp", n>> : n \in Refs(ConstTypes(d), Complete) \union ConstOwners(d)},
                 !.defines = CppConstants(d),
                 !.throws = ThrowsIf(ConstCastFails(d), "inside")]
  IN <<header>> \o IF d.consts # <<>> THEN <<body>> ELSE <<>>

CppFiles(d) ==
  CASE d.kind = "enum" -> CppEnum(d)
    [] d.kind = "record" -> CppRecord(d)
    [] d.kind = "interface" -> CppInterface(d)
=============================================================================
