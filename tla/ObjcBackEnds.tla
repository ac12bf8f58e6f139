---------------------------- MODULE ObjcBackEnds ----------------------------
(***************************************************************************)
(* The Objective-C back end, the Objective-C++ one that joins its classes  *)
(* to C++, and the bridging header for Swift (src/source/                  *)
(* ObjcGenerator.scala, BaseObjcGenerator.scala, ObjcppGenerator.scala,    *)
(* SwiftBridgingHeaderGenerator.scala and their marshals).                 *)
(***************************************************************************)
EXTENDS CppBackEnd

\* ObjcMarshal.references(): an interface is declared forward.
ObjcHeader(n) ==
  IF Kind(n) = "record" /\ "objc" \in Decl(n).ext THEN <<settings.objcExtDir, n, "h">> ELSE <<"objc", n, "h">>
ObjcInclude(n) == IF Intern(n) THEN ObjcHeader(n) ELSE ExternHeader(n)
ObjcIncludes(types) ==
  {ObjcInclude(n) : n \in {m \in Mentioned(types) \intersect Names :
                             Kind(m) \in Complete \/ ~Intern(m)}}

ProtobufWithout(lang, base) == Kind(base) = "protobuf" /\ lang \notin Decl(base).ext

\* toObjcType(), toBoxedParamType(): a type parameter "should not happen", and
\* a message without Objective-C class cannot be a type argument.  The
\* arguments of a declaration of the program are not looked at.
RECURSIVE ObjcTypeFails(_)
ObjcTypeFails(t) ==
  \/ KindOf(t) = "param"
  \/ t.base = "optional" /\ ObjcTypeFails(t.args[1])
  \/ /\ t.base # "optional" /\ ~Intern(t.base)
     /\ \E a \in ArgumentsOf(t) : ProtobufWithout("objc", a.base) \/ ObjcTypeFails(a)

ObjcStatics(d) == {i \in DOMAIN d.methods : d.methods[i].static /\ "objc" \in d.methods[i].lang}
HasStatic(d) == \E m \in Range(d.methods) : m.static

\* canBeConstVariable(): the others are class methods.
CanBeConstVariable(t) ==
  \/ KindOf(t) \in {"i32", "bool", "string"}
  \/ t.base = "optional" /\ t.args[1].base = "string"

ObjcConsts(d, variables) ==
  {<<"objc const", d.name, i>> : i \in {j \in DOMAIN d.consts : CanBeConstVariable(d.consts[j]) = variables}}
ObjcStaticMethods(d) == {<<"objc static", d.name, i>> : i \in ObjcStatics(d)}

ObjcDeclFails(methods) == \E m \in methods : \E t \in Types(m) : ObjcTypeFails(t)

-----------------------------------------------------------------------------
(* Objective-C *)

ObjcEnum(d) == <<[File("objc", d.name, "h") EXCEPT !.provides = {<<"objc", d.name>>}]>>

\* With --objc-gen-protocol the static methods go to a class of their own.
ObjcImplHeader(d) ==
  IF "objc" \notin d.ext /\ settings.genProtocol /\ HasStatic(d)
  THEN <<[File("objc", d.name \o "+Impl", "h") EXCEPT
            !.includes = {<<"objc", d.name, "h">>},
            !.calls = ObjcStaticMethods(d),
            !.throws = ThrowsIf(ObjcDeclFails({d.methods[i] : i \in ObjcStatics(d)}), "inside")]>>
  ELSE <<>>

ObjcInterface(d) ==
  LET inHeader == NonStatics(d) \union IF settings.genProtocol THEN {} ELSE ObjcStatics(d)
      used == MethodTypes(d) \union ConstTypes(d)
      header == [File("objc", d.name, "h") EXCEPT
                   !.includes = ObjcIncludes(used),
                   !.provides = {<<"objc", d.name>>},
                   !.needs = {<<"objc", n>> : n \in Refs(used, Complete) \intersect MDefs(used)},
                   !.calls = ObjcConsts(d, TRUE) \union ObjcConsts(d, FALSE)
                             \union (IF settings.genProtocol THEN {} ELSE ObjcStaticMethods(d)),
                   !.throws = ThrowsIf(ObjcDeclFails({d.methods[i] : i \in inHeader}), "inside")]
      body == [File("objc", d.name, "mm") EXCEPT
                 !.includes = {<<"objc", d.name, "h">>},
                 !.defines = ObjcConsts(d, TRUE)]
  IN ObjcImplHeader(d) \o <<header>> \o IF d.consts # <<>> THEN <<body>> ELSE <<>>

\* The types that isEqual: and compare: handle.
ObjcEqTypes == Generic \union {"i32", "bool", "string", "date", "binary", "record", "enum"}
ObjcOrdTypes == {"i32", "bool", "string", "date", "record", "enum"}
ObjcDerivingThrows(d) ==
  \E t \in FieldTypes(d) : \/ "eq" \in d.deriving /\ KindOf(t) \notin ObjcEqTypes
                           \/ "ord" \in d.deriving /\ KindOf(t) \notin ObjcOrdTypes

ObjcRecord(d) ==
  LET used == FieldTypes(d) \union ConstTypes(d)
      name == BaseName(d, "objc")
      header == [File("objc", name, "h") EXCEPT
                   !.includes = ObjcIncludes(used),
                   !.provides = {<<"objc", name>>},
                   !.needs = {<<"objc", n>> : n \in (Refs(used, Complete) \intersect MDefs(used)) \ {d.name}},
                   !.calls = ObjcConsts(d, TRUE) \union ObjcConsts(d, FALSE),
                   !.throws = ThrowsIf(\E t \in FieldTypes(d) : ObjcTypeFails(t), "inside")]
      body == [File("objc", name, "mm") EXCEPT
                 !.includes = {ObjcHeader(d.name)},
                 !.needs = {<<"objc", name>>},
                 !.defines = ObjcConsts(d, TRUE) \union ObjcConsts(d, FALSE),
                 !.throws = ThrowsIf(ConstCastFails(d) \/ ObjcDerivingThrows(d), "inside")]
  IN <<header, body>>

ObjcFiles(d) ==
  CASE d.kind = "enum" -> ObjcEnum(d)
    [] d.kind = "record" -> ObjcRecord(d)
    [] d.kind = "interface" -> ObjcInterface(d)

-----------------------------------------------------------------------------
(* Objective-C++ *)

\* Mutant: the private headers of extended records are looked for under the
\* name of the record.
PrivateHeaderNoBase(n) == <<"objcpp", n \o "+Private", "h">>

PrivateHeader(n) == <<"objcpp", BaseName(Decl(n), "objc") \o "+Private", "h">>
ObjcppIncludes(types) ==
  {IF Intern(n) THEN PrivateHeader(n) ELSE ExternHeader(n) :
     n \in {m \in Mentioned(types) \intersect Names :
              Kind(m) # "protobuf" \/ "objc" \in Decl(m).ext}}

\* An enum needs no class of its own: djinni::Enum of the two types.
ObjcppNeeds(types) ==
  {<<"objcpp", n>> : n \in {m \in MDefs(types) : Kind(m) # "enum"}}
  \union {<<"cpp", n>> : n \in MDefs(types)}
  \union {<<"objc", n>> : n \in {m \in MDefs(types) : Kind(m) = "enum"}}

ObjcppEnum(d) ==
  <<[File("objcpp", d.name \o "+Private", "h") EXCEPT !.includes = {CppHeader(d.name)}]>>

ObjcppExported(d) == IF "cpp" \in d.ext THEN NonStatics(d) \union ObjcStatics(d) ELSE {}

ObjcppBodyThrows(d) ==
  \/ \E i \in ObjcppExported(d) :
       \/ HasParam(Types(d.methods[i]), d) \/ ObjcDeclFails({d.methods[i]})
       \/ MaybeMoveFails(Range(d.methods[i].ret))
  \/ "cpp" \in d.ext /\ ConstCastFails(d)
  \/ /\ "objc" \in d.ext
     /\ \E m \in Range(d.methods) : HasParam(Types(m), d) \/ MaybeMoveFails(Range(m.params))

ObjcppInterface(d) ==
  LET used == MethodTypes(d) \union ConstTypes(d)
      header == [File("objcpp", d.name \o "+Private", "h") EXCEPT
                   !.includes = {CppHeader(d.name)},
                   !.provides = {<<"objcpp", d.name>>}]
      body == [File("objcpp", d.name \o "+Private", "mm") EXCEPT
                 !.includes = {<<"objc", d.name, "h">>, header.path} \union ObjcppIncludes(used)
                              \union (IF "cpp" \in d.ext /\ settings.genProtocol /\ HasStatic(d)
                                      THEN {<<"objc", d.name \o "+Impl", "h">>} ELSE {}),
                 !.needs = ObjcppNeeds(used) \union {<<"cpp", d.name>>, <<"objc", d.name>>},
                 !.defines = IF "cpp" \in d.ext
                             THEN ObjcStaticMethods(d) \union ObjcConsts(d, FALSE) ELSE {},
                 !.calls = {UserStatic(d, i) : i \in ObjcppExported(d) \ NonStatics(d)},
                 !.throws = ThrowsIf(ObjcppBodyThrows(d), "inside")]
  IN <<header, body>>

ObjcppRecord(d) ==
  LET used == FieldTypes(d) \union ConstTypes(d)
      header == [File("objcpp", BaseName(d, "objc") \o "+Private", "h") EXCEPT
                   !.includes = {ObjcHeader(d.name), CppHeader(d.name)},
                   !.provides = {<<"objcpp", d.name>>}, !.needs = {<<"cpp", d.name>>}]
      body == [File("objcpp", BaseName(d, "objc") \o "+Private", "mm") EXCEPT
                 !.includes = {header.path} \union ObjcppIncludes(used),
                 !.needs = ObjcppNeeds(FieldTypes(d)) \union {<<"objc", d.name>>},
                 !.throws = ThrowsIf(HasParam(FieldTypes(d), d) \/ MaybeMoveFails(FieldTypes(d)), "inside")]
  IN <<header, body>>

ObjcppFiles(d) ==
  CASE d.kind = "enum" -> ObjcppEnum(d)
    [] d.kind = "record" -> ObjcppRecord(d)
    [] d.kind = "interface" -> ObjcppInterface(d)

\* The bridging header, one line for each declaration.
BridgingImport(d) == <<"objc", d.name, "h">>
=============================================================================
