--------------------------- MODULE NativeBackEnds ---------------------------
(***************************************************************************)
(* The C back end (src/source/CGenerator.scala, CTypeResolver.scala), and  *)
(* the Swift one with the C++ functions it calls (SwiftGenerator.scala,    *)
(* SwiftxxGenerator.scala and their marshals).                             *)
(***************************************************************************)
EXTENDS CppBackEnd

\* CTypeResolver.resolve(): a type parameter is "Unsupported"; the arguments
\* of a declaration of the program are not looked at.
RECURSIVE CTypeFails(_)
CTypeFails(t) == \/ KindOf(t) = "param"
                 \/ ~Intern(t.base) /\ \E a \in ArgumentsOf(t) : CTypeFails(a)

\* publicImports: the header of every type, the type itself included.
CPublic(types) ==
  {IF Intern(n) THEN <<"c", n, "h">> ELSE ExternHeader(n) :
     n \in {m \in Mentioned(types) \intersect Names : Kind(m) # "protobuf"}}

\* privateImports: the C++ header of the type, under the include prefix
\* whether or not the record is extended, and what CppMarshal gives.
CPrivate(types, d) == {<<"cpp", d.name, "hpp">>} \union HppIncludes(types, d, FALSE)

\* writeCFilePair().  The types are resolved before a file is created.
CFilePair(d, used) ==
  LET header == [File("c", d.name, "h") EXCEPT
                   !.includes = CPublic(used),
                   !.provides = {<<"c", d.name>>},
                   !.needs = {<<"c", n>> : n \in MDefs(used) \ {d.name}},
                   !.throws = ThrowsIf(\E t \in used : CTypeFails(t), "before")]
      body == [File("c", d.name, "cpp") EXCEPT
                 !.includes = {header.path} \union CPrivate(used, d),
                 !.needs = {<<"cpp", d.name>>}
                           \union {<<"cpp", n>> : n \in Refs(used, Complete) \intersect MDefs(used)}]
  IN <<header, body>>

CEnum(d) == <<[File("c", d.name, "h") EXCEPT !.provides = {<<"c", d.name>>}],
              [File("c", d.name, "cpp") EXCEPT !.includes = {<<"c", d.name, "h">>}]>>

CRecord(d) ==
  LET pair == CFilePair(d, FieldTypes(d) \union ConstTypes(d))
  IN <<pair[1], [pair[2] EXCEPT !.calls = CppConstants(d)]>>

\* The proxy for an object implemented in C passes the parameters on.
CProxyThrows(d) == "cc" \in d.ext /\ \E i \in NonStatics(d) : MaybeMoveFails(Range(d.methods[i].params))

\* A function for every method, static ones of any language among them.
CStatics(d) == DOMAIN d.methods \ NonStatics(d)
CInterface(d) ==
  LET pair == CFilePair(d, MethodTypes(d) \union ConstTypes(d))
  IN <<pair[1],
       [pair[2] EXCEPT
          !.calls = CppConstants(d) \union {UserStatic(d, i) : i \in CStatics(d)},
          !.throws = ThrowsIf(CProxyThrows(d), "inside")]>>

CFiles(d) ==
  CASE d.kind = "enum" -> CEnum(d)
    [] d.kind = "record" -> CRecord(d)
    [] d.kind = "interface" -> CInterface(d)

-----------------------------------------------------------------------------
(* Swift *)

SwiftStatics(d) == {i \in DOMAIN d.methods : d.methods[i].static /\ "swift" \in d.methods[i].lang}

\* The C++ functions by which Swift calls C++, and the factory of the C++
\* object that stands for a Swift one.
SwiftxxCalls(d, methods) == {<<"swiftxx", d.name, i>> : i \in methods}
SwiftProxy(d) == <<"swiftxx", d.name, 0>>
CppMethods(d) == IF "cpp" \in d.ext THEN NonStatics(d) ELSE {}

MethodsMention(d, methods) == \E i \in methods : HasParam(Types(d.methods[i]), d)

\* Every declaration has a public file and one of marshallers.
SwiftFiles(d) ==
  LET public == [File("swift", d.name, "swift") EXCEPT
                   !.provides = {<<"swift", d.name>>},
                   !.throws = ThrowsIf(d.kind = "record" /\ ConstCastFails(d), "inside")]
      called == CppMethods(d) \union SwiftStatics(d)
      marshalled == called \union IF "swift" \in d.ext THEN NonStatics(d) ELSE {}
      private == [File("swift", d.name \o "+Private", "swift") EXCEPT
                    !.calls = SwiftxxCalls(d, called)
                              \union (IF d.kind = "interface" /\ "swift" \in d.ext THEN {SwiftProxy(d)} ELSE {}),
                    !.throws = ThrowsIf(\/ HasParam(FieldTypes(d), d)
                                        \/ MethodsMention(d, marshalled), "inside")]
  IN <<public, private>>

\* Mutant: the functions are written for any static method of an interface in
\* C++ but no method of the objects.
SwiftxxExportedStatics(d) == IF "cpp" \in d.ext THEN SwiftStatics(d) ELSE {}

SwiftxxExported(d) == IF "cpp" \in d.ext THEN NonStatics(d) \union SwiftStatics(d) ELSE {}

\* SwiftRefs: the C++ header of the type, under the include prefix.
SwiftxxPair(d, used) ==
  <<[File("swiftxx", d.name, "hpp") EXCEPT
       !.includes = {<<"cpp", d.name, "hpp">>}, !.provides = {<<"swiftxx", d.name>>},
       !.needs = {<<"cpp", d.name>>}],
    [File("swiftxx", d.name, "cpp") EXCEPT
       !.includes = {<<"swiftxx", d.name, "hpp">>}
                    \union {IF Intern(n) THEN <<"swiftxx", n, "hpp">> ELSE ExternHeader(n) :
                              n \in {m \in Mentioned(used) \intersect Names : Kind(m) # "protobuf"}},
       !.needs = {<<"swiftxx", n>> : n \in MDefs(used)}]>>

SwiftxxRecord(d) ==
  LET pair == SwiftxxPair(d, FieldTypes(d))
  IN <<pair[1],
       [pair[2] EXCEPT !.throws = ThrowsIf(HasParam(FieldTypes(d), d) \/ MaybeMoveFails(FieldTypes(d)),
                                           "inside")]>>

SwiftxxInterface(d) ==
  LET pair == SwiftxxPair(d, MethodTypes(d) \union ConstTypes(d))
      overridden == IF "swift" \in d.ext THEN NonStatics(d) ELSE {}
  IN <<pair[1],
       [pair[2] EXCEPT
          !.defines = SwiftxxCalls(d, SwiftxxExported(d))
                      \union (IF "swift" \in d.ext THEN {SwiftProxy(d)} ELSE {}),
          !.calls = {UserStatic(d, i) : i \in SwiftxxExported(d) \ NonStatics(d)},
          !.throws = ThrowsIf(
             \/ MethodsMention(d, SwiftxxExported(d) \union overridden)
             \/ \E i \in SwiftxxExported(d) : MaybeMoveFails(Range(d.methods[i].ret))
             \/ \E i \in overridden : MaybeMoveFails(Range(d.methods[i].params)), "inside")]>>

SwiftxxFiles(d) ==
  CASE d.kind = "enum" -> SwiftxxPair(d, {})
    [] d.kind = "record" -> SwiftxxRecord(d)
    [] d.kind = "interface" -> SwiftxxInterface(d)
=============================================================================
