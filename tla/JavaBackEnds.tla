---------------------------- MODULE JavaBackEnds ----------------------------
(***************************************************************************)
(* The Java back end and the JNI one, whose C++ functions implement the    *)
(* native methods of the Java classes (src/source/JavaGenerator.scala,     *)
(* JNIGenerator.scala and their marshals).                                 *)
(***************************************************************************)
EXTENDS CppBackEnd

\* Mutant: equals() has no case for binary fields.
JavaEqTypesNoBinary == Generic \union {"i32", "bool", "string", "date", "record", "enum"}

\* Field types that the derived methods handle: equals(), hashCode() and
\* compareTo() match on the type of each field, and the rest is "Unreachable".
JavaEqTypes == Generic \union {"i32", "bool", "string", "date", "binary", "record", "enum"}
JavaOrdTypes == {"i32", "bool", "string", "date", "record", "enum"}

JavaParcelTypes == {"i32", "bool", "string", "date", "binary", "record", "enum", "list", "set", "map"}

JavaDerivingThrows(d) ==
  \E t \in FieldTypes(d) :
    \/ "eq" \in d.deriving /\ KindOf(t) \notin JavaEqTypes
    \/ "ord" \in d.deriving /\ KindOf(t) \notin JavaOrdTypes
    \/ /\ settings.parcelable /\ "parcelable" \in d.deriving
       /\ Kind(Unwrapped(t).base) \notin JavaParcelTypes

JavaStatics(d) == {i \in DOMAIN d.methods : d.methods[i].static /\ "java" \in d.methods[i].lang}

\* The native methods of the class and of its CppProxy.
JavaNatives(d) ==
  {<<"native", d.name, i>> : i \in JavaStatics(d)}
  \union (IF "cpp" \in d.ext THEN {<<"native", d.name, i>> : i \in NonStatics(d) \union {0}} ELSE {})
NativeDestroy(d) == <<"native", d.name, 0>>

JavaEnum(d) == <<[File("java", d.name, "java") EXCEPT !.provides = {<<"java", d.name>>}]>>

JavaRecord(d) ==
  <<[File("java", BaseName(d, "java"), "java") EXCEPT
       !.provides = {<<"java", BaseName(d, "java")>>},
       !.throws = ThrowsIf(ConstCastFails(d) \/ JavaDerivingThrows(d), "inside")]>>

JavaInterface(d) ==
  <<[File("java", d.name, "java") EXCEPT
       !.provides = {<<"java", d.name>>},
       !.calls = JavaNatives(d)
                 \union (IF settings.useOnLoad /\ JavaNatives(d) # {} THEN {<<"class", "Module">>} ELSE {}),
       !.throws = ThrowsIf(ConstCastFails(d), "inside")]>>

JavaFiles(d) ==
  CASE d.kind = "enum" -> JavaEnum(d)
    [] d.kind = "record" -> JavaRecord(d)
    [] d.kind = "interface" -> JavaInterface(d)

ModuleLoader == <<"native", "Module", 0>>

\* generateModule(): the class that loads the native methods.
JavaModule ==
  IF settings.useOnLoad
  THEN <<[File("java", "Module", "java") EXCEPT !.provides = {<<"java", "Module">>},
                                                !.calls = {ModuleLoader},
                                                !.defines = {<<"class", "Module">>}]>>
  ELSE <<>>

-----------------------------------------------------------------------------
(* JNI *)

\* JNIRefs: the C++ header of the type itself, extended or not, and the
\* helpers of the types it mentions.
JniHelper(n) == IF Intern(n) THEN <<"jni", n, "hpp">> ELSE ExternHeader(n)
JniOwnHeader(d) == CppHeader(d.name)
JniHelpers(types) == {JniHelper(n) : n \in Mentioned(types) \intersect Names}
JniNeeds(types) == {<<"jni", n>> : n \in MDefs(types)} \union {<<"cpp", n>> : n \in MDefs(types)}

JniEnum(d) ==
  <<[File("jni", d.name, "hpp") EXCEPT
       !.includes = {JniOwnHeader(d)}, !.provides = {<<"jni", d.name>>}, !.needs = {<<"cpp", d.name>>}]>>

\* writeJniFiles(): a template is written to the header alone.
JniFilePair(d, types, throws, defined, called) ==
  LET header == [File("jni", d.name, "hpp") EXCEPT
                   !.includes = {JniOwnHeader(d)},
                   !.provides = {<<"jni", d.name>>},
                   !.needs = {<<"cpp", d.name>>}]
      body == [File("jni", d.name, "cpp") EXCEPT
                 !.includes = {<<"jni", d.name, "hpp">>} \union JniHelpers(types),
                 !.needs = JniNeeds(types),
                 !.defines = defined, !.calls = called,
                 !.throws = ThrowsIf(throws, "inside")]
  IN IF d.params = {} THEN <<header, body>>
     ELSE <<[header EXCEPT !.includes = @ \union (body.includes \ {header.path}),
                           !.needs = @ \union body.needs,
                           !.defines = body.defines, !.calls = body.calls, !.throws = body.throws]>>

\* A type parameter has no helper: "not applicable".
JniRecord(d) ==
  JniFilePair(d, FieldTypes(d), HasParam(FieldTypes(d), d) \/ MaybeMoveFails(FieldTypes(d)), {}, {})

\* The functions Java calls, with the C++ methods they call in turn.
JniExported(d) == IF "cpp" \in d.ext THEN NonStatics(d) \union JavaStatics(d) ELSE {}

JniBodyThrows(d) ==
  \/ /\ "java" \in d.ext
     /\ \E m \in Range(d.methods) : HasParam(Types(m), d) \/ MaybeMoveFails(Range(m.params))
  \/ \E i \in JniExported(d) : \/ HasParam(Types(d.methods[i]), d)
                               \/ MaybeMoveFails(Range(d.methods[i].ret))

\* With jniUseOnLoad the functions are entered in tables instead of being
\* exported; the table of the static ones has all of them.
JniRecords(d) ==
  IF settings.useOnLoad /\ "cpp" \in d.ext
  THEN {<<"native", d.name, i>> : i \in DOMAIN d.methods \union {0}} ELSE {}

JniInterface(d) ==
  JniFilePair(d, MethodTypes(d) \union ConstTypes(d), JniBodyThrows(d),
    IF "cpp" \in d.ext THEN {NativeDestroy(d)} \union {<<"native", d.name, i>> : i \in JniExported(d)}
    ELSE {},
    JniRecords(d) \union {UserStatic(d, i) : i \in JniExported(d) \ NonStatics(d)})

JniFiles(d) ==
  CASE d.kind = "enum" -> JniEnum(d)
    [] d.kind = "record" -> JniRecord(d)
    [] d.kind = "interface" -> JniInterface(d)

\* generateModule(): the tables of all interfaces are registered.  Their
\* headers are named without jniIncludePrefix.
JniModule(interfaces) ==
  IF settings.useOnLoad
  THEN <<File("jni", "Module", "hpp"),
         [File("jni", "Module", "cpp") EXCEPT
            !.includes = {<<"jni", "Module", "hpp">>} \union {<<settings.jniDir, n, "hpp">> : n \in interfaces},
            !.needs = {<<"jni", n>> : n \in {m \in interfaces : "cpp" \in Decl(m).ext}},
            !.defines = {ModuleLoader}]>>
  ELSE <<>>
=============================================================================
