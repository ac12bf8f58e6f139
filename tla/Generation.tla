----------------------------- MODULE Generation -----------------------------
(***************************************************************************)
(* A whole run of the generator: Compiler up to the Spec, Resolver, and    *)
(* then generate() of src/source/generator.scala, which calls the back     *)
(* ends in a fixed order, each for one declaration after the other.        *)
(* FileWriting has what becomes of the files they hand to createFile().    *)
(***************************************************************************)
EXTENDS FileWriting, JavaBackEnds, ObjcBackEnds, WebBackEnds, NativeBackEnds

CONSTANT Inputs(_, _)   \* bound: what the files of an idl may contain, and settings

generationVars == <<program, settings>>
allVars == <<vars, writingVars, generationVars>>

BackEnds == <<"cpp", "java", "jni", "objc", "objcpp", "bridging", "wasm", "valdi", "c",
              "ts", "valdi_ts", "swift", "swiftxx", "yaml">>

InternDecls == SelectSeq(program, LAMBDA d : d.as = "intern")
Interfaces == {d.name : d \in {x \in Range(InternDecls) : x.kind = "interface"}}

\* One declaration (0: all of them) for one back end.  TypeScript and YAML
\* have a generate() of their own; two others a generateModule().
Jobs ==
  LET ofEach(b) == [i \in DOMAIN InternDecls |-> [backEnd |-> b, decl |-> i]]
      ofAll(b) == <<[backEnd |-> b, decl |-> 0]>>
      of(b) == CASE b \in {"ts", "valdi_ts", "yaml"} -> ofAll(b)
                 [] b \in {"java", "jni"} -> ofEach(b) \o ofAll(b)
                 [] OTHER -> ofEach(b)
  IN FlattenSeq([k \in DOMAIN BackEnds |-> IF BackEnds[k] \in settings.backEnds THEN of(BackEnds[k]) ELSE <<>>])

-----------------------------------------------------------------------------
(* YamlGenerator.scala: a manifest by which other programs use the types.  *)

\* The headers that the sections name: those of C++, Java and Objective-C are
\* always written, under the name and prefix of a type that is not extended.
\* The sections of ts and swift name modules.
AlwaysInYaml == {"cpp", "jni", "objc", "objcpp"}
YamlHeaders(d) ==
  LET sections == AlwaysInYaml \union settings.backEnds IN
  {<<b, d.name, "hpp">> : b \in {"cpp", "jni", "wasm", "valdi", "swiftxx"} \intersect sections}
  \union {<<b, d.name, "h">> : b \in {"objc", "c"} \intersect sections}
  \union {<<"objcpp", d.name \o "+Private", "h">>}

\* One file for each declaration (the code sorts them by name).
YamlFiles == [i \in DOMAIN InternDecls |->
               [File("yaml", InternDecls[i].name, "yaml") EXCEPT !.includes = YamlHeaders(InternDecls[i])]]

DeclFiles(b, d) ==
  CASE b = "cpp" -> CppFiles(d)
    [] b = "java" -> JavaFiles(d)
    [] b = "jni" -> JniFiles(d)
    [] b = "objc" -> ObjcFiles(d)
    [] b = "objcpp" -> ObjcppFiles(d)
    [] b = "bridging" -> <<>>
    [] b = "wasm" -> WasmFiles(d)
    [] b = "valdi" -> ValdiFiles(d)
    [] b = "c" -> CFiles(d)
    [] b = "swift" -> SwiftFiles(d)
    [] b = "swiftxx" -> SwiftxxFiles(d)

WholeFiles(b) ==
  CASE b = "java" -> JavaModule
    [] b = "jni" -> JniModule(Interfaces)
    [] b \in {"ts", "valdi_ts"} -> TsFiles(b, InternDecls)
    [] b = "yaml" -> YamlFiles

JobFiles(j) == IF j.decl = 0 THEN WholeFiles(j.backEnd) ELSE DeclFiles(j.backEnd, InternDecls[j.decl])

\* The calls of createFile() that the jobs make, one after the other.  (A
\* value that is used more than once is bound, so that TLC evaluates it once.)
CallsOf(j) ==
  LET files == JobFiles(j) IN
  [k \in DOMAIN files |-> [path |-> files[k].path, throws |-> files[k].throws,
                           for |-> IF j.decl = 0 THEN "all" ELSE "declaration"]]
CallsOfAll(jobs) == {FlattenSeq(calls) : calls \in {[k \in DOMAIN jobs |-> CallsOf(jobs[k])]}}
Plans == UNION {CallsOfAll(jobs) : jobs \in {Jobs}}

-----------------------------------------------------------------------------
GenerationInit ==
  /\ CompilerInit /\ WritingInit
  /\ program = <<>> /\ settings = <<>>

CompileIdl == (ParseArguments \/ Parse \/ ApplyFlags) /\ UNCHANGED <<writingVars, generationVars>>

\* The declarations of the files, in the order of the list.
Declared(entry, decls) ==
  [k \in DOMAIN decls |->
     [decls[k] EXCEPT !.as = IF entry.as # "manifest" THEN entry.as
                               ELSE IF decls[k].kind = "protobuf" THEN "protobuf" ELSE "extern"]]
Program(contents) == FlattenSeq([k \in DOMAIN idl |-> Declared(idl[k], contents[idl[k].file])])

\* (The back ends are made for a program that was resolved.)
ResolveProgram ==
  /\ Resolve
  /\ \E input \in Inputs(idl, spec') :
       /\ program' = Program(input.contents)
       /\ settings' = [input.settings EXCEPT
                         !.backEnds = (@ \ {"cpp"}) \union (IF spec'.cppOut # Unset THEN {"cpp"} ELSE {})]
       /\ skip' = input.skip
  /\ CASE ResolveVerdict' = "ok" -> stage' = "generate" /\ plan' \in Plans'
       [] OTHER -> stage' = "ended" /\ status' = ResolveVerdict' /\ plan' = <<>>
  /\ next' = 1
  /\ UNCHANGED <<listed, written, inventory>>

WriteFiles == Writing /\ UNCHANGED generationVars

GenerationNext == CompileIdl \/ ResolveProgram \/ WriteFiles

GenerationSpec == GenerationInit /\ [][GenerationNext]_allVars

-----------------------------------------------------------------------------
(* Properties *)

Output == UNION {Range(JobFiles(j)) : j \in Range(Jobs)}

\* The bridging header is not made by createFile(), nor listed.
Bridging == IF "bridging" \in settings.backEnds
            THEN {[File("objc", "Bridging", "h") EXCEPT !.includes = {BridgingImport(d) : d \in Range(InternDecls)}]}
            ELSE {}

\* The user's halves of the extended records, and the headers of other
\* programs' types.
Handwritten ==
  LET extended(lang) == {d \in Range(InternDecls) :
                           d.kind = "record" /\ lang \in d.ext \intersect settings.backEnds} IN
  {[File(settings.cppExtDir, d.name, "hpp") EXCEPT
      !.includes = {<<"cpp", d.name \o "_base", "hpp">>}, !.provides = {<<"cpp", d.name>>}] : d \in extended("cpp")}
  \union {[File(settings.objcExtDir, d.name, "h") EXCEPT
      !.includes = {<<"objc", d.name \o "_base", "h">>}, !.provides = {<<"objc", d.name>>}] : d \in extended("objc")}
External == {[File("extern", n, "hpp") EXCEPT !.provides = {<<b, n>> : b \in Range(BackEnds)}] :
               n \in {m \in Names : ~Intern(m)}}

AllFiles == Output \union Bridging \union Handwritten \union External

\* What a file includes, directly or through others.
RECURSIVE Grow(_, _)
Grow(paths, includes) ==
  LET more == paths \union UNION {includes[p] : p \in paths \intersect DOMAIN includes} IN
  IF more = paths THEN paths ELSE Grow(more, includes)

\* The types that each file sees in full.  #pragma once: not those of a file
\* that includes it in turn.
Seen(files) ==
  LET includes == [p \in {f.path : f \in files} |-> UNION {f.includes : f \in {x \in files : x.path = p}}]
      closure == [p \in DOMAIN includes |-> Grow(includes[p], includes)]
  IN [f \in files |->
        f.provides \union UNION {g.provides : g \in {x \in files : /\ x.path \in closure[f.path]
                                                               /\ f.path \notin closure[x.path]}}]

-----------------------------------------------------------------------------
(* What the generator accepts and does not handle; README.md has each case. *)

Uses(d) == MDefs(FieldTypes(d) \union MethodTypes(d) \union ConstTypes(d))

\* Declarations of the kinds given that use each other.
UsedWith(n, kinds) ==
  LET uses == [m \in {x.name : x \in Range(InternDecls)} |-> {k \in Uses(Decl(m)) \ {m} : Kind(k) \in kinds}]
  IN {m \in Grow({n}, uses) \ {n} : n \in Grow({m}, uses)}

UnhandledField(d, t) ==
  \/ KindOf(t) = "protobuf" /\ d.deriving \intersect {"eq", "ord"} # {}
  \/ settings.parcelable /\ "parcelable" \in d.deriving /\ Kind(Unwrapped(t).base) \in {"array", "protobuf"}

Unhandled(d) ==
  LET used == FieldTypes(d) \union MethodTypes(d) IN
  \/ HasParam(used, d)
  \/ ConstCastFails(d)
  \/ MaybeMoveFails(used)
  \/ \E t \in FieldTypes(d) : UnhandledField(d, t)
  \/ \E t \in UNION {Within(u) : u \in used} :
       t.base # "optional" /\ \E a \in ArgumentsOf(t) : ProtobufWithout("objc", a.base)

\* Some back ends include the header of an extended record under the name or
\* prefix of the generated ones.
MisnamedExtension(d) ==
  \/ "objc" \in d.ext /\ "yaml" \in settings.backEnds
  \/ /\ "cpp" \in d.ext /\ settings.cppExtDir # "cpp"
     /\ {"wasm", "valdi", "c", "swiftxx", "yaml"} \intersect settings.backEnds # {}
  \/ /\ "objc" \in d.ext /\ settings.objcExtDir # "objc"
     /\ "bridging" \in settings.backEnds

IncompleteOutput(d) ==
  \/ "optional" \in ConstOwners(d)
  \/ ~settings.omitConstants /\ "wasm" \in settings.backEnds /\ ~(ConstOwners(d) \subseteq Uses(d))
  \/ d.kind = "record" /\ UsedWith(d.name, {"record"}) # {}
  \/ "c" \in settings.backEnds /\ UsedWith(d.name, {"record", "interface"}) # {}
  \/ "yaml" \in settings.backEnds /\ ~(AlwaysInYaml \subseteq settings.backEnds)
  \/ d.kind = "record" /\ MisnamedExtension(d)

\* A static method that some back end declares for its language.
DeclaresStatic(d) ==
  \E m \in Range(d.methods) :
    m.static /\ \/ m.lang \intersect {"java", "objc", "swift"} \intersect settings.backEnds # {}
                \/ "js" \in m.lang /\ "valdi" \in settings.backEnds

Undefined(d) ==
  \/ "optional" \in ConstOwners(d) /\ ~settings.omitConstants /\ "wasm" \in settings.backEnds
  \/ /\ d.kind = "interface" /\ "cpp" \notin d.ext
     /\ DeclaresStatic(d) \/ \E t \in ConstTypes(d) : ~CanBeConstVariable(t)
  \/ "valdi" \in settings.backEnds /\ HasStatic(d) /\ JsStatics(d) = {}
  \/ settings.useOnLoad /\ \E m \in Range(d.methods) : m.static /\ "java" \notin m.lang

-----------------------------------------------------------------------------
\* resolver.scala:105-224, generator.scala:500-521.  What the resolver lets
\* through the back ends can handle: the exceptions that end a run after it
\* are the missing header folder, two files of one path, and those constructs
\* listed above; each of them does end it.
OnlyKnownCrashes ==
  LET unhandled == \E d \in Range(InternDecls) : Unhandled(d) IN
  /\ stage = "ended" /\ status = "aborted" /\ next > 0 /\ ResolveVerdict = "ok" =>
       \/ HeaderFolderMissing
       \/ \E p, q \in DOMAIN listed : p # q /\ SamePath(listed[p], listed[q])
       \/ unhandled
  /\ Written /\ {"java", "jni", "objc"} \subseteq settings.backEnds => ~unhandled

SelfContained ==
  LET files == AllFiles
      seen == Seen(files)
  IN \A f \in files : f.includes \subseteq {g.path : g \in files} /\ f.needs \subseteq seen[f]

\* docs/djinni_generation_config.md:57-61.  Every header that a generated file
\* names is generated, the user's or external, and shows the file the full
\* definition of each type it needs; except for the declarations listed above,
\* with any of which it is not so.
OutputSelfContained ==
  Written /\ "cpp" \in settings.backEnds =>
    (SelfContained <=> \A d \in Range(InternDecls) : ~IncompleteOutput(d))

UserStatics == UNION {{UserStatic(d, k) : k \in DOMAIN d.methods \ NonStatics(d)} : d \in Range(InternDecls)}
Defined == UNION {f.defines : f \in Output} \union UserStatics

\* A function that generated code declares or calls is defined by some back
\* end, or is a static method of the user's C++ class: native methods in JNI,
\* class methods and constants in Objective-C++, the calls of Swift, the shims
\* of Valdi, the constants of C++ and of JavaScript.  Again the declarations
\* listed above are the exceptions.  No function is defined by two files.
DeclaredIsDefined ==
  Written /\ "cpp" \in settings.backEnds =>
    /\ UNION {f.calls : f \in Output} \subseteq Defined <=> \A d \in Range(InternDecls) : ~Undefined(d)
    /\ \A f, g \in Output : f # g => f.defines \intersect g.defines = {}
=============================================================================
