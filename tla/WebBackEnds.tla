----------------------------- MODULE WebBackEnds ----------------------------
(***************************************************************************)
(* The back ends for JavaScript: embind (src/source/WasmGenerator.scala),  *)
(* Valdi (ComposerGenerator.scala) and the TypeScript declarations of      *)
(* either (TsGenerator.scala).                                             *)
(***************************************************************************)
EXTENDS CppBackEnd

JsStatics(d) == {i \in DOMAIN d.methods : d.methods[i].static /\ "js" \in d.methods[i].lang}

\* WasmRefs, ValdiRefs: the C++ header of the type, under the include prefix
\* whether or not the record is extended, and the helpers of what it mentions.
WebOwnHeader(d) == <<"cpp", d.name, "hpp">>
WebHelpers(dir, types) ==
  {IF Intern(n) THEN <<dir, n, "hpp">> ELSE ExternHeader(n) :
     n \in {m \in Mentioned(types) \intersect Names : Kind(m) # "protobuf"}}
WebNeeds(dir, types) ==
  {<<dir, n>> : n \in MDefs(types)} \union {<<"cpp", n>> : n \in Refs(types, Complete) \intersect MDefs(types)}

WebHeader(dir, d) ==
  [File(dir, d.name, "hpp") EXCEPT
     !.includes = {WebOwnHeader(d)}, !.provides = {<<dir, d.name>>}, !.needs = {<<"cpp", d.name>>}]
WebBody(dir, d, used) ==
  [File(dir, d.name, "cpp") EXCEPT
     !.includes = {<<dir, d.name, "hpp">>} \union WebHelpers(dir, used), !.needs = WebNeeds(dir, used)]

\* A record is converted field by field, both ways.
RecordHelperThrows(d) == HasParam(FieldTypes(d), d) \/ MaybeMoveFails(FieldTypes(d))

\* The methods a C++ stub is written for, and those a proxy overrides.
StubsThrow(d, methods) ==
  \E i \in methods : HasParam(Types(d.methods[i]), d) \/ MaybeMoveFails(Range(d.methods[i].ret))
ProxyThrows(d) ==
  \E i \in NonStatics(d) :
    HasParam(Types(d.methods[i]), d) \/ MaybeMoveFails(Range(d.methods[i].params))

-----------------------------------------------------------------------------
(* embind *)

\* staticInitializeConstants(), called for the enums of the constants first.
WasmInit(n) == <<"wasm init", n>>
WasmHasInit(d) == ~settings.omitConstants /\ (d.kind = "enum" \/ d.consts # <<>>)

WasmConstants(file, d) ==
  IF WasmHasInit(d)
  THEN [file EXCEPT !.defines = @ \union {WasmInit(d.name)},
                    !.needs = @ \union {<<"wasm", n>> : n \in ConstOwners(d) \ {d.name}},
                    !.calls = @ \union {WasmInit(n) : n \in ConstOwners(d)},
                    !.throws = IF @ = "no" THEN ThrowsIf(ConstCastFails(d), "inside") ELSE @]
  ELSE file

WasmHeader(d) ==
  [WebHeader("wasm", d) EXCEPT !.calls = IF WasmHasInit(d) THEN {WasmInit(d.name)} ELSE {}]

WasmEnum(d) ==
  <<WasmHeader(d)>> \o IF settings.omitConstants THEN <<>>
                       ELSE <<WasmConstants(WebBody("wasm", d, {}), d)>>

WasmRecord(d) ==
  <<WasmHeader(d),
    WasmConstants([WebBody("wasm", d, FieldTypes(d) \union ConstTypes(d)) EXCEPT
                     !.throws = ThrowsIf(RecordHelperThrows(d), "inside")], d)>>

WasmStubs(d) == IF "cpp" \in d.ext THEN NonStatics(d) \union JsStatics(d) ELSE {}

WasmInterface(d) ==
  <<WasmHeader(d),
    WasmConstants([WebBody("wasm", d, MethodTypes(d) \union ConstTypes(d)) EXCEPT
                     !.calls = {UserStatic(d, i) : i \in WasmStubs(d) \ NonStatics(d)},
                     !.throws = ThrowsIf(StubsThrow(d, WasmStubs(d)) \/ ("js" \in d.ext /\ ProxyThrows(d)),
                                         "inside")], d)>>

WasmFiles(d) ==
  CASE d.kind = "enum" -> WasmEnum(d)
    [] d.kind = "record" -> WasmRecord(d)
    [] d.kind = "interface" -> WasmInterface(d)

-----------------------------------------------------------------------------
(* Valdi *)

ValdiEnum(d) == <<WebHeader("valdi", d)>>

ValdiRecord(d) ==
  <<WebHeader("valdi", d),
    [WebBody("valdi", d, FieldTypes(d) \union ConstTypes(d)) EXCEPT
       !.throws = ThrowsIf(RecordHelperThrows(d), "inside")]>>

\* djinniInitStaticMethods() is declared for any static method and defined
\* for those of JavaScript; it binds shims, which exist for C++ interfaces.
ValdiInit(d) == <<"valdi statics", d.name>>
ValdiShims(d, methods) == {<<"valdi shim", d.name, i>> : i \in methods}

ValdiInterface(d) ==
  LET stubs == IF "cpp" \in d.ext THEN NonStatics(d) \union JsStatics(d) ELSE {}
      schema == NonStatics(d) \union JsStatics(d)
  IN <<[WebHeader("valdi", d) EXCEPT
          !.calls = IF \E m \in Range(d.methods) : m.static THEN {ValdiInit(d)} ELSE {}],
       [WebBody("valdi", d, MethodTypes(d) \union ConstTypes(d)) EXCEPT
          !.calls = ValdiShims(d, JsStatics(d)) \union {UserStatic(d, i) : i \in stubs \ NonStatics(d)},
          !.defines = ValdiShims(d, stubs) \union (IF JsStatics(d) # {} THEN {ValdiInit(d)} ELSE {}),
          !.throws = ThrowsIf(\/ StubsThrow(d, stubs)
                              \/ \E i \in schema : HasParam(Types(d.methods[i]), d)
                              \/ "js" \in d.ext /\ ProxyThrows(d), "inside")]>>

ValdiFiles(d) ==
  CASE d.kind = "enum" -> ValdiEnum(d)
    [] d.kind = "record" -> ValdiRecord(d)
    [] d.kind = "interface" -> ValdiInterface(d)

-----------------------------------------------------------------------------
(* TypeScript *)

\* TsRefs: what is not in the file itself is imported from its own module.
TsUsed(d) == CASE d.kind = "record" -> FieldTypes(d) \union ConstTypes(d)
               [] d.kind = "interface" -> MethodTypes(d) \union ConstTypes(d)
               [] OTHER -> {}
TsImports(used) ==
  {ExternHeader(n) : n \in {m \in Mentioned(used) \intersect Names :
                              ~Intern(m) /\ (Kind(m) = "protobuf" => "ts" \in Decl(m).ext)}}

\* generate(): one file for all declarations, in the order of the program.
TsFiles(dir, decls) ==
  <<[File(dir, "module", "ts") EXCEPT
       !.includes = TsImports(UNION {TsUsed(d) : d \in Range(decls)}),
       !.provides = {<<dir, d.name>> : d \in Range(decls)},
       !.needs = {<<dir, n>> : n \in MDefs(UNION {TsUsed(d) : d \in Range(decls)})
                                     \union UNION {ConstOwners(d) : d \in Range(decls)}},
       !.throws = ThrowsIf(\E d \in Range(decls) : ConstCastFails(d), "inside")]>>
=============================================================================
