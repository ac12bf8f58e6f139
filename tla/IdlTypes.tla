------------------------------ MODULE IdlTypes ------------------------------
(***************************************************************************)
(* The types of Djinni's interface language, and the shape of the tables   *)
(* that describe what crosses a language border: the declarations of an    *)
(* IDL file (TestSuiteIdl) and the glue that is generated from them for    *)
(* each target (GlueJni, GlueWasm, GlueObjc, GlueSwiftxx, GlueSwift,       *)
(* GlueC).                                                                 *)
(*                                                                         *)
(* A type is a tuple: its name and its parameters.  In an IDL table it is  *)
(* the type that is declared; in a glue table it is the converter that the *)
(* glue calls, the one class template per builtin that every support       *)
(* library has (Marshal.hpp, djinni_wasm.hpp, DJIMarshal+Private.h,        *)
(* DJMarshal.swift, djinni_c_translators.hpp).                             *)
(***************************************************************************)
EXTENDS Naturals, Sequences

Scalars == {"Bool", "I8", "I16", "I32", "I64", "F32", "F64", "String", "WString",
            "Binary", "Date", "DataRef", "DataView"}

Bool == <<"Bool">>
I8 == <<"I8">>
I16 == <<"I16">>
I32 == <<"I32">>
I64 == <<"I64">>
F32 == <<"F32">>
F64 == <<"F64">>
String == <<"String">>
WString == <<"WString">>
Binary == <<"Binary">>
Date == <<"Date">>
DataRef == <<"DataRef">>
DataView == <<"DataView">>
Void == <<"Void">>

Optional(t) == <<"Optional", t>>
List(t) == <<"List", t>>
Set(t) == <<"Set", t>>
Array(t) == <<"Array", t>>
Map(k, v) == <<"Map", k, v>>
Future(t) == <<"Future", t>>
Provider(t) == <<"Provider", t>>
Outcome(r, e) == <<"Outcome", r, e>>
Duration(rep, unit) == <<"Duration", rep, unit>>
Proto(message) == <<"Proto", message>>
Named(name) == <<"Named", name>>

(***************************************************************************)
(* Declarations.  Fields and parameters are pairs of a name and a type;    *)
(* names are spelled as in the IDL, whatever the target's ident style.     *)
(***************************************************************************)
Record(fields) == [kind |-> "record", fields |-> fields]
Enum(options) == [kind |-> "enum", options |-> options]
Flags(options) == [kind |-> "flags", options |-> options]

AnyTarget == {"cpp", "jni", "wasm", "objc", "swift", "c"}
M(name, params, ret) == [name |-> name, params |-> params, ret |-> ret, targets |-> AnyTarget]
MFor(targets, name, params, ret) ==
    [name |-> name, params |-> params, ret |-> ret, targets |-> targets]

\* calls: what the target may call in C++.  proxied: what C++ may call in the
\* target, the methods of the generated proxy.
Interface(calls, proxied) == [kind |-> "interface", calls |-> calls, proxied |-> proxied]
CppOnly(calls) == Interface(calls, <<>>)
ForeignOnly(proxied) == Interface(<<>>, proxied)
Both(methods) == Interface(methods, methods)

MethodNamed(methods, name) == CHOOSE i \in DOMAIN methods : methods[i].name = name
Has(methods, name) == \E i \in DOMAIN methods : methods[i].name = name
=============================================================================
