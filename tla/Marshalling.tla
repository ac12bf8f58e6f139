---------------------------- MODULE Marshalling ----------------------------
(***************************************************************************)
(* What a value becomes when it crosses a language border.  The converters *)
(* of the support libraries for the builtin types, and the ones that the   *)
(* glue adds for the declarations of an IDL file (the Glue modules).       *)
(*                                                                         *)
(* A converter of C++ has two directions, fromCpp and toCpp.  A border is  *)
(* crossed in one leg, but for Swift, which has two: C++ values and the    *)
(* AnyValues of the C++ half ("swiftxx"), AnyValues and Swift values       *)
(* ("swift").                                                              *)
(*                                                                         *)
(* Values are tuples: the class and the data.  A scalar's data is an       *)
(* identity, so that a value at the wrong place shows, and its class shows *)
(* a wrong converter.  Text is well formed, except Malformed, bytes of a   *)
(* std::string that are not UTF-8.  A date counts half milliseconds since  *)
(* the epoch.  A record is the sequence of its fields in the order of the  *)
(* declaration, which is the order of the C++ struct and of the generated  *)
(* class; an AnyValue record has the order of its members.                 *)
(***************************************************************************)
EXTENDS IdlTypes, Integers

Idl == INSTANCE TestSuiteIdl
Jni == INSTANCE GlueJni
Wasm == INSTANCE GlueWasm
Objc == INSTANCE GlueObjc
Swiftxx == INSTANCE GlueSwiftxx
Swift == INSTANCE GlueSwift
C == INSTANCE GlueC

Platforms == {"jni", "wasm", "objc", "swift", "c"}
OutLegs == [p \in Platforms \union {"valdi"} |-> IF p = "swift" THEN <<"swiftxx", "swift">> ELSE <<p>>]
InLegs == [p \in Platforms \union {"valdi"} |-> IF p = "swift" THEN <<"swift", "swiftxx">> ELSE <<p>>]

RecordGlue == [jni |-> Jni!Records, wasm |-> Wasm!Records, objc |-> Objc!Records,
               swiftxx |-> Swiftxx!Records, swift |-> Swift!Records, c |-> C!Records]
InterfaceGlue == [jni |-> Jni!Interfaces, wasm |-> Wasm!Interfaces, objc |-> Objc!Interfaces,
                  swiftxx |-> Swiftxx!Interfaces, swift |-> Swift!Interfaces, c |-> C!Interfaces]

None == <<"None">>
Some(v) == <<"Some", v>>
Null == <<"Null">>
Failed == <<"Failed">>
Malformed == <<"String", 0>>
Replaced == <<"String", -1>>

IndexOfName(pairs, name) == CHOOSE i \in DOMAIN pairs : pairs[i][1] = name

\* toward zero, as a duration_cast and the conversions to Int64 and of JavaScript's Date
TowardZero(x, unit) == IF x < 0 THEN -(((-x) \div unit) * unit) ELSE (x \div unit) * unit
Millisecond == 2
Second == 1000 * Millisecond

(***************************************************************************)
(* The scalars, where a support library does more than copy the value.     *)
(***************************************************************************)
\* The codecvt of jniStringFromUTF8 throws a range_error.
JniText(v) == IF v = Malformed THEN Failed ELSE v
JniDate(v) == <<"Date", TowardZero(v[2], Millisecond)>>

\* embind decodes with replacement characters.
WasmText(v) == IF v = Malformed THEN Replaced ELSE v
WasmDate(v) == <<"Date", TowardZero(v[2], Millisecond)>>

ValdiDate(v) == <<"Date", TowardZero(v[2], Millisecond)>>

\* initWithBytes:length:encoding: returns nil.
ObjcText(v) == IF v = Malformed THEN Null ELSE v

SwiftText(v) == IF v = Malformed THEN Replaced ELSE v
SwiftxxDate(v) == <<"Date", TowardZero(v[2], Millisecond)>>
\* Mutant: not to the millisecond.
SwiftDateOfSeconds(v) == <<"Date", 1000 * TowardZero(v[2], Second)>>

\* The count of milliseconds is taken for seconds, in both directions.
SwiftDate(v) == <<"Date", 1000 * v[2]>>
SwiftDateToCpp(v) == <<"Date", TowardZero(v[2], Second) \div 1000>>

\* Mutant: a count of seconds.
CDateOfSeconds(v) == <<"Date", TowardZero(v[2], Second)>>

CDate(v) == <<"Date", TowardZero(v[2], Millisecond)>>

ScalarFromCpp(leg, class, v) ==
    CASE class = "String" /\ leg = "jni" -> JniText(v)
      [] class = "String" /\ leg = "wasm" -> WasmText(v)
      [] class = "String" /\ leg = "objc" -> ObjcText(v)
      [] class = "String" /\ leg = "swift" -> SwiftText(v)
      [] class = "Date" /\ leg = "jni" -> JniDate(v)
      [] class = "Date" /\ leg = "wasm" -> WasmDate(v)
      [] class = "Date" /\ leg = "valdi" -> ValdiDate(v)
      [] class = "Date" /\ leg = "swiftxx" -> SwiftxxDate(v)
      [] class = "Date" /\ leg = "swift" -> SwiftDate(v)
      [] class = "Date" /\ leg = "c" -> CDate(v)
      [] OTHER -> v

ScalarToCpp(leg, class, v) == IF class = "Date" /\ leg = "swift" THEN SwiftDateToCpp(v) ELSE v

(***************************************************************************)
(* The shape of a value.                                                   *)
(***************************************************************************)
Class(t) == CASE t[1] = "WString" -> "String"
              [] t[1] = "Array" -> "List"
              [] OTHER -> t[1]
Collections == {"List", "Set", "Map", "Future", "Provider"}

\* A map is the sequence of its keys and values; a future is what it resolves to
\* and a provider what it returns.
ElementType(t, i) == IF t[1] = "Map" /\ i % 2 = 0 THEN t[3] ELSE t[2]

Collect(class, parts) ==
    IF \E i \in DOMAIN parts : parts[i] = Failed THEN Failed ELSE <<class, parts>>

\* The converters are typed: one meets a value of another type only through wrong glue.
Fits(t, v) ==
    CASE t[1] = "Optional" -> v # Failed
      [] t[1] = "Outcome" -> v[1] \in {"Result", "Error"}
      [] t[1] = "Duration" -> v[1] = "Duration" /\ v[3] = t[3]
      [] t[1] = "Proto" -> v[1] = "Proto" /\ v[3] = t[2]
      [] t[1] = "Named" -> v[1] \in {"Record", "Enum", "Object"} /\ v[3] = t[2]
      [] OTHER -> v[1] = Class(t)

(***************************************************************************)
(* Members by name and by position.  Glue reads the members of a record,   *)
(* or the arguments of a call, by name and passes them on by position; but *)
(* AnyValue members have no name, and fromCpp places the fields by name    *)
(* where the target's record is built that way.                            *)
(***************************************************************************)
ReadsByPosition(dir, leg) == <<dir, leg>> \in {<<"fromCpp", "swift">>, <<"toCpp", "swiftxx">>}
PlacesByName(dir, leg) == dir = "fromCpp" /\ leg \in {"wasm", "objc", "swift", "c"}

\* The place in the source of the member that table entry k converts.
SourceOf(dir, leg, declared, table, k) ==
    IF ReadsByPosition(dir, leg) THEN k ELSE IndexOfName(declared, table[k][1])
\* The table entry that fills place i of the target.
EntryFor(byName, declared, table, i) ==
    IF byName THEN IndexOfName(table, declared[i][1]) ELSE i

\* An enum is a number on the way; JavaScript names it with the table it was given.
OptionsOf(name) == Idl!Enums[name].options
PositionOf(options, o) == CHOOSE i \in DOMAIN options : options[i] = o
WasmOption(dir, name, o) ==
    IF dir = "toCpp" THEN OptionsOf(name)[PositionOf(Wasm!Enums[name].options, o)]
    ELSE Wasm!Enums[name].options[PositionOf(OptionsOf(name), o)]

RECURSIVE FromCpp(_, _, _)

\* Mutant: addObject: without NSNull.
FromCppElementBare(leg, t, v) ==
    LET w == FromCpp(leg, t, v) IN IF leg = "objc" /\ w = Null THEN Failed ELSE w

\* An element of an Objective-C collection: an empty optional becomes NSNull, and
\* any other nil makes addObject: raise.
FromCppElement(leg, t, v) ==
    LET w == FromCpp(leg, t, v) IN IF leg = "objc" /\ w = Null /\ v # None THEN Failed ELSE w

FromCppRecord(leg, name, fields) ==
    LET declared == Idl!Records[name].fields
        table == RecordGlue[leg][name].fields
    IN  IF Len(table) # Len(declared) THEN Failed
        ELSE LET made == [i \in DOMAIN declared |->
                    LET k == EntryFor(PlacesByName("fromCpp", leg), declared, table, i)
                    IN  FromCpp(leg, table[k][2], fields[SourceOf("fromCpp", leg, declared, table, k)])]
             IN  IF \E i \in DOMAIN made : made[i] = Failed THEN Failed ELSE <<"Record", made, name>>

\* The Swift half finds the error of an outcome in the second member of the
\* composite, which a result does not have.
FromCppOutcome(leg, t, v) ==
    LET w == FromCpp(leg, IF v[1] = "Result" THEN t[2] ELSE t[3], v[2])
    IN  IF w = Failed \/ (leg = "swift" /\ v = <<"Result", Null>>) THEN Failed ELSE <<v[1], w>>

FromCpp(leg, t, v) ==
    IF ~Fits(t, v) THEN Failed
    ELSE CASE t[1] = "Optional" ->
                (CASE v = None \/ v = Null -> Null
                   [] v[1] = "Some" -> FromCpp(leg, t[2], v[2])
                   [] OTHER -> FromCpp(leg, t[2], v))
           [] Class(t) \in Collections ->
                Collect(Class(t), [i \in DOMAIN v[2] |-> FromCppElement(leg, ElementType(t, i), v[2][i])])
           [] t[1] = "Outcome" -> FromCppOutcome(leg, t, v)
           [] t[1] = "Named" /\ v[1] = "Record" -> FromCppRecord(leg, t[2], v[2])
           [] t[1] = "Named" /\ v[1] = "Enum" /\ leg = "wasm" ->
                <<"Enum", WasmOption("fromCpp", t[2], v[2]), t[2]>>
           [] OTHER -> ScalarFromCpp(leg, Class(t), v)

RECURSIVE ToCpp(_, _, _)

ToCppRecord(leg, name, fields) ==
    LET declared == Idl!Records[name].fields
        table == RecordGlue[leg][name].fields
    IN  IF Len(table) # Len(declared) THEN Failed
        ELSE LET made == [i \in DOMAIN declared |->
                    ToCpp(leg, table[i][2], fields[SourceOf("toCpp", leg, declared, table, i)])]
             IN  IF \E i \in DOMAIN made : made[i] = Failed THEN Failed ELSE <<"Record", made, name>>

\* Mutant: the error gets the converter of the result.
ToCppOutcomeOfResult(leg, t, v) ==
    LET w == ToCpp(leg, t[2], v[2]) IN IF w = Failed THEN Failed ELSE <<v[1], w>>

\* C marks the side of an outcome and Valdi asks for the error first.  The others
\* look at the result and take null, undefined or void for an error, which they
\* then convert: Java and Objective-C get null for it, JavaScript asserts that it
\* is there, an AnyValue has no such member.
ReadsResultFirst == {"jni", "wasm", "objc", "swiftxx"}
ToCppOutcome(leg, t, v) ==
    LET misread == v = <<"Result", Null>> /\ leg \in ReadsResultFirst
        absent == (leg = "wasm" /\ v[2] = Null) \/ (leg = "swiftxx" /\ misread)
        isError == v[1] = "Error" \/ misread
        w == ToCpp(leg, IF isError THEN t[3] ELSE t[2], v[2])
    IN  IF w = Failed \/ absent THEN Failed ELSE <<IF isError THEN "Error" ELSE "Result", w>>

\* The Swift leg of a toCpp makes AnyValues: an empty optional is void.
ToCpp(leg, t, v) ==
    IF ~Fits(t, v) THEN Failed
    ELSE CASE t[1] = "Optional" ->
                (CASE v = Null -> IF leg = "swift" THEN Null ELSE None
                   [] OTHER -> LET w == ToCpp(leg, t[2], v)
                               IN  IF w = Failed \/ leg = "swift" THEN w ELSE Some(w))
           [] Class(t) \in Collections ->
                Collect(Class(t), [i \in DOMAIN v[2] |-> ToCpp(leg, ElementType(t, i), v[2][i])])
           [] t[1] = "Outcome" -> ToCppOutcome(leg, t, v)
           [] t[1] = "Named" /\ v[1] = "Record" -> ToCppRecord(leg, t[2], v[2])
           [] t[1] = "Named" /\ v[1] = "Enum" /\ leg = "wasm" ->
                <<"Enum", WasmOption("toCpp", t[2], v[2]), t[2]>>
           [] OTHER -> ScalarToCpp(leg, Class(t), v)
=============================================================================
