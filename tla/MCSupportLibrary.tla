--------------------------- MODULE MCSupportLibrary ---------------------------
(***************************************************************************)
(* The parts of the support libraries that keep objects, threads or errors *)
(* straight, side by side: the generic proxy cache of a collected language, *)
(* the proxy caches of JavaScript and Swift, DataRefs, the threads of JNI, *)
(* the errors that cross a border, and calls with the values they pass.  A *)
(* behaviour is one of the part that is active; the others stay as they    *)
(* begin.                                                                  *)
(***************************************************************************)
EXTENDS ProxyCache, ScriptJsProxies, ScriptCppProxies, SwiftProxies, DataRefs, JniThreads,
        CrossingErrors

VARIABLES
  active,
  call, callPhase, leg, args, result

callVars == <<call, callPhase, leg, args, result>>

T == INSTANCE IdlTypes

\* Builtin types in the nestings that the converters treat apart.
PlainTypes ==
  {T!I32, T!WString, T!Binary, T!Date, T!Optional(T!String), T!Optional(T!Date),
   T!List(T!Optional(T!I32)), T!List(T!Optional(T!String)), T!Set(T!Date),
   T!Map(T!String, T!Optional(T!Date)), T!Map(T!Date, T!List(T!String)),
   T!Optional(T!Map(T!I64, T!Set(T!String))), T!Outcome(T!List(T!String), T!Date),
   T!Provider(T!Optional(T!F64)), T!Future(T!Optional(T!String))}

Calls == INSTANCE Calls WITH crossing <- call, phase <- callPhase, ValueTypes <- PlainTypes

LibraryInit ==
  /\ active \in {"cache", "js", "cpp", "swift", "data", "jni", "errors", "calls"}
  /\ Init /\ JsInit /\ CppInit /\ SwiftInit /\ DataInit /\ JniInit /\ ErrorsInit
  /\ IF active = "calls" THEN Calls!Init
     ELSE call = "none" /\ callPhase = "none" /\ leg = 1 /\ args = <<>> /\ result = <<"Void">>
  /\ active # "data" => platform = (CHOOSE p \in DataPlatforms : TRUE)
  /\ active # "errors" => errorPlatform = (CHOOSE p \in ErrorPlatforms : TRUE)

CacheAlone ==
  /\ active = "cache"
  /\ UNCHANGED <<active, callVars, jsVars, cppVars, swiftVars, dataVars, jniVars, errorVars>>

LibraryNext ==
  \/ CacheAlone /\ CountedNext
  \/ \E p \in Proxies : CacheAlone /\ Collect(p)
  \/ \E p \in Proxies : CacheAlone /\ Reap(p)
  \/ \E t \in Actors : CacheAlone /\ AllocThrowsWithHandle(t)
  \/ /\ active = "js" /\ JsNext
     /\ UNCHANGED <<active, callVars, vars, cppVars, swiftVars, dataVars, jniVars, errorVars>>
  \/ /\ active = "cpp" /\ CppNext
     /\ UNCHANGED <<active, callVars, vars, jsVars, swiftVars, dataVars, jniVars, errorVars>>
  \/ /\ active = "swift" /\ SwiftNext
     /\ UNCHANGED <<active, callVars, vars, jsVars, cppVars, dataVars, jniVars, errorVars>>
  \/ /\ active = "data" /\ DataNext
     /\ UNCHANGED <<active, callVars, vars, jsVars, cppVars, swiftVars, jniVars, errorVars>>
  \/ /\ active = "jni" /\ JniNext
     /\ UNCHANGED <<active, callVars, vars, jsVars, cppVars, swiftVars, dataVars, errorVars>>
  \/ /\ active = "errors" /\ ErrorsNext
     /\ UNCHANGED <<active, callVars, vars, jsVars, cppVars, swiftVars, dataVars, jniVars>>
  \/ /\ active = "calls" /\ Calls!Next
     /\ UNCHANGED <<active, vars, jsVars, cppVars, swiftVars, dataVars, jniVars, errorVars>>

LibrarySpec ==
  LibraryInit /\ [][LibraryNext]_<<active, vars, jsVars, cppVars,
                                  swiftVars, dataVars, jniVars, errorVars, callVars>>

CallsArrive == active = "calls" => Calls!CallsArrive
ValuesComeBack == active = "calls" => Calls!ValuesComeBack
OnlyMalformedTextFails == active = "calls" => Calls!OnlyMalformedTextFails
=============================================================================
