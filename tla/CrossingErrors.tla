--------------------------- MODULE CrossingErrors ---------------------------
(***************************************************************************)
(* Exceptions across the language boundary, on each platform.              *)
(*                                                                         *)
(* A thread's stack has frames of C++ and of the foreign language in turn. *)
(* A call that ends in an error crosses from one to the other: the glue    *)
(* catches what the callee throws and raises what stands for it in the     *)
(* caller.  Foreign code may keep an error it caught and throw it later.   *)
(***************************************************************************)
EXTENDS Naturals, Sequences

CONSTANTS
  ErrorPlatforms,  \* which of "jni", "wasm", "valdi", "objc", "swift", "c"
  CppErrors,       \* the std::exceptions that C++ code throws
  ForeignErrors,   \* the errors that foreign code throws
  OtherThrown,     \* what else C++ throws, not a std::exception
  NotAnError,      \* what else JavaScript throws, not an Error
  MaxDepth,        \* bound: frames
  NoError

ASSUME ErrorsAssumption ==
  /\ ErrorPlatforms \subseteq {"jni", "wasm", "valdi", "objc", "swift", "c"}
  /\ CppErrors \intersect ForeignErrors = {}
  /\ {OtherThrown, NotAnError, NoError} \intersect (CppErrors \union ForeignErrors) = {}
  /\ MaxDepth \in Nat \ {0}

VARIABLES
  errorPlatform,
  stack,      \* the frames, the last one runs: "foreign" or "cpp"
  flying,     \* the error thrown in the last frame, or NoError
  kept,       \* the error object that foreign code keeps, or NoError
  exptr,      \* wasm: the static exception_ptr of djinni_native_exception_to_js()
  lost,       \* history: how an error ended without one in the caller
  terminated  \* std::terminate() or abort() was called

errorVars == <<errorPlatform, stack, flying, kept, exptr, lost, terminated>>

\* An error is what the code at hand sees, "as", and in this model also the error
\* it began as.  C++ sees <<"cpp", e>>, or an exception that carries a foreign
\* error; foreign code sees <<"foreign", e>>, or one that stands for a C++ one.
Error(as, origin) == [as |-> as, origin |-> origin]

ErrorsInit ==
  /\ errorPlatform \in ErrorPlatforms
  /\ stack = <<"foreign">>
  /\ flying = NoError
  /\ kept = NoError
  /\ exptr = NoError
  /\ lost = {}
  /\ terminated = FALSE

-----------------------------------------------------------------------------

Language == stack[Len(stack)]
Running == flying = NoError /\ ~terminated
Caller == SubSeq(stack, 1, Len(stack) - 1)

Call ==
  /\ Running
  /\ Len(stack) < MaxDepth
  /\ stack' = Append(stack, IF Language = "cpp" THEN "foreign" ELSE "cpp")
  /\ UNCHANGED <<errorPlatform, flying, kept, exptr, lost, terminated>>

Return ==
  /\ Running
  /\ Len(stack) > 1
  /\ stack' = Caller
  /\ UNCHANGED <<errorPlatform, flying, kept, exptr, lost, terminated>>

\* C does not throw.
Throws ==
  IF Language = "cpp" THEN {<<"cpp", e>> : e \in CppErrors \union {OtherThrown}}
  ELSE CASE errorPlatform = "c" -> {}
         [] errorPlatform = "wasm" -> {<<"foreign", e>> : e \in ForeignErrors \union {NotAnError}}
         [] OTHER -> {<<"foreign", e>> : e \in ForeignErrors}

Throw ==
  /\ Running
  /\ \E e \in Throws : flying' = Error(e, e[2])
  /\ UNCHANGED <<errorPlatform, stack, kept, exptr, lost, terminated>>

ThrowKept ==
  /\ Running
  /\ Language = "foreign"
  /\ kept # NoError
  /\ flying' = kept
  /\ UNCHANGED <<errorPlatform, stack, kept, exptr, lost, terminated>>

\* Either language handles an error; foreign code may keep it.
Catch(keep) ==
  /\ flying # NoError /\ ~terminated
  /\ keep => Language = "foreign"
  /\ kept' = IF keep THEN flying ELSE kept
  /\ flying' = NoError
  /\ UNCHANGED <<errorPlatform, stack, exptr, lost, terminated>>

-----------------------------------------------------------------------------
(* From C++ to the foreign caller *)

Carries(as) == as[1] = "carries"

\* (Mutant of ForeignFor.)  Translate a carried foreign error like any other.
ForeignForTranslated(as) == <<"translated", as>>

\* What is raised in the foreign caller.  jni_exception and JsException give back
\* what they carry.
ForeignFor(as) ==
  IF errorPlatform \in {"jni", "wasm", "valdi"} /\ Carries(as) THEN as[2] ELSE <<"translated", as>>

\* JNI_TRANSLATE_EXCEPTIONS_RETURN, handleNativeException, DJINNI_TRANSLATE_EXCEPTIONS
\* and the function-try-blocks for Swift.
CppThrowsToForeign ==
  /\ flying # NoError /\ ~terminated
  /\ Language = "cpp" /\ Len(stack) > 1
  /\ errorPlatform # "c"
  /\ flying.as[1] \in {"cpp", "carries"} /\ flying.as[2] # OtherThrown
  /\ flying' = Error(ForeignFor(flying.as), flying.origin)
  /\ exptr' = IF errorPlatform = "wasm" /\ ~Carries(flying.as) THEN flying.as ELSE exptr
  /\ stack' = Caller
  /\ UNCHANGED <<errorPlatform, kept, lost, terminated>>

\* DJINNI_HANDLE_EXCEPTION_EPILOGUE: the handler of the thread is told, and the
\* call returns a null value.  Without a handler, abort().
CppNotifiesC(handler) ==
  /\ flying # NoError /\ ~terminated
  /\ Language = "cpp" /\ Len(stack) > 1
  /\ errorPlatform = "c"
  /\ flying.origin # OtherThrown
  /\ terminated' = ~handler
  /\ flying' = NoError
  /\ lost' = IF handler THEN lost \union {"told the handler"} ELSE lost
  /\ stack' = Caller
  /\ UNCHANGED <<errorPlatform, kept, exptr>>

\* What is not a std::exception is not caught by the glue.  Objective-C++ frames
\* unwind like C++ ones, and JavaScript sees a number; elsewhere the unwinding
\* meets a frame it must not leave.
OtherEscapes ==
  /\ flying # NoError /\ ~terminated
  /\ Language = "cpp" /\ Len(stack) > 1
  /\ flying.as = <<"cpp", OtherThrown>>
  /\ stack' = Caller
  /\ IF errorPlatform \in {"objc", "wasm"}
     THEN /\ flying' = Error(<<"translated", flying.as>>, OtherThrown)
          /\ UNCHANGED terminated
     ELSE /\ terminated' = TRUE
          /\ UNCHANGED flying
  /\ UNCHANGED <<errorPlatform, kept, exptr, lost>>

-----------------------------------------------------------------------------
(* From the foreign callee to C++ *)

\* (Mutant of CppFor.)  Carry every foreign error, whatever it stands for.
CppForCarried(as) == <<"carries", as>>

\* What C++ gets.  checkError() and callProtocol() rethrow the C++ exception that
\* an error stands for: the pointer of a wasm error is to the one static, an
\* ErrorValue of Swift has its own.
CppFor(as) ==
  CASE errorPlatform = "wasm" /\ as[1] = "translated" -> exptr
    [] errorPlatform = "swift" /\ as[1] = "translated" -> as[2]
    [] OTHER -> <<"carries", as>>

\* callJsProxyMethod() returns what was thrown; checkError() takes only an Error
\* for one.
IsResultToCpp(as) ==
  errorPlatform = "wasm" /\ as \in {<<"foreign", NotAnError>>, <<"translated", <<"cpp", OtherThrown>>>>}

ForeignThrowsToCpp ==
  /\ flying # NoError /\ ~terminated
  /\ Language = "foreign" /\ Len(stack) > 1
  /\ ~IsResultToCpp(flying.as)
  /\ errorPlatform # "objc"
  /\ flying' = Error(CppFor(flying.as), flying.origin)
  /\ stack' = Caller
  /\ UNCHANGED <<errorPlatform, kept, exptr, lost, terminated>>

\* An NSException unwinds the C++ frames: the glue of the call that they are in
\* catches std::exceptions only.
NSExceptionUnwinds ==
  /\ flying # NoError /\ ~terminated
  /\ Language = "foreign" /\ Len(stack) > 2
  /\ errorPlatform = "objc"
  /\ stack' = SubSeq(stack, 1, Len(stack) - 2)
  /\ UNCHANGED <<errorPlatform, flying, kept, exptr, lost, terminated>>

ThrownBecomesResult ==
  /\ flying # NoError /\ ~terminated
  /\ Language = "foreign" /\ Len(stack) > 1
  /\ IsResultToCpp(flying.as)
  /\ flying' = NoError
  /\ lost' = lost \union {"returned to C++"}
  /\ stack' = Caller
  /\ UNCHANGED <<errorPlatform, kept, exptr, terminated>>

-----------------------------------------------------------------------------

ErrorsNext ==
  \/ Call \/ Return
  \/ Throw \/ ThrowKept
  \/ \E keep \in BOOLEAN : Catch(keep)
  \/ CppThrowsToForeign
  \/ \E handler \in BOOLEAN : CppNotifiesC(handler)
  \/ OtherEscapes
  \/ ForeignThrowsToCpp
  \/ NSExceptionUnwinds
  \/ ThrownBecomesResult

ErrorsSpec == ErrorsInit /\ [][ErrorsNext]_errorVars

-----------------------------------------------------------------------------
(* Properties *)

\* As what C++ may be given back its own error: on wasm, once another one has crossed
\* and taken the static exception_ptr, as that one.
GivenBack(origin) ==
  {<<"cpp", origin>>} \union IF errorPlatform = "wasm" THEN {exptr} ELSE {}

\* An error that went through frames of the other language and comes back is the
\* one that was thrown, not a copy of its message: a C++ exception on Swift, and on
\* wasm unless it is by now the one in the static exception_ptr; a foreign error
\* wherever the platform can carry it.
SameErrorComesBack ==
  flying # NoError =>
    /\ Language = "cpp" /\ flying.origin \in CppErrors /\ errorPlatform \in {"swift", "wasm"}
         => flying.as \in GivenBack(flying.origin)
    /\ Language = "foreign" /\ flying.origin \in ForeignErrors /\ errorPlatform # "swift"
         => flying.as = <<"foreign", flying.origin>>
=============================================================================
