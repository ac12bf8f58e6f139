----------------------------- MODULE JniThreads -----------------------------
(***************************************************************************)
(* Threads in the JNI support (jni/djinni_support.cpp).                    *)
(*                                                                         *)
(* jniGetThreadEnv() attaches a C++ thread to the JVM and sets a           *)
(* thread-specific value whose destructor detaches it when it exits.  Other *)
(* thread-specific destructors run before and after that one; they may call *)
(* into the JVM and attach the thread again, for which pthreads makes      *)
(* another round of destructors.  (Dropping a GlobalRef does not attach.)  *)
(***************************************************************************)
EXTENDS Naturals

CONSTANTS
  NativeThreads,  \* threads C++ has created; Java has its own
  JavaThreads,
  Rounds          \* PTHREAD_DESTRUCTOR_ITERATIONS

AllThreads == NativeThreads \union JavaThreads

ASSUME JniThreadsAssumption ==
  /\ Rounds \in Nat \ {0}
  /\ NativeThreads \intersect JavaThreads = {}

VARIABLES
  init,         \* jniInit(): "none", "cached" the JVM, "done"; "failed"
  attached,     \* the threads the JVM knows
  exitKey,      \* the threads whose thread-specific value is set
  threadPhase,  \* of a thread: "running", "exiting", "dead"
  rounds        \* how many rounds of destructors its exit has begun

jniVars == <<init, attached, exitKey, threadPhase, rounds>>

JniInit ==
  /\ init = "none"
  /\ attached = JavaThreads
  /\ exitKey = {}
  /\ threadPhase = [t \in AllThreads |-> "running"]
  /\ rounds = [t \in AllThreads |-> 0]

-----------------------------------------------------------------------------

\* jniInit(): g_cachedJVM, the class loader and the native methods,
CacheJvm ==
  /\ init = "none"
  /\ init' = "cached"
  /\ UNCHANGED <<attached, exitKey, threadPhase, rounds>>

\* the key, and the class initializers.
CreateKey ==
  /\ init = "cached"
  /\ init' = "done"
  /\ UNCHANGED <<attached, exitKey, threadPhase, rounds>>

\* RegisterNatives() fails and jniInit() returns: there will be no key.
RegisterNativesFails ==
  /\ init = "cached"
  /\ init' = "failed"
  /\ UNCHANGED <<attached, exitKey, threadPhase, rounds>>

\* Code that runs on t may use the JVM: in a destructor too, once its exit has
\* begun a round.
Runs(t) ==
  /\ init \in {"done", "failed"}
  /\ threadPhase[t] # "dead"
  /\ threadPhase[t] = "exiting" => rounds[t] > 0

\* (Mutant of GetThreadEnv.)  Attach without setting the value.
GetThreadEnvNoKey(t) ==
  /\ Runs(t)
  /\ t \notin attached
  /\ attached' = attached \union {t}
  /\ UNCHANGED <<init, exitKey, threadPhase, rounds>>

\* jniGetThreadEnv() on a thread that is not attached.
GetThreadEnv(t) ==
  /\ Runs(t)
  /\ t \notin attached
  /\ attached' = attached \union {t}
  /\ exitKey' = IF init = "failed" THEN exitKey ELSE exitKey \union {t}
  /\ UNCHANGED <<init, threadPhase, rounds>>

-----------------------------------------------------------------------------
(* The exit of a C++ thread *)

BeginExit(t) ==
  /\ t \in NativeThreads /\ threadPhase[t] = "running"
  /\ threadPhase' = [threadPhase EXCEPT ![t] = "exiting"]
  /\ UNCHANGED <<init, attached, exitKey, rounds>>

\* A round of destructors; those of thread_local objects come first.
BeginRound(t) ==
  /\ threadPhase[t] = "exiting" /\ rounds[t] < Rounds
  /\ rounds[t] > 0 => t \in exitKey
  /\ rounds' = [rounds EXCEPT ![t] = @ + 1]
  /\ UNCHANGED <<init, attached, exitKey, threadPhase>>

\* onThreadExit(): the value is cleared first.
OnThreadExit(t) ==
  /\ threadPhase[t] = "exiting" /\ rounds[t] > 0
  /\ t \in exitKey
  /\ exitKey' = exitKey \ {t}
  /\ attached' = attached \ {t}
  /\ UNCHANGED <<init, threadPhase, rounds>>

\* No value is left to destroy, or the rounds are used up.
EndExit(t) ==
  /\ threadPhase[t] = "exiting" /\ rounds[t] > 0
  /\ t \in exitKey => rounds[t] = Rounds
  /\ threadPhase' = [threadPhase EXCEPT ![t] = "dead"]
  /\ UNCHANGED <<init, attached, exitKey, rounds>>

-----------------------------------------------------------------------------

JniNext ==
  \/ CacheJvm \/ CreateKey \/ RegisterNativesFails
  \/ \E t \in AllThreads :
       \/ GetThreadEnv(t)
       \/ BeginExit(t) \/ BeginRound(t) \/ OnThreadExit(t) \/ EndExit(t)

JniSpec == JniInit /\ [][JniNext]_jniVars

-----------------------------------------------------------------------------
(* Properties *)

\* A thread that died attached keeps the JVM from shutting down.  None does,
\* also when its destructors attach it anew, except where jniInit() gave up
\* before it made the key or where each of the rounds attached it again.
DeadThreadsDetached ==
  \A t \in NativeThreads :
    threadPhase[t] = "dead" /\ t \in attached => init = "failed" \/ rounds[t] = Rounds
=============================================================================
