------------------------ MODULE SupportLibrary_proofs ------------------------
(***************************************************************************)
(* Proofs about the parts of the support libraries that keep bytes,        *)
(* threads and errors straight: DataRefs for every set of platforms and    *)
(* buffers, JniThreads for every set of threads and any number of rounds   *)
(* of destructors, CrossingErrors for every set of platforms and errors    *)
(* and stacks of any depth.                                                *)
(***************************************************************************)
EXTENDS DataRefs, JniThreads, CrossingErrors, TLAPS

-----------------------------------------------------------------------------
(* DataRefs.  Both properties follow from one invariant, which holds       *)
(* buffer by buffer: it relates the memory, the foreign object, the        *)
(* takeOver() under way and the references.                                *)

DataTypes ==
  /\ memory \in [Buffers -> {"none", "container", "foreign"}]
  /\ takeOver \in [Buffers -> {"none", "made", "wrapped"}]
  /\ object \in [Buffers -> {"none", "live", "collected"}]
  /\ dataRefs \in [Buffers -> Nat]
  /\ crossing \in [Buffers -> Nat]
  /\ djDataRefs \in [Buffers -> Nat]
  /\ holders \in [Buffers -> Nat]

\* Who reads the bytes of b.
Used(b) == dataRefs[b] > 0 \/ crossing[b] > 0 \/ djDataRefs[b] > 0 \/ b \in held

BufferInv(b) ==
  /\ holders[b] = crossing[b] + djDataRefs[b]
  /\ memory[b] = "none" => object[b] = "none" /\ takeOver[b] = "none" /\ b \notin finalizer
  /\ memory[b] = "foreign" => object[b] = "live" /\ takeOver[b] = "none" /\ b \notin finalizer
  /\ memory[b] = "container" =>
       \/ takeOver[b] = "made" /\ object[b] = "none" /\ b \notin finalizer
       \/ takeOver[b] = "wrapped" /\ object[b] = "live" /\ b \notin finalizer
       \/ takeOver[b] = "none" /\ object[b] # "none" /\ b \in finalizer
  /\ Used(b) => object[b] = "live" /\ takeOver[b] = "none"

DataInv == DataTypes /\ \A b \in Buffers : BufferInv(b)

LEMMA DataInvInit == DataInit => DataInv
  BY DEF DataInit, DataInv, DataTypes, BufferInv, Used

\* A step of one buffer.
BufferNext(b) ==
  \/ ForeignMemory(b) \/ MakeDjDataRef(b) \/ Container(b)
  \/ MakeContainer(b) \/ WrapContainer(b) \/ RegisterContainer(b) \/ TakeOverThrows(b)
  \/ NewDataRef(b) \/ DropDataRef(b) \/ PassObject(b) \/ DropForeignObject(b)
  \/ SendHolder(b) \/ ReceiveInSwift(b) \/ ReceiveInCpp(b) \/ DropDjDataRef(b)
  \/ CollectForeignObject(b) \/ Finalize(b)

LEMMA BufferStep ==
  ASSUME DataInv, NEW b \in Buffers, BufferNext(b)
  PROVE  DataInv'
<1> USE DEF DataInv, DataTypes, BufferInv, Used
<1>1. CASE ForeignMemory(b) BY <1>1 DEF ForeignMemory
<1>2. CASE MakeDjDataRef(b) BY <1>2 DEF MakeDjDataRef
<1>3. CASE Container(b) BY <1>3 DEF Container
<1>4. CASE MakeContainer(b) BY <1>4 DEF MakeContainer, refVars
<1>5. CASE WrapContainer(b) BY <1>5 DEF WrapContainer, refVars
<1>6. CASE RegisterContainer(b) BY <1>6 DEF RegisterContainer
<1>7. CASE TakeOverThrows(b) BY <1>7 DEF TakeOverThrows, refVars
<1>8. CASE NewDataRef(b) BY <1>8 DEF NewDataRef
<1>9. CASE DropDataRef(b) BY <1>9 DEF DropDataRef
<1>10. CASE PassObject(b) BY <1>10 DEF PassObject
<1>11. CASE DropForeignObject(b) BY <1>11 DEF DropForeignObject
<1>12. CASE SendHolder(b) BY <1>12 DEF SendHolder
<1>13. CASE ReceiveInSwift(b)
  <2>1. crossing[b] \in Nat /\ crossing[b] > 0 /\ djDataRefs[b] \in Nat
      BY <1>13 DEF ReceiveInSwift
  <2>2. crossing' = [crossing EXCEPT ![b] = crossing[b] - 1] /\ crossing[b] - 1 \in Nat
      BY <1>13, <2>1 DEF ReceiveInSwift
  <2>3. djDataRefs' = [djDataRefs EXCEPT ![b] = djDataRefs[b] + 1] /\ djDataRefs[b] + 1 \in Nat
      BY <1>13, <2>1 DEF ReceiveInSwift
  <2>4. UNCHANGED <<platform, memory, takeOver, object, finalizer, dataRefs, held, holders>>
      BY <1>13 DEF ReceiveInSwift
  <2>5. DataTypes'
      BY <2>2, <2>3, <2>4
  <2>6. ASSUME NEW c \in Buffers PROVE BufferInv(c)'
    <3>1. CASE c = b
      <4>1. crossing'[b] = crossing[b] - 1 /\ djDataRefs'[b] = djDataRefs[b] + 1
          BY <2>2, <2>3
      <4>2. BufferInv(b)
          OBVIOUS
      <4>3. crossing'[b] + djDataRefs'[b] = crossing[b] + djDataRefs[b]
          BY <2>1, <4>1
      <4>4. Used(b)
          BY <2>1
      <4> QED
          BY <2>4, <3>1, <4>2, <4>3, <4>4
    <3>2. CASE c # b
        BY <2>2, <2>3, <2>4, <3>2
    <3> QED BY <3>1, <3>2
  <2> QED BY <2>5, <2>6
<1>14. CASE ReceiveInCpp(b) BY <1>14 DEF ReceiveInCpp
<1>15. CASE DropDjDataRef(b) BY <1>15 DEF DropDjDataRef
<1>16. CASE CollectForeignObject(b) BY <1>16 DEF CollectForeignObject, Referenced, refVars
<1>17. CASE Finalize(b) BY <1>17 DEF Finalize, refVars
<1> QED
    BY <1>1, <1>2, <1>3, <1>4, <1>5, <1>6, <1>7, <1>8, <1>9, <1>10, <1>11, <1>12, <1>13,
       <1>14, <1>15, <1>16, <1>17 DEF BufferNext

LEMMA DataInvNext == DataInv /\ [DataNext]_dataVars => DataInv'
<1>1. DataInv /\ UNCHANGED dataVars => DataInv'
    BY DEF DataInv, DataTypes, BufferInv, Used, dataVars, refVars
<1>2. DataInv /\ DataNext => DataInv'
    BY BufferStep DEF DataNext, BufferNext
<1> QED
    BY <1>1, <1>2

LEMMA DataInvariance == DataSpec => []DataInv
  BY DataInvInit, DataInvNext, PTL DEF DataSpec

\* The bytes are there, and their object lives, as long as a DataRef, a holder on
\* its way or the foreign program can read them (DataRef.hpp and the DataRef of
\* each platform).
THEOREM BytesStay == DataSpec => []BytesOutliveRefs
<1>1. DataInv => BytesOutliveRefs
    BY DEF DataInv, DataTypes, BufferInv, Used, BytesOutliveRefs
<1> QED
    BY <1>1, DataInvariance, PTL

\* A container is freed by one owner, a holder by one: nothing is freed twice or
\* never, also when takeOver() throws between two of its calls
\* (DataRef_jni.cpp:152-184).
THEOREM OneOwner == DataSpec => []OneOwnerFrees
<1>1. DataInv => OneOwnerFrees
    BY DEF DataInv, DataTypes, BufferInv, Used, OneOwnerFrees
<1> QED
    BY <1>1, DataInvariance, PTL

-----------------------------------------------------------------------------
(* JniThreads.  A C++ thread the JVM knows has its thread-specific value   *)
(* set, unless jniInit() made no key: so the end of its exit, which needs  *)
(* every value gone or every round used, cannot leave it attached.         *)

JniTypes ==
  /\ init \in {"none", "cached", "done", "failed"}
  /\ threadPhase \in [AllThreads -> {"running", "exiting", "dead"}]
  /\ rounds \in [AllThreads -> Nat]

\* Whoever attached a C++ thread arranged for it to be detached.
AttachedHasKey ==
  \A t \in NativeThreads : t \in attached => t \in exitKey \/ init = "failed"

\* Nothing is attached before the JVM is known.
NobodyAttachedEarly ==
  init \in {"none", "cached"} => \A t \in NativeThreads : t \notin attached

JniInv == JniTypes /\ AttachedHasKey /\ NobodyAttachedEarly /\ DeadThreadsDetached

LEMMA JniInvInit == JniInit => JniInv
  BY JniThreadsAssumption
  DEF JniInit, JniInv, JniTypes, AttachedHasKey, NobodyAttachedEarly, DeadThreadsDetached, AllThreads

LEMMA JniInvNext == JniInv /\ [JniNext]_jniVars => JniInv'
<1> SUFFICES ASSUME JniInv, [JniNext]_jniVars
             PROVE  JniInv'
    OBVIOUS
<1> USE JniThreadsAssumption
    DEF JniInv, JniTypes, AttachedHasKey, NobodyAttachedEarly, DeadThreadsDetached, AllThreads
<1>1. CASE UNCHANGED jniVars
    BY <1>1 DEF jniVars
<1>2. CASE CacheJvm \/ CreateKey \/ RegisterNativesFails
    BY <1>2 DEF CacheJvm, CreateKey, RegisterNativesFails
<1>3. ASSUME NEW t \in AllThreads, GetThreadEnv(t)
      PROVE  JniInv'
    BY <1>3 DEF GetThreadEnv, Runs
<1>4. ASSUME NEW t \in AllThreads, BeginExit(t)
      PROVE  JniInv'
    BY <1>4 DEF BeginExit
<1>5. ASSUME NEW t \in AllThreads, BeginRound(t)
      PROVE  JniInv'
    BY <1>5 DEF BeginRound
<1>6. ASSUME NEW t \in AllThreads, OnThreadExit(t)
      PROVE  JniInv'
    BY <1>6 DEF OnThreadExit
<1>7. ASSUME NEW t \in AllThreads, EndExit(t)
      PROVE  JniInv'
    BY <1>7 DEF EndExit
<1> QED
    BY <1>1, <1>2, <1>3, <1>4, <1>5, <1>6, <1>7 DEF JniNext

\* A C++ thread that dies is not left attached to the JVM, whatever its other
\* destructors do with the JVM, except where jniInit() gave up before the key or
\* each of the rounds attached it again (djinni_support.cpp:73-84, 175-193).
THEOREM DeadAreDetached == JniSpec => []DeadThreadsDetached
<1>1. JniInv => DeadThreadsDetached
    BY DEF JniInv
<1> QED
    BY <1>1, JniInvInit, JniInvNext, PTL DEF JniSpec

-----------------------------------------------------------------------------
(* CrossingErrors.  An error is seen, on each side of the border, in a few *)
(* forms only, whatever frames it went through; they say what it was.      *)

\* What the one exception_ptr of wasm can point to once it is set.
ThrownByCpp == {<<"cpp", e>> : e \in CppErrors}

\* How C++ sees an error that began as o.
SeenInCpp(as, o) ==
  \/ o \in CppErrors \union {OtherThrown} /\ as = <<"cpp", o>>
  \/ o \notin CppErrors /\ errorPlatform \notin {"objc", "c"} /\ as = <<"carries", <<"foreign", o>>>>
  \/ /\ o \in CppErrors /\ errorPlatform \in {"jni", "valdi"}
     /\ as = <<"carries", <<"translated", <<"cpp", o>>>>>>
  \/ o \in CppErrors /\ errorPlatform = "wasm" /\ as = exptr /\ exptr \in ThrownByCpp

\* How foreign code sees it.
SeenInForeign(as, o) ==
  /\ errorPlatform # "c"
  /\ errorPlatform = "wasm" /\ o \in CppErrors => exptr \in ThrownByCpp
  /\ \/ o \notin CppErrors /\ as = <<"foreign", o>>
     \/ o \in CppErrors /\ as = <<"translated", <<"cpp", o>>>>
     \/ /\ o = OtherThrown /\ errorPlatform \in {"objc", "wasm"}
        /\ as = <<"translated", <<"cpp", o>>>>
     \/ /\ o \in CppErrors /\ errorPlatform = "wasm"
        /\ \E x \in ThrownByCpp : as = <<"translated", x>>
     \/ /\ o \notin CppErrors /\ errorPlatform = "swift"
        /\ as = <<"translated", <<"carries", <<"foreign", o>>>>>>

\* Frames of the two languages take turns.
StackInv ==
  /\ stack \in Seq({"foreign", "cpp"}) /\ stack # <<>>
  /\ \A i \in 1 .. Len(stack) - 1 : stack[i] # stack[i + 1]

KeptSeen == kept # NoError => SeenInForeign(kept.as, kept.origin)

FlyingSeen ==
  flying # NoError =>
    IF terminated THEN flying.origin = OtherThrown
    ELSE IF Language = "cpp" THEN SeenInCpp(flying.as, flying.origin)
    ELSE SeenInForeign(flying.as, flying.origin)

ErrorsInv == errorPlatform \in ErrorPlatforms /\ StackInv /\ KeptSeen /\ FlyingSeen

LEMMA ErrorsInvInit == ErrorsInit => ErrorsInv
  BY DEF ErrorsInit, ErrorsInv, StackInv, KeptSeen, FlyingSeen

\* Frames are pushed and unwound: the languages still take turns.
LEMMA Pushed ==
  ASSUME StackInv, stack' = Append(stack, IF Language = "cpp" THEN "foreign" ELSE "cpp")
  PROVE  StackInv'
  BY DEF StackInv, Language

LEMMA Unwound ==
  ASSUME StackInv, NEW n \in 1 .. Len(stack) - 1, stack' = SubSeq(stack, 1, n)
  PROVE  StackInv' /\ Language' = stack[n]
<1>1. Len(stack) \in Nat /\ n \in Nat /\ n < Len(stack) /\ n > 0
  BY DEF StackInv
<1>2. stack' \in Seq({"foreign", "cpp"}) /\ Len(stack') = n /\ \A i \in 1 .. n : stack'[i] = stack[i]
  BY <1>1 DEF StackInv
<1>3. \A i \in 1 .. Len(stack') - 1 : stack'[i] # stack'[i + 1]
  <2>1. \A i \in 1 .. n - 1 : /\ i \in 1 .. n /\ i + 1 \in 1 .. n
                             /\ i \in 1 .. Len(stack) - 1
    BY <1>1
  <2> QED
    BY <1>1, <1>2, <2>1 DEF StackInv
<1>4. Language' = stack[n]
  BY <1>1, <1>2 DEF Language
<1>5. stack' # <<>>
  BY <1>1, <1>2
<1> QED
  BY <1>2, <1>3, <1>4, <1>5 DEF StackInv

LEMMA Turns ==
  ASSUME StackInv
  PROVE  /\ Language \in {"foreign", "cpp"}
         /\ Len(stack) > 1 => /\ Len(stack) - 1 \in 1 .. Len(stack) - 1
                              /\ stack[Len(stack) - 1] = IF Language = "cpp" THEN "foreign" ELSE "cpp"
         /\ Len(stack) > 2 => /\ Len(stack) - 2 \in 1 .. Len(stack) - 1
                              /\ stack[Len(stack) - 2] = Language
<1>1. Len(stack) \in Nat /\ Len(stack) > 0 /\ stack \in [1 .. Len(stack) -> {"foreign", "cpp"}]
  BY DEF StackInv
<1>2. Len(stack) > 1 => stack[Len(stack) - 1] # stack[Len(stack)]
  BY <1>1 DEF StackInv
<1>3. Len(stack) > 2 => stack[Len(stack) - 2] # stack[Len(stack) - 1]
  BY <1>1 DEF StackInv
<1> QED
  BY <1>1, <1>2, <1>3 DEF Language

LEMMA ErrorsInvNext == ErrorsInv /\ [ErrorsNext]_errorVars => ErrorsInv'
<1> SUFFICES ASSUME ErrorsInv, [ErrorsNext]_errorVars
             PROVE  ErrorsInv'
  OBVIOUS
<1> USE ErrorsAssumption, Turns DEF ErrorsInv
<1>1. CASE UNCHANGED errorVars
  BY <1>1 DEF errorVars, StackInv, KeptSeen, FlyingSeen, Language, SeenInCpp, SeenInForeign
<1>2. CASE Call
  BY <1>2, Pushed DEF Call, Running, KeptSeen, FlyingSeen, SeenInForeign
<1>3. CASE Return
  BY <1>3, Unwound DEF Return, Running, Caller, KeptSeen, FlyingSeen, SeenInForeign
<1>4. CASE Throw
  <2>1. /\ flying = NoError /\ ~terminated
        /\ UNCHANGED <<errorPlatform, stack, kept, exptr, lost, terminated>>
    BY <1>4 DEF Throw, Running
  <2>2. PICK e \in Throws : flying' = [as |-> e, origin |-> e[2]]
    BY <1>4 DEF Throw, Error
  <2>3. StackInv' /\ KeptSeen' /\ Language' = Language
    BY <2>1 DEF StackInv, KeptSeen, SeenInForeign, Language
  <2>4. CASE Language = "cpp"
    <3>1. PICK o \in CppErrors \union {OtherThrown} : e = <<"cpp", o>>
      <4>1. Throws = {<<"cpp", x>> : x \in CppErrors \union {OtherThrown}}
        BY <2>4 DEF Throws
      <4> QED
        BY <4>1
    <3>2. SeenInCpp(e, o)'
      BY <3>1 DEF SeenInCpp
    <3> QED
      BY <2>1, <2>2, <2>3, <2>4, <3>1, <3>2 DEF FlyingSeen
  <2>5. CASE Language = "foreign"
    <3>1. PICK o \in ForeignErrors \union {NotAnError} : e = <<"foreign", o>> /\ errorPlatform # "c"
      BY <2>5 DEF Throws
    <3>2. SeenInForeign(e, o)'
      BY <2>1, <3>1 DEF SeenInForeign
    <3> QED
      BY <2>1, <2>2, <2>3, <2>5, <3>1, <3>2 DEF FlyingSeen
  <2> QED
    BY <2>3, <2>4, <2>5
<1>5. CASE ThrowKept
  BY <1>5 DEF ThrowKept, Running, StackInv, Language, KeptSeen, FlyingSeen, SeenInForeign
<1>6. ASSUME NEW keep \in BOOLEAN, Catch(keep)
      PROVE  ErrorsInv'
  BY <1>6 DEF Catch, StackInv, Language, KeptSeen, FlyingSeen, SeenInForeign
<1>7. CASE CppThrowsToForeign
  <2> DEFINE as == flying.as
             o == flying.origin
  <2>1. /\ flying # NoError /\ ~terminated /\ Language = "cpp" /\ Len(stack) > 1
        /\ errorPlatform # "c" /\ as[2] # OtherThrown
        /\ flying' = [as |-> ForeignFor(as), origin |-> o]
        /\ exptr' = IF errorPlatform = "wasm" /\ ~Carries(as) THEN as ELSE exptr
        /\ stack' = SubSeq(stack, 1, Len(stack) - 1)
        /\ UNCHANGED <<errorPlatform, kept, lost, terminated>>
    BY <1>7 DEF CppThrowsToForeign, Caller, Error
  <2>2. SeenInCpp(as, o)
    BY <2>1 DEF FlyingSeen
  <2>3. /\ errorPlatform = "wasm" /\ ~Carries(as) => as \in ThrownByCpp
        /\ errorPlatform = "wasm" /\ o \in CppErrors => ~Carries(as)
    <3>1. CASE as = <<"cpp", o>>
      <4>1. as[1] = "cpp" /\ as[2] = o
        BY <3>1
      <4> QED
        BY <2>1, <2>2, <3>1, <4>1 DEF SeenInCpp, Carries, ThrownByCpp
    <3>2. CASE as \in ThrownByCpp
      BY <3>2 DEF Carries, ThrownByCpp
    <3>3. CASE o \notin CppErrors /\ as = <<"carries", <<"foreign", o>>>>
      BY <3>3 DEF Carries
    <3> QED
      BY <2>2, <3>1, <3>2, <3>3 DEF SeenInCpp
  <2>4. SeenInForeign(flying.as, flying.origin)'
    <3>1. CASE as = <<"cpp", o>> /\ o \in CppErrors
      BY <2>1, <2>3, <3>1 DEF SeenInForeign, ForeignFor, Carries
    <3>2. CASE as = <<"carries", <<"foreign", o>>>> /\ o \notin CppErrors /\ errorPlatform # "objc"
      BY <2>1, <2>3, <3>2 DEF SeenInForeign, ForeignFor, Carries
    <3>3. CASE /\ as = <<"carries", <<"translated", <<"cpp", o>>>>>>
               /\ o \in CppErrors /\ errorPlatform \in {"jni", "valdi"}
      BY <2>1, <2>3, <3>3 DEF SeenInForeign, ForeignFor, Carries
    <3>4. CASE o \in CppErrors /\ errorPlatform = "wasm" /\ as \in ThrownByCpp
      BY <2>1, <2>3, <3>4 DEF SeenInForeign, ForeignFor, Carries
    <3> QED
      BY <2>1, <2>2, <3>1, <3>2, <3>3, <3>4 DEF SeenInCpp
  <2>5. StackInv' /\ Language' = "foreign"
    BY <2>1, Unwound
  <2>6. KeptSeen'
    BY <2>1, <2>3 DEF KeptSeen, SeenInForeign
  <2>7. FlyingSeen'
    BY <2>1, <2>4, <2>5 DEF FlyingSeen
  <2> QED
    BY <2>1, <2>5, <2>6, <2>7
<1>8. ASSUME NEW h \in BOOLEAN, CppNotifiesC(h)
      PROVE  ErrorsInv'
  BY <1>8, Unwound DEF CppNotifiesC, Caller, KeptSeen, FlyingSeen, SeenInForeign
<1>9. CASE OtherEscapes
  <2>1. /\ flying # NoError /\ ~terminated /\ Language = "cpp" /\ Len(stack) > 1
        /\ flying.as = <<"cpp", OtherThrown>>
        /\ stack' = SubSeq(stack, 1, Len(stack) - 1)
        /\ UNCHANGED <<errorPlatform, kept, exptr, lost>>
    BY <1>9 DEF OtherEscapes, Caller
  <2>2. SeenInCpp(<<"cpp", OtherThrown>>, flying.origin)
    BY <2>1 DEF FlyingSeen
  <2>3. ASSUME exptr = <<"cpp", OtherThrown>>
        PROVE  exptr \notin ThrownByCpp
    BY <2>3 DEF ThrownByCpp
  <2>4. flying.origin = OtherThrown
    BY <2>2, <2>3 DEF SeenInCpp
  <2>5. StackInv' /\ Language' = "foreign"
    BY <2>1, Unwound
  <2>6. KeptSeen'
    BY <2>1 DEF KeptSeen, SeenInForeign
  <2>7. CASE errorPlatform \in {"objc", "wasm"}
    <3>1. /\ flying' = [as |-> <<"translated", flying.as>>, origin |-> OtherThrown]
          /\ terminated' = terminated
      BY <1>9, <2>7 DEF OtherEscapes, Error
    <3>2. SeenInForeign(<<"translated", <<"cpp", OtherThrown>>>>, OtherThrown)'
      BY <2>1, <2>7 DEF SeenInForeign
    <3> QED
      BY <2>1, <2>5, <2>6, <3>1, <3>2 DEF FlyingSeen
  <2>8. CASE errorPlatform \notin {"objc", "wasm"}
    BY <1>9, <2>4, <2>5, <2>6, <2>8 DEF OtherEscapes, FlyingSeen
  <2> QED
    BY <2>7, <2>8
<1>10. CASE ForeignThrowsToCpp
  <2> DEFINE as == flying.as
             o == flying.origin
  <2>1. /\ flying # NoError /\ ~terminated /\ Language = "foreign" /\ Len(stack) > 1
        /\ ~IsResultToCpp(as) /\ errorPlatform # "objc"
        /\ flying' = [as |-> CppFor(as), origin |-> o]
        /\ stack' = SubSeq(stack, 1, Len(stack) - 1)
        /\ UNCHANGED <<errorPlatform, kept, exptr, lost, terminated>>
    BY <1>10 DEF ForeignThrowsToCpp, Caller, Error
  <2>2. SeenInForeign(as, o)
    BY <2>1 DEF FlyingSeen
  <2>3. SeenInCpp(CppFor(as), o)
    <3>1. CASE as = <<"foreign", o>>
      BY <2>1, <2>2, <3>1 DEF SeenInForeign, SeenInCpp, CppFor
    <3>2. CASE as[1] = "translated" /\ errorPlatform = "wasm"
      BY <2>1, <2>2, <3>2 DEF SeenInForeign, SeenInCpp, CppFor, IsResultToCpp
    <3>3. CASE as = <<"translated", <<"cpp", o>>>> /\ errorPlatform # "wasm"
      <4>1. as[1] = "translated" /\ as[2] = <<"cpp", o>> /\ o \in CppErrors
        BY <2>1, <2>2, <3>3 DEF SeenInForeign
      <4>2. errorPlatform # "c"
        BY <2>2 DEF SeenInForeign
      <4>3. CppFor(as) = IF errorPlatform = "swift" THEN <<"cpp", o>> ELSE <<"carries", as>>
        BY <3>3, <4>1 DEF CppFor
      <4> QED
        BY <2>1, <3>3, <4>1, <4>2, <4>3 DEF SeenInCpp
    <3>4. CASE as = <<"translated", <<"carries", <<"foreign", o>>>>>> /\ errorPlatform # "wasm"
      BY <2>1, <2>2, <3>4 DEF SeenInForeign, SeenInCpp, CppFor
    <3> QED
      BY <2>2, <3>1, <3>2, <3>3, <3>4 DEF SeenInForeign
  <2>4. StackInv' /\ Language' = "cpp"
    BY <2>1, Unwound
  <2>5. KeptSeen'
    BY <2>1 DEF KeptSeen, SeenInForeign
  <2>6. FlyingSeen'
    BY <2>1, <2>3, <2>4 DEF FlyingSeen, SeenInCpp
  <2> QED
    BY <2>1, <2>4, <2>5, <2>6
<1>11. CASE NSExceptionUnwinds
  BY <1>11, Unwound DEF NSExceptionUnwinds, KeptSeen, FlyingSeen, SeenInForeign
<1>12. CASE ThrownBecomesResult
  BY <1>12, Unwound DEF ThrownBecomesResult, Caller, KeptSeen, FlyingSeen, SeenInForeign
<1> QED
  BY <1>1, <1>2, <1>3, <1>4, <1>5, <1>6, <1>7, <1>8, <1>9, <1>10, <1>11, <1>12 DEF ErrorsNext

\* An error that comes back to the language it was thrown in is the one that
\* was thrown, through any number of frames: a C++ exception on Swift, and on
\* wasm, unless it is by now the one in the static exception_ptr
\* (djinni_wasm.cpp:218-222), a foreign error wherever the platform carries it
\* (djinni_support.cpp:513-545).
THEOREM ErrorsComeBack == ErrorsSpec => []SameErrorComesBack
<1>1. ErrorsInv => SameErrorComesBack
  BY ErrorsAssumption DEF ErrorsInv, FlyingSeen, SeenInCpp, SeenInForeign, SameErrorComesBack,
     GivenBack, ThrownByCpp
<1> QED
  BY <1>1, ErrorsInvInit, ErrorsInvNext, PTL DEF ErrorsSpec
=============================================================================
