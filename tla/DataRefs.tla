------------------------------ MODULE DataRefs ------------------------------
(***************************************************************************)
(* DataRef (cpp/DataRef.hpp and its implementation on each platform): bytes *)
(* that C++ and the foreign language share without a copy.                 *)
(*                                                                         *)
(* The memory is a C++ container taken over by a foreign object - a        *)
(* ByteBuffer, a Uint8Array or a CFData - or memory the foreign object     *)
(* brings.  A DataRef owns a reference to the foreign object, and the      *)
(* foreign object the memory: its finalizer, or the deallocator of a       *)
(* CFData, frees a container.  In Swift a DataRef crosses as a heap-held    *)
(* copy that the receiver takes over.                                      *)
(***************************************************************************)
EXTENDS Naturals

CONSTANTS
  DataPlatforms,  \* which of "jni", "web", "objc", "swift"
  Buffers,    \* the memory blocks; reused once freed
  MaxRefs     \* bound: DataRefs of one kind to a buffer

ASSUME DataRefsAssumption ==
  /\ DataPlatforms \subseteq {"jni", "web", "objc", "swift"}
  /\ MaxRefs \in Nat \ {0}

VARIABLES
  platform,
  memory,      \* of a buffer: "none", "container" (on the C++ heap), "foreign"
  takeOver,    \* where takeOver() is: "none", "made", "wrapped"
  object,      \* the foreign object: "none", "live", "collected"
  finalizer,   \* the buffers whose foreign object has one
  dataRefs,    \* how many DataRefs C++ has
  held,        \* the buffers whose foreign object the foreign program holds
  crossing,    \* how many heap-held DataRefs are on their way
  djDataRefs,  \* how many the DJDataRefs of Swift own
  holders      \* how many there are

refVars == <<dataRefs, held, crossing, djDataRefs, holders>>
dataVars == <<platform, memory, takeOver, object, finalizer, refVars>>

DataInit ==
  /\ platform \in DataPlatforms
  /\ memory = [b \in Buffers |-> "none"]
  /\ takeOver = [b \in Buffers |-> "none"]
  /\ object = [b \in Buffers |-> "none"]
  /\ finalizer = {}
  /\ dataRefs = [b \in Buffers |-> 0]
  /\ held = {}
  /\ crossing = [b \in Buffers |-> 0]
  /\ djDataRefs = [b \in Buffers |-> 0]
  /\ holders = [b \in Buffers |-> 0]

-----------------------------------------------------------------------------
(* Creation *)

\* allocateDirect(), CFDataCreateMutable() and what the foreign program makes.
ForeignMemory(b) ==
  /\ platform # "web"
  /\ memory[b] = "none"
  /\ memory' = [memory EXCEPT ![b] = "foreign"]
  /\ object' = [object EXCEPT ![b] = "live"]
  /\ \/ /\ dataRefs' = [dataRefs EXCEPT ![b] = 1]
        /\ UNCHANGED held
     \/ /\ platform # "swift"
        /\ held' = held \union {b}
        /\ UNCHANGED dataRefs
  /\ UNCHANGED <<platform, takeOver, finalizer, crossing, djDataRefs, holders>>

\* DJDataRef.init(copying:): makeDataRef(), a DataRef only a holder has.
MakeDjDataRef(b) ==
  /\ platform = "swift"
  /\ memory[b] = "none"
  /\ memory' = [memory EXCEPT ![b] = "foreign"]
  /\ object' = [object EXCEPT ![b] = "live"]
  /\ djDataRefs' = [djDataRefs EXCEPT ![b] = 1]
  /\ holders' = [holders EXCEPT ![b] = 1]
  /\ UNCHANGED <<platform, takeOver, finalizer, dataRefs, held, crossing>>

\* takeOver() and createJsObject() where no step can fail: a container, the
\* object around it, and what frees the container with it.  allocateWasmBuffer()
\* gives the object to JavaScript.
Container(b) ==
  /\ platform # "jni"
  /\ memory[b] = "none"
  /\ memory' = [memory EXCEPT ![b] = "container"]
  /\ object' = [object EXCEPT ![b] = "live"]
  /\ finalizer' = finalizer \union {b}
  /\ \/ /\ dataRefs' = [dataRefs EXCEPT ![b] = 1]
        /\ UNCHANGED held
     \/ /\ platform = "web"
        /\ held' = held \union {b}
        /\ UNCHANGED dataRefs
  /\ UNCHANGED <<platform, takeOver, crossing, djDataRefs, holders>>

\* takeOver() of JNI, step by step: make_unique,
MakeContainer(b) ==
  /\ platform = "jni"
  /\ memory[b] = "none"
  /\ memory' = [memory EXCEPT ![b] = "container"]
  /\ takeOver' = [takeOver EXCEPT ![b] = "made"]
  /\ UNCHANGED <<platform, object, finalizer, refVars>>

\* NewDirectByteBuffer() and the GlobalRef `_data`,
WrapContainer(b) ==
  /\ takeOver[b] = "made"
  /\ object' = [object EXCEPT ![b] = "live"]
  /\ takeOver' = [takeOver EXCEPT ![b] = "wrapped"]
  /\ UNCHANGED <<platform, memory, finalizer, refVars>>

\* (Mutant of RegisterContainer.)  Release the container, do not register it.
RegisterContainerNowhere(b) ==
  /\ takeOver[b] = "wrapped"
  /\ takeOver' = [takeOver EXCEPT ![b] = "none"]
  /\ dataRefs' = [dataRefs EXCEPT ![b] = 1]
  /\ UNCHANGED <<platform, memory, object, finalizer, held, crossing, djDataRefs, holders>>

\* NativeObjectManager.register(), then p.release().
RegisterContainer(b) ==
  /\ takeOver[b] = "wrapped"
  /\ finalizer' = finalizer \union {b}
  /\ takeOver' = [takeOver EXCEPT ![b] = "none"]
  /\ dataRefs' = [dataRefs EXCEPT ![b] = 1]
  /\ UNCHANGED <<platform, memory, object, held, crossing, djDataRefs, holders>>

\* Either call throws: unwinding drops `_data` and deletes the container.
TakeOverThrows(b) ==
  /\ takeOver[b] # "none"
  /\ takeOver' = [takeOver EXCEPT ![b] = "none"]
  /\ object' = [object EXCEPT ![b] = "none"]
  /\ memory' = [memory EXCEPT ![b] = "none"]
  /\ UNCHANGED <<platform, finalizer, refVars>>

-----------------------------------------------------------------------------
(* References *)

\* A copy of a DataRef, or the DataRef of an object passed from the other side.
NewDataRef(b) ==
  /\ dataRefs[b] > 0 \/ b \in held
  /\ dataRefs[b] < MaxRefs
  /\ dataRefs' = [dataRefs EXCEPT ![b] = @ + 1]
  /\ UNCHANGED <<platform, memory, takeOver, object, finalizer, held, crossing, djDataRefs, holders>>

DropDataRef(b) ==
  /\ dataRefs[b] > 0
  /\ dataRefs' = [dataRefs EXCEPT ![b] = @ - 1]
  /\ UNCHANGED <<platform, memory, takeOver, object, finalizer, held, crossing, djDataRefs, holders>>

\* NativeDataRef::fromCpp(): the foreign object itself.
PassObject(b) ==
  /\ platform # "swift"
  /\ dataRefs[b] > 0
  /\ held' = held \union {b}
  /\ UNCHANGED <<platform, memory, takeOver, object, finalizer, dataRefs, crossing, djDataRefs, holders>>

DropForeignObject(b) ==
  /\ b \in held
  /\ held' = held \ {b}
  /\ UNCHANGED <<platform, memory, takeOver, object, finalizer, dataRefs, crossing, djDataRefs, holders>>

\* DataRefAdaptor::fromCpp() and retainDataRef(): a new holder to hand over.
SendHolder(b) ==
  /\ platform = "swift"
  /\ dataRefs[b] > 0 \/ djDataRefs[b] > 0
  /\ crossing[b] < MaxRefs
  /\ crossing' = [crossing EXCEPT ![b] = @ + 1]
  /\ holders' = [holders EXCEPT ![b] = @ + 1]
  /\ UNCHANGED <<platform, memory, takeOver, object, finalizer, dataRefs, held, djDataRefs>>

\* DataRefMarshaller.fromCpp(): a DJDataRef takes it over.
ReceiveInSwift(b) ==
  /\ crossing[b] > 0 /\ djDataRefs[b] < MaxRefs
  /\ crossing' = [crossing EXCEPT ![b] = @ - 1]
  /\ djDataRefs' = [djDataRefs EXCEPT ![b] = @ + 1]
  /\ UNCHANGED <<platform, memory, takeOver, object, finalizer, dataRefs, held, holders>>

\* DataRefAdaptor::toCpp(): moved out of the holder, which is deleted.
ReceiveInCpp(b) ==
  /\ crossing[b] > 0 /\ dataRefs[b] < MaxRefs
  /\ crossing' = [crossing EXCEPT ![b] = @ - 1]
  /\ dataRefs' = [dataRefs EXCEPT ![b] = @ + 1]
  /\ holders' = [holders EXCEPT ![b] = @ - 1]
  /\ UNCHANGED <<platform, memory, takeOver, object, finalizer, held, djDataRefs>>

\* DJDataRef.deinit: releaseDataRef().
DropDjDataRef(b) ==
  /\ djDataRefs[b] > 0
  /\ djDataRefs' = [djDataRefs EXCEPT ![b] = @ - 1]
  /\ holders' = [holders EXCEPT ![b] = @ - 1]
  /\ UNCHANGED <<platform, memory, takeOver, object, finalizer, dataRefs, held, crossing>>

-----------------------------------------------------------------------------
(* The end of the foreign object *)

\* (Mutant of Referenced.)  The holders keep a pointer to the bytes only.
ReferencedByDataRef(b) == dataRefs[b] > 0 \/ takeOver[b] = "wrapped"

\* A DataRef, a holder or a takeOver() under way has a GlobalRef, an em::val or
\* a CFRetain.
Referenced(b) == dataRefs[b] > 0 \/ holders[b] > 0 \/ takeOver[b] = "wrapped"

\* The object is gone.  Memory it brought goes with it; a CFData runs its
\* deallocator; the finalizer of a ByteBuffer or Uint8Array runs later.
CollectForeignObject(b) ==
  LET later == b \in finalizer /\ platform \in {"jni", "web"} IN
  /\ object[b] = "live" /\ ~Referenced(b) /\ b \notin held
  /\ object' = [object EXCEPT ![b] = IF later THEN "collected" ELSE "none"]
  /\ memory' = [memory EXCEPT ![b] = IF later THEN @ ELSE "none"]
  /\ finalizer' = IF later THEN finalizer ELSE finalizer \ {b}
  /\ UNCHANGED <<platform, takeOver, refVars>>

\* DataRefHelper.nativeDestroy(), releaseWasmBuffer().
Finalize(b) ==
  /\ object[b] = "collected"
  /\ object' = [object EXCEPT ![b] = "none"]
  /\ memory' = [memory EXCEPT ![b] = "none"]
  /\ finalizer' = finalizer \ {b}
  /\ UNCHANGED <<platform, takeOver, refVars>>

-----------------------------------------------------------------------------

DataNext == \E b \in Buffers :
  \/ ForeignMemory(b) \/ MakeDjDataRef(b) \/ Container(b)
  \/ MakeContainer(b) \/ WrapContainer(b) \/ RegisterContainer(b) \/ TakeOverThrows(b)
  \/ NewDataRef(b) \/ DropDataRef(b) \/ PassObject(b) \/ DropForeignObject(b)
  \/ SendHolder(b) \/ ReceiveInSwift(b) \/ ReceiveInCpp(b) \/ DropDjDataRef(b)
  \/ CollectForeignObject(b) \/ Finalize(b)

DataSpec == DataInit /\ [][DataNext]_dataVars

-----------------------------------------------------------------------------
(* Properties *)

\* The bytes are there as long as anyone can read them: a DataRef, whose buf()
\* is an address in them, a holder on its way between C++ and Swift, or the
\* foreign object in the hands of the foreign program.
BytesOutliveRefs ==
  \A b \in Buffers :
    dataRefs[b] + crossing[b] + djDataRefs[b] > 0 \/ b \in held =>
      memory[b] # "none" /\ object[b] = "live"

\* A container has exactly one owner that will free it: the unique_ptr of a
\* takeOver() that may still throw, or the finalizer of its object; and a holder
\* has one, the call it crosses in or a DJDataRef.
OneOwnerFrees ==
  \A b \in Buffers :
    /\ memory[b] = "container" <=> (takeOver[b] # "none" \/ b \in finalizer)
    /\ takeOver[b] # "none" => b \notin finalizer
    /\ b \in finalizer => object[b] # "none"
    /\ holders[b] = crossing[b] + djDataRefs[b]
=============================================================================
