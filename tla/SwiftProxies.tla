---------------------------- MODULE SwiftProxies ----------------------------
(***************************************************************************)
(* The proxy caches of the Swift runtime (swift/DjinniSupport.swift,       *)
(* swiftxx/djinni_support.cpp): dictionaries without a lock, so a program  *)
(* must not have two threads in them; this module has one.                 *)
(*                                                                         *)
(* A C++ object seen from Swift has a CppProxy, cached as an unretained    *)
(* pointer.  A Swift object seen from C++ has a ProtocolWrapper, cached    *)
(* weakly for each interface.  The context of a wrapper, which nothing     *)
(* ever releases, keeps the Swift object, so the address in a key is never *)
(* used again.                                                             *)
(***************************************************************************)
EXTENDS Naturals, FiniteSets

CONSTANTS
  SwiftCppObjects,  \* addresses of C++ objects; reused once free
  SwiftCppProxies,  \* addresses of CppProxy objects; reused once free
  SwiftKeys,        \* SwiftProxyKey: a Swift object and an interface
  Wrappers,         \* addresses of ProtocolWrappers; reused once free
  Nil

ASSUME SwiftAssumption ==
  Nil \notin SwiftCppObjects \union SwiftCppProxies \union SwiftKeys \union Wrappers

VARIABLES
  cppObjects,  \* the C++ objects that C++ code holds a shared_ptr to
  cppMap,      \* CppProxyCache.mapPtrToProxy
  inst,        \* the object a CppProxy was made for, or Nil: there is no proxy
  swiftMap,    \* SwiftProxyCache.mapPtrToProxy
  wrapped      \* the key a ProtocolWrapper was made for, or Nil

cppProxySide == <<cppObjects, cppMap, inst>>
wrapperSide == <<swiftMap, wrapped>>
swiftVars == <<cppProxySide, wrapperSide>>

SwiftInit ==
  /\ cppObjects = {}
  /\ cppMap = [o \in SwiftCppObjects |-> Nil]
  /\ inst = [p \in SwiftCppProxies |-> Nil]
  /\ swiftMap = [k \in SwiftKeys |-> Nil]
  /\ wrapped = [w \in Wrappers |-> Nil]

-----------------------------------------------------------------------------
(* C++ objects in Swift *)

InUse(o) == o \in cppObjects \union {inst[p] : p \in SwiftCppProxies}

NewCppObject(o) ==
  /\ ~InUse(o)
  /\ cppObjects' = cppObjects \union {o}
  /\ UNCHANGED <<cppMap, inst, wrapperSide>>

DropCppObject(o) ==
  /\ o \in cppObjects
  /\ cppObjects' = cppObjects \ {o}
  /\ UNCHANGED <<cppMap, inst, wrapperSide>>

\* cppInterfaceToSwift(): case 3, a new proxy.  (Case 1 returns what the map
\* holds, case 2 the Swift object of a wrapper.)
CppInterfaceToSwift(o, p) ==
  /\ o \in cppObjects
  /\ cppMap[o] = Nil
  /\ inst[p] = Nil
  /\ inst' = [inst EXCEPT ![p] = o]
  /\ cppMap' = [cppMap EXCEPT ![o] = p]
  /\ UNCHANGED <<cppObjects, wrapperSide>>

\* swiftInterfaceToCpp() of a CppProxy: its shared_ptr.
UnwrapCppProxy(p) ==
  /\ inst[p] # Nil
  /\ cppObjects' = cppObjects \union {inst[p]}
  /\ UNCHANGED <<cppMap, inst, wrapperSide>>

\* (Mutant of DeinitCppProxy.)  Do not tell the cache.
DeinitCppProxySilently(p) ==
  /\ inst[p] # Nil
  /\ inst' = [inst EXCEPT ![p] = Nil]
  /\ UNCHANGED <<cppObjects, cppMap, wrapperSide>>

\* The last reference to a CppProxy goes: deinit, then the shared_ptr.
DeinitCppProxy(p) ==
  /\ inst[p] # Nil
  /\ cppMap' = [cppMap EXCEPT ![inst[p]] = Nil]
  /\ inst' = [inst EXCEPT ![p] = Nil]
  /\ UNCHANGED <<cppObjects, wrapperSide>>

-----------------------------------------------------------------------------
(* Swift objects in C++ *)

\* swiftInterfaceToCpp(): case 3, a new wrapper.  (Case 2 makes the cached weak
\* wrapper strong without looking.)
SwiftInterfaceToCpp(k, w) ==
  /\ swiftMap[k] = Nil
  /\ wrapped[w] = Nil
  /\ wrapped' = [wrapped EXCEPT ![w] = k]
  /\ swiftMap' = [swiftMap EXCEPT ![k] = w]
  /\ UNCHANGED cppProxySide

\* C++ drops the last reference to a wrapper: ~ProtocolWrapper has
\* dispatcherProtocalCall() remove the entry of the context's key.
DestroyWrapper(w) ==
  /\ wrapped[w] # Nil
  /\ swiftMap' = [swiftMap EXCEPT ![wrapped[w]] = Nil]
  /\ wrapped' = [wrapped EXCEPT ![w] = Nil]
  /\ UNCHANGED cppProxySide

-----------------------------------------------------------------------------

SwiftNext ==
  \/ \E o \in SwiftCppObjects :
       NewCppObject(o) \/ DropCppObject(o) \/ \E p \in SwiftCppProxies : CppInterfaceToSwift(o, p)
  \/ \E p \in SwiftCppProxies : UnwrapCppProxy(p) \/ DeinitCppProxy(p)
  \/ \E k \in SwiftKeys, w \in Wrappers : SwiftInterfaceToCpp(k, w)
  \/ \E w \in Wrappers : DestroyWrapper(w)

SwiftSpec == SwiftInit /\ [][SwiftNext]_swiftVars

-----------------------------------------------------------------------------
(* Properties *)

\* Both maps hold pointers that keep nothing alive and are used without a check:
\* what they hold is the proxy, still there, of the object asked for, so that
\* neither language receives a freed proxy, a null one or a second one.
MapsHoldLiveProxies ==
  /\ \A o \in SwiftCppObjects, p \in SwiftCppProxies : cppMap[o] = p <=> inst[p] = o
  /\ \A k \in SwiftKeys, w \in Wrappers : swiftMap[k] = w <=> wrapped[w] = k

-----------------------------------------------------------------------------
\* The dictionaries amount to registries: what they say is alive is so, and the
\* proxy somebody holds is not replaced.
CppRegistry == INSTANCE ProxyRegistry WITH
  Actors <- {"Swift"}, Keys <- SwiftCppObjects, Proxies <- SwiftCppProxies, NoProxy <- Nil,
  live <- cppMap, held <- [t \in {"Swift"} |-> {p \in SwiftCppProxies : inst[p] # Nil}]

WrapperRegistry == INSTANCE ProxyRegistry WITH
  Actors <- {"C++"}, Keys <- SwiftKeys, Proxies <- Wrappers, NoProxy <- Nil,
  live <- swiftMap, held <- [t \in {"C++"} |-> {w \in Wrappers : wrapped[w] # Nil}]

SwiftImplementsRegistries == CppRegistry!Spec /\ WrapperRegistry!Spec
=============================================================================
