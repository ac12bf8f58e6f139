----------------------- MODULE ForeignProxies_proofs -----------------------
(***************************************************************************)
(* Proofs about the proxy caches that are not ProxyCache: ScriptJsProxies  *)
(* for every set of objects and any finite set of proxies,                 *)
(* ScriptCppProxies for every set of threads, JS objects, interfaces and   *)
(* proxies, and SwiftProxies for every set of objects, proxies and keys.   *)
(*                                                                         *)
(* JavaScript proxies: the count of a cache entry is the number of proxies *)
(* of the object whose finalizer has not run.                              *)
(* C++ proxies of JS objects: unless a new proxy overtook the destructor of*)
(* an old one, the cache refers to every proxy that still exists; and a    *)
(* proxy is destroyed once, by the thread that dropped its last reference. *)
(* Swift: each dictionary and the back pointers of its proxies are         *)
(* inverses, which is inductive once the variables have their types.       *)
(* The cache of JavaScript and both of Swift implement ProxyRegistry: each *)
(* step that makes a proxy, or that takes the last reference to one, is a  *)
(* step of the registry, and no other step can be told from outside.       *)
(***************************************************************************)
EXTENDS ScriptJsProxies, ScriptCppProxies, SwiftProxies, FiniteSetTheorems, TLAPS

-----------------------------------------------------------------------------
(* JavaScript proxies of C++ objects *)

JsTypes ==
  /\ owned \subseteq Objects
  /\ cppProxyCache \in [Objects -> [ref : JsProxies \union {NoJsProxy}, count : Nat]]
  /\ jsLife \in [JsProxies -> {"none", "reachable", "collected", "destroyed"}]
  /\ nativeRef \in [JsProxies -> Objects \union {NoObject}]

\* The proxies of o that nativeDestroy() has still to be called for.
Unfinalized(o) ==
  {p \in JsProxies : jsLife[p] \in {"reachable", "collected"} /\ nativeRef[p] = o}

CountInv == \A o \in Objects : cppProxyCache[o].count = Cardinality(Unfinalized(o))

\* A proxy that exists is a proxy of an object.
NativeRefInv == \A p \in JsProxies : jsLife[p] # "none" <=> nativeRef[p] # NoObject

\* The proxy JavaScript sees is the one in the cache.
ReachableInv ==
  \A p \in JsProxies : jsLife[p] = "reachable" => cppProxyCache[nativeRef[p]].ref = p

\* An entry that counts nothing is no entry.
CountedEntryInv == \A o \in Objects : cppProxyCache[o].count = 0 => cppProxyCache[o] = NoEntry

JsInv == JsTypes /\ CountInv /\ NativeRefInv /\ ReachableInv /\ CountedEntryInv

-----------------------------------------------------------------------------

LEMMA UnfinalizedFinite == \A o \in Objects : IsFiniteSet(Unfinalized(o))
  BY JsProxiesAssumption, FS_Subset DEF Unfinalized

LEMMA JsInvInit == JsInit => JsInv
<1> SUFFICES ASSUME JsInit PROVE JsInv
    OBVIOUS
<1>1. \A o \in Objects : Unfinalized(o) = {}
    BY DEF JsInit, Unfinalized
<1>2. CountInv
    BY <1>1, FS_EmptySet DEF JsInit, CountInv, NoEntry
<1> QED
    BY <1>2, JsProxiesAssumption
    DEF JsInit, JsInv, JsTypes, NativeRefInv, ReachableInv, CountedEntryInv, NoEntry

\* Steps that leave the cache and the proxies waiting for their finalizers.
Pending(p) ==
  \/ jsLife'[p] = jsLife[p]
  \/ jsLife[p] = "reachable" /\ jsLife'[p] = "collected"

LEMMA SamePending ==
  JsInv /\ cppProxyCache' = cppProxyCache /\ nativeRef' = nativeRef /\ JsTypes'
    /\ (\A p \in JsProxies : Pending(p))
  => JsInv'
<1> SUFFICES ASSUME JsInv, cppProxyCache' = cppProxyCache, nativeRef' = nativeRef, JsTypes',
                    \A p \in JsProxies : Pending(p)
             PROVE  JsInv'
    OBVIOUS
<1>1. \A o \in Objects : Unfinalized(o)' = Unfinalized(o)
    BY DEF Unfinalized, Pending
<1> QED
    BY <1>1
    DEF JsInv, JsTypes, CountInv, NativeRefInv, ReachableInv, CountedEntryInv, NoEntry, Pending

LEMMA ToJsStep ==
  ASSUME JsInv, NEW o \in Objects, NEW p \in JsProxies, ToJs(o, p)
  PROVE  JsInv'
<1> USE DEF JsInv, JsTypes
<1>1. /\ jsLife' = [jsLife EXCEPT ![p] = "reachable"]
      /\ nativeRef' = [nativeRef EXCEPT ![p] = o]
      /\ cppProxyCache' = [cppProxyCache EXCEPT ![o] = [ref |-> p, count |-> 1 + cppProxyCache[o].count]]
      /\ jsLife[p] = "none"
      /\ nativeRef[p] = NoObject
      /\ Expired(o)
      /\ UNCHANGED owned
      /\ o # NoObject
    BY JsProxiesAssumption DEF ToJs, NativeRefInv
<1>2. Unfinalized(o)' = Unfinalized(o) \union {p} /\ p \notin Unfinalized(o)
    BY <1>1 DEF Unfinalized
<1>3. \A c \in Objects \ {o} : Unfinalized(c)' = Unfinalized(c)
    BY <1>1 DEF Unfinalized
<1>4. Cardinality(Unfinalized(o)') = Cardinality(Unfinalized(o)) + 1
    BY <1>2, UnfinalizedFinite, FS_AddElement
<1>5. \A c \in Objects : Cardinality(Unfinalized(c)) \in Nat
    BY UnfinalizedFinite, FS_CardinalityType
<1>6. JsTypes'
    BY <1>1, <1>5 DEF CountInv
<1>7. CountInv'
    BY <1>1, <1>3, <1>4, <1>5 DEF CountInv
<1>8. NativeRefInv'
    BY <1>1 DEF NativeRefInv
<1>9. ReachableInv'
  <2> SUFFICES ASSUME NEW r \in JsProxies, jsLife'[r] = "reachable"
               PROVE  cppProxyCache'[nativeRef'[r]].ref = r
      BY DEF ReachableInv
  <2>1. CASE r = p
      BY <1>1, <2>1
  <2>2. CASE r # p
    <3>1. jsLife[r] = "reachable" /\ nativeRef'[r] = nativeRef[r] /\ cppProxyCache[nativeRef[r]].ref = r
        BY <1>1, <2>2 DEF ReachableInv
    <3>2. nativeRef[r] # o
        BY <1>1, <3>1, JsProxiesAssumption DEF Expired
    <3>3. nativeRef[r] \in Objects
        BY <3>1 DEF NativeRefInv
    <3> QED BY <1>1, <3>1, <3>2, <3>3
  <2> QED BY <2>1, <2>2
<1>10. CountedEntryInv'
    BY <1>1, <1>5 DEF CountedEntryInv, CountInv, NoEntry
<1> QED
    BY <1>6, <1>7, <1>8, <1>9, <1>10

LEMMA NativeDestroyStep ==
  ASSUME JsInv, NEW p \in JsProxies, NativeDestroy(p)
  PROVE  JsInv'
<1> DEFINE o == nativeRef[p]
           n == cppProxyCache[o].count
<1> USE DEF JsInv, JsTypes
<1>1. /\ jsLife[p] = "collected"
      /\ jsLife' = [jsLife EXCEPT ![p] = "destroyed"]
      /\ cppProxyCache' =
           [cppProxyCache EXCEPT ![o] = IF n = 1 THEN NoEntry ELSE [cppProxyCache[o] EXCEPT !.count = n - 1]]
      /\ UNCHANGED <<owned, nativeRef>>
    BY DEF NativeDestroy
<1>2. o \in Objects
    BY <1>1 DEF NativeRefInv
<1>3. Unfinalized(o)' = Unfinalized(o) \ {p} /\ p \in Unfinalized(o)
    BY <1>1 DEF Unfinalized
<1>4. \A c \in Objects \ {o} : Unfinalized(c)' = Unfinalized(c)
    BY <1>1 DEF Unfinalized
<1>5. Cardinality(Unfinalized(o)') = Cardinality(Unfinalized(o)) - 1
    BY <1>2, <1>3, UnfinalizedFinite, FS_RemoveElement
<1>6. \A c \in Objects : Cardinality(Unfinalized(c)) \in Nat
    BY UnfinalizedFinite, FS_CardinalityType
<1>7. Cardinality(Unfinalized(o)) # 0
    BY <1>2, <1>3, UnfinalizedFinite, FS_EmptySet
<1>8. n \in Nat /\ n # 0 /\ n - 1 \in Nat /\ n = Cardinality(Unfinalized(o))
    BY <1>2, <1>6, <1>7 DEF CountInv
<1>9. JsTypes'
    BY <1>1, <1>2, <1>8 DEF NoEntry
<1>10. CountInv'
  <2>1. cppProxyCache'[o].count = n - 1
      BY <1>1, <1>2, <1>8 DEF NoEntry
  <2> QED
      BY <1>1, <1>2, <1>4, <1>5, <1>8, <2>1 DEF CountInv
<1>11. NativeRefInv'
    BY <1>1 DEF NativeRefInv
<1>12. ReachableInv'
  <2> SUFFICES ASSUME NEW r \in JsProxies, jsLife'[r] = "reachable"
               PROVE  cppProxyCache'[nativeRef'[r]].ref = r
      BY DEF ReachableInv
  <2>1. jsLife[r] = "reachable" /\ r # p /\ nativeRef[r] \in Objects /\ cppProxyCache[nativeRef[r]].ref = r
      BY <1>1 DEF ReachableInv, NativeRefInv
  <2>2. CASE nativeRef[r] # o
      BY <1>1, <2>1, <2>2
  <2>3. CASE nativeRef[r] = o
    <3>1. r \in Unfinalized(o) \ {p}
        BY <2>1, <2>3 DEF Unfinalized
    <3>2. IsFiniteSet(Unfinalized(o) \ {p})
        BY <1>2, UnfinalizedFinite, FS_Subset
    <3>3. Cardinality(Unfinalized(o) \ {p}) # 0
        BY <3>1, <3>2, FS_EmptySet
    <3>4. n # 1
        BY <1>3, <1>5, <1>8, <3>3
    <3> QED BY <1>1, <2>1, <2>3, <3>4
  <2> QED BY <2>2, <2>3
<1>13. CountedEntryInv'
    BY <1>1, <1>2, <1>8 DEF CountedEntryInv, NoEntry
<1> QED
    BY <1>9, <1>10, <1>11, <1>12, <1>13

LEMMA DeleteNativeRefStep ==
  ASSUME JsInv, NEW p \in JsProxies, DeleteNativeRef(p)
  PROVE  JsInv'
<1> USE DEF JsInv, JsTypes
<1>1. \A o \in Objects : Unfinalized(o)' = Unfinalized(o)
    BY DEF DeleteNativeRef, Unfinalized
<1>2. CountInv'
    BY <1>1 DEF DeleteNativeRef, CountInv
<1> QED
    BY <1>2 DEF DeleteNativeRef, NativeRefInv, ReachableInv, CountedEntryInv, NoEntry

LEMMA JsInvNext == JsInv /\ [JsNext]_jsVars => JsInv'
<1> SUFFICES ASSUME JsInv, [JsNext]_jsVars
             PROVE  JsInv'
    OBVIOUS
<1>1. ASSUME NEW o \in Objects, NewObject(o) \/ DropObject(o)
      PROVE  JsInv'
  <2>1. /\ cppProxyCache' = cppProxyCache /\ nativeRef' = nativeRef
        /\ jsLife' = jsLife /\ owned' \subseteq Objects
      BY <1>1 DEF NewObject, DropObject, JsInv, JsTypes
  <2>2. JsTypes'
      BY <2>1 DEF JsInv, JsTypes
  <2>3. \A q \in JsProxies : Pending(q)
      BY <2>1 DEF Pending
  <2> QED BY <2>1, <2>2, <2>3, SamePending
<1>2. ASSUME NEW p \in JsProxies, FromJsProxy(p)
      PROVE  JsInv'
  <2>1. /\ cppProxyCache' = cppProxyCache /\ nativeRef' = nativeRef
        /\ jsLife' = jsLife /\ owned' \subseteq Objects
      BY <1>2 DEF FromJsProxy, JsInv, JsTypes, NativeRefInv
  <2>2. JsTypes'
      BY <2>1 DEF JsInv, JsTypes
  <2>3. \A q \in JsProxies : Pending(q)
      BY <2>1 DEF Pending
  <2> QED BY <2>1, <2>2, <2>3, SamePending
<1>3. ASSUME NEW p \in JsProxies, CollectJsProxy(p)
      PROVE  JsInv'
  <2>1. /\ owned' = owned /\ cppProxyCache' = cppProxyCache /\ nativeRef' = nativeRef
        /\ jsLife' = [jsLife EXCEPT ![p] = "collected"] /\ jsLife[p] = "reachable"
      BY <1>3 DEF CollectJsProxy
  <2>2. JsTypes'
      BY <2>1 DEF JsInv, JsTypes
  <2>3. \A q \in JsProxies : Pending(q)
      BY <2>1 DEF JsInv, JsTypes, Pending
  <2> QED BY <2>1, <2>2, <2>3, SamePending
<1>4. CASE UNCHANGED jsVars
  <2>1. /\ owned' = owned /\ cppProxyCache' = cppProxyCache
        /\ jsLife' = jsLife /\ nativeRef' = nativeRef
      BY <1>4 DEF jsVars
  <2>2. JsTypes'
      BY <2>1 DEF JsInv, JsTypes
  <2>3. \A q \in JsProxies : Pending(q)
      BY <2>1 DEF Pending
  <2> QED BY <2>1, <2>2, <2>3, SamePending
<1> QED
    BY <1>1, <1>2, <1>3, <1>4, ToJsStep, NativeDestroyStep, DeleteNativeRefStep DEF JsNext

\* JavaScript sees one proxy of a C++ object, no entry outlives the object whose
\* address is its key, and nativeDestroy() finds the entry that counts the proxy
\* (djinni_wasm.cpp, djinni_valdi.cpp: GetOrCreateCppProxy and nativeDestroy).
THEOREM JsProxiesStayConsistent == JsSpec => []JsProxiesConsistent
<1>1. JsInv => JsProxiesConsistent
  <2> SUFFICES ASSUME JsInv PROVE JsProxiesConsistent
      OBVIOUS
  <2> USE DEF JsInv, JsTypes
  <2>1. \A p, r \in JsProxies :
          jsLife[p] = "reachable" /\ jsLife[r] = "reachable" /\ nativeRef[p] = nativeRef[r] => p = r
      BY DEF ReachableInv
  <2>2. ASSUME NEW o \in Objects, cppProxyCache[o] # NoEntry PROVE Living(o)
    <3>1. Unfinalized(o) # {}
        BY <2>2, FS_EmptySet DEF CountedEntryInv, CountInv
    <3> QED BY <3>1 DEF Unfinalized, Living
  <2>3. ASSUME NEW p \in JsProxies, jsLife[p] \in {"reachable", "collected"}
        PROVE  cppProxyCache[nativeRef[p]].count > 0
    <3>1. nativeRef[p] \in Objects
        BY <2>3 DEF NativeRefInv
    <3>2. p \in Unfinalized(nativeRef[p])
        BY <2>3 DEF Unfinalized
    <3>3. Cardinality(Unfinalized(nativeRef[p])) # 0
        BY <3>1, <3>2, UnfinalizedFinite, FS_EmptySet
    <3>4. Cardinality(Unfinalized(nativeRef[p])) \in Nat
        BY <3>1, UnfinalizedFinite, FS_CardinalityType
    <3> QED BY <3>1, <3>3, <3>4 DEF CountInv
  <2> QED BY <2>1, <2>2, <2>3 DEF JsProxiesConsistent
<1> QED
    BY <1>1, JsInvInit, JsInvNext, PTL DEF JsSpec

-----------------------------------------------------------------------------
(* C++ proxies of JavaScript objects *)

CppTypes ==
  /\ jsProxyCache \in [JsObjects -> CppProxies \union {NoCppProxy}]
  /\ cppLife \in [CppProxies -> {"none", "alive", "dying"}]
  /\ kind \in [CppProxies -> Kinds \union {NoKind}]
  /\ sharedPtrs \in [CppThreads -> SUBSET CppProxies]
  /\ step \in [CppThreads -> {"idle", "found", "destroying"}]
  /\ proxy \in [CppThreads -> CppProxies \union {NoCppProxy}]

\* A proxy that exists was made for a JS object.
KindInv == \A q \in CppProxies : cppLife[q] # "none" => kind[q] \in Kinds

\* References keep their proxies alive, and only one thread destroys one.
RefInv ==
  \A t \in CppThreads :
    /\ \A q \in sharedPtrs[t] : cppLife[q] = "alive"
    /\ step[t] = "idle" => proxy[t] = NoCppProxy
    /\ step[t] = "found" => t = JsThread /\ proxy[t] \in CppProxies /\ cppLife[proxy[t]] = "alive"
    /\ step[t] = "destroying" =>
         /\ proxy[t] \in CppProxies /\ cppLife[proxy[t]] = "dying"
         /\ \A u \in CppThreads \ {t} : proxy[u] # proxy[t]

\* The cache refers to the proxy of an object, dying or not.
CachedInv ==
  \A q \in CppProxies :
    cppLife[q] # "none" /\ kind[q][1] \notin overtaken => jsProxyCache[kind[q][1]] = q

\* An entry refers to a proxy that exists, and a dying one to the thread that
\* will erase it.
EntryInv ==
  \A j \in JsObjects :
    LET q == jsProxyCache[j] IN
    q # NoCppProxy /\ j \notin overtaken => cppLife[q] # "none" /\ kind[q][1] = j

DyingInv ==
  \A q \in CppProxies :
    cppLife[q] = "dying" => \E t \in CppThreads : step[t] = "destroying" /\ proxy[t] = q

CppInv == CppTypes /\ KindInv /\ RefInv /\ CachedInv /\ EntryInv /\ DyingInv

-----------------------------------------------------------------------------

LEMMA CppInvInit == CppInit => CppInv
  BY DEF CppInit, CppInv, CppTypes, KindInv, RefInv, CachedInv, EntryInv, DyingInv

LEMMA FindStep ==
  ASSUME CppInv, NEW j \in JsObjects, NEW i \in JsInterfaces, FindCppProxy(j, i)
  PROVE  CppInv'
<1> USE CppProxiesAssumption DEF CppInv, CppTypes, FindCppProxy, CppAlive, StepTo, CppThreads
<1>1. CppTypes' /\ KindInv' /\ CachedInv' /\ EntryInv' /\ DyingInv'
    BY DEF KindInv, CachedInv, EntryInv, DyingInv
<1>2. RefInv'
    BY DEF RefInv
<1> QED BY <1>1, <1>2

LEMMA NewStep ==
  ASSUME CppInv, NEW j \in JsObjects, NEW i \in JsInterfaces, NEW q \in CppProxies,
         NewCppProxy(j, i, q)
  PROVE  CppInv'
<1> USE CppProxiesAssumption DEF CppInv, CppTypes, NewCppProxy, CppAlive, CppThreads
<1>1. <<j, i>> \in Kinds /\ <<j, i>>[1] = j
    BY DEF Kinds
<1>2. CppTypes'
    BY <1>1
<1>3. KindInv'
    BY <1>1 DEF KindInv
<1>4. RefInv'
    BY DEF RefInv
<1>5. jsProxyCache[j] = NoCppProxy \/ j \in overtaken'
  <2> SUFFICES ASSUME jsProxyCache[j] # NoCppProxy, j \notin overtaken
               PROVE  j \in overtaken'
      OBVIOUS
  <2>1. cppLife[jsProxyCache[j]] = "dying" /\ kind[jsProxyCache[j]][1] = j
      BY DEF EntryInv
  <2>2. AwaitsDestructor(j)
      BY <2>1 DEF DyingInv, AwaitsDestructor
  <2> QED BY <2>2
<1>6. overtaken \subseteq overtaken' /\ \A c \in JsObjects \ {j} : c \in overtaken' => c \in overtaken
    OBVIOUS
<1>7. CachedInv'
  <2> SUFFICES ASSUME NEW r \in CppProxies, cppLife'[r] # "none", kind'[r][1] \notin overtaken'
               PROVE  jsProxyCache'[kind'[r][1]] = r
      BY DEF CachedInv
  <2>1. CASE r = q
      BY <1>1, <1>5, <2>1
  <2>2. CASE r # q
    <3>1. cppLife[r] # "none" /\ kind'[r] = kind[r] /\ kind[r] \in Kinds
        BY <2>2 DEF KindInv
    <3>2. kind[r][1] \in JsObjects
        BY <3>1 DEF Kinds
    <3>3. jsProxyCache[kind[r][1]] = r
        BY <1>6, <3>1 DEF CachedInv
    <3> QED BY <3>1, <3>2, <3>3
  <2> QED BY <2>1, <2>2
<1>8. EntryInv'
  <2> SUFFICES ASSUME NEW c \in JsObjects, jsProxyCache'[c] # NoCppProxy, c \notin overtaken'
               PROVE  cppLife'[jsProxyCache'[c]] # "none" /\ kind'[jsProxyCache'[c]][1] = c
      BY DEF EntryInv
  <2>1. CASE c = j
      BY <1>1, <1>5, <2>1
  <2>2. CASE c # j
      BY <1>6, <2>2 DEF EntryInv
  <2> QED BY <2>1, <2>2
<1>9. DyingInv'
    BY DEF DyingInv
<1> QED BY <1>2, <1>3, <1>4, <1>7, <1>8, <1>9

LEMMA ReturnStep == CppInv /\ ReturnCppProxy => CppInv'
<1> SUFFICES ASSUME CppInv, ReturnCppProxy PROVE CppInv'
    OBVIOUS
<1> USE CppProxiesAssumption DEF CppInv, CppTypes, ReturnCppProxy, StepTo, CppThreads
<1>1. CppTypes' /\ KindInv' /\ CachedInv' /\ EntryInv' /\ DyingInv'
    BY DEF KindInv, CachedInv, EntryInv, DyingInv, RefInv
<1>2. RefInv'
    BY DEF RefInv
<1> QED BY <1>1, <1>2

LEMMA LoseStep == CppInv /\ LoseCppProxy => CppInv'
<1> SUFFICES ASSUME CppInv, LoseCppProxy PROVE CppInv'
    OBVIOUS
<1> USE CppProxiesAssumption
    DEF CppInv, CppTypes, LoseCppProxy, LastOnFailedCast, HeldElsewhere, StepTo, CppThreads
<1>1. CppTypes' /\ KindInv' /\ CachedInv' /\ EntryInv' /\ DyingInv'
    BY DEF KindInv, CachedInv, EntryInv, DyingInv, RefInv
<1>2. RefInv'
    BY DEF RefInv
<1> QED BY <1>1, <1>2

LEMMA ShareStep ==
  ASSUME CppInv, NEW t \in CppThreads, NEW u \in CppThreads, NEW q \in CppProxies,
         ShareCppProxy(t, u, q)
  PROVE  CppInv'
  BY DEF CppInv, CppTypes, ShareCppProxy, KindInv, CachedInv, EntryInv, DyingInv, RefInv

LEMMA DropStep ==
  ASSUME CppInv, NEW t \in CppThreads, NEW q \in CppProxies, DropCppProxy(t, q)
  PROVE  CppInv'
<1> USE CppProxiesAssumption DEF CppInv, CppTypes
<1>1. /\ q \in sharedPtrs[t] /\ step[t] = "idle"
      /\ cppLife[q] = "alive" /\ proxy[t] = NoCppProxy
      /\ sharedPtrs' = [sharedPtrs EXCEPT ![t] = sharedPtrs[t] \ {q}]
      /\ jsProxyCache' = jsProxyCache /\ kind' = kind /\ overtaken' = overtaken
    BY DEF DropCppProxy, RefInv
<1>2. CASE HeldElsewhere(q, t)
  <2>1. cppLife' = cppLife /\ proxy' = proxy /\ step' = step
      BY <1>1, <1>2 DEF DropCppProxy, StepTo
  <2> QED BY <1>1, <2>1 DEF KindInv, CachedInv, EntryInv, DyingInv, RefInv
<1>3. CASE ~HeldElsewhere(q, t)
  <2>1. /\ cppLife' = [cppLife EXCEPT ![q] = "dying"]
        /\ proxy' = [proxy EXCEPT ![t] = q]
        /\ step' = [step EXCEPT ![t] = "destroying"]
      BY <1>1, <1>3 DEF DropCppProxy, StepTo
  <2>2. \A u \in CppThreads \ {t} : q \notin sharedPtrs[u] /\ proxy[u] # q
      BY <1>3 DEF HeldElsewhere
  <2>3. CppTypes' /\ KindInv' /\ CachedInv' /\ EntryInv' /\ DyingInv'
      BY <1>1, <2>1 DEF KindInv, CachedInv, EntryInv, DyingInv
  <2>4. RefInv'
      BY <1>1, <2>1, <2>2 DEF RefInv
  <2> QED BY <2>3, <2>4
<1> QED BY <1>2, <1>3

LEMMA DestroyStep ==
  ASSUME CppInv, NEW t \in CppThreads, DestroyCppProxy(t)
  PROVE  CppInv'
<1> DEFINE q == proxy[t]
           j == kind[q][1]
<1> USE CppProxiesAssumption DEF CppInv, CppTypes
<1>1. /\ q \in CppProxies /\ cppLife[q] = "dying" /\ kind[q] \in Kinds
      /\ jsProxyCache' = [jsProxyCache EXCEPT ![j] = NoCppProxy]
      /\ cppLife' = [cppLife EXCEPT ![q] = "none"]
      /\ kind' = [kind EXCEPT ![q] = NoKind]
      /\ proxy' = [proxy EXCEPT ![t] = NoCppProxy]
      /\ step' = [step EXCEPT ![t] = "idle"]
      /\ sharedPtrs' = sharedPtrs /\ overtaken' = overtaken
      /\ \A u \in CppThreads \ {t} : proxy[u] # q
    BY DEF DestroyCppProxy, RefInv, KindInv, StepTo
<1>2. j \in JsObjects
    BY <1>1 DEF Kinds
<1>3. CppTypes' /\ KindInv'
    BY <1>1, <1>2 DEF KindInv
<1>4. RefInv'
    BY <1>1 DEF RefInv
<1>5. CachedInv'
  <2> SUFFICES ASSUME NEW r \in CppProxies, cppLife'[r] # "none", kind'[r][1] \notin overtaken'
               PROVE  jsProxyCache'[kind'[r][1]] = r
      BY DEF CachedInv
  <2>1. r # q /\ cppLife[r] # "none" /\ kind'[r] = kind[r] /\ kind[r] \in Kinds
      BY <1>1 DEF KindInv
  <2>2. jsProxyCache[kind[r][1]] = r /\ kind[r][1] \in JsObjects
      BY <1>1, <2>1 DEF CachedInv, Kinds
  <2>3. kind[r][1] = j => FALSE
      BY <1>1, <2>1, <2>2 DEF CachedInv
  <2> QED BY <1>1, <2>1, <2>2, <2>3
<1>6. EntryInv'
  <2> SUFFICES ASSUME NEW c \in JsObjects, jsProxyCache'[c] # NoCppProxy, c \notin overtaken'
               PROVE  cppLife'[jsProxyCache'[c]] # "none" /\ kind'[jsProxyCache'[c]][1] = c
      BY DEF EntryInv
  <2>1. c # j /\ jsProxyCache'[c] = jsProxyCache[c] /\ jsProxyCache[c] \in CppProxies
      BY <1>1, <1>2
  <2>2. cppLife[jsProxyCache[c]] # "none" /\ kind[jsProxyCache[c]][1] = c
      BY <1>1, <2>1 DEF EntryInv
  <2>3. jsProxyCache[c] # q
      BY <2>1, <2>2
  <2> QED BY <1>1, <2>1, <2>2, <2>3
<1>7. DyingInv'
    BY <1>1 DEF DyingInv
<1> QED BY <1>3, <1>4, <1>5, <1>6, <1>7

LEMMA CppInvNext == CppInv /\ [CppNext]_cppVars => CppInv'
<1>1. CppInv /\ UNCHANGED cppVars => CppInv'
    BY DEF CppInv, CppTypes, KindInv, RefInv, CachedInv, EntryInv, DyingInv, cppVars
<1>2. CppInv /\ CppNext => CppInv'
    BY FindStep, NewStep, ReturnStep, LoseStep, ShareStep, DropStep, DestroyStep DEF CppNext
<1> QED BY <1>1, <1>2

\* C++ has one proxy of a JS object, on whichever thread the last reference to it
\* goes, until a new proxy overtakes the destructor of an old one
\* (djinni_wasm.hpp:560-600, djinni_valdi.hpp).
THEOREM OneCppProxy == CppSpec => []OneCppProxyPerObject
<1>1. CppInv => OneCppProxyPerObject
    BY DEF CppInv, CachedInv, OneCppProxyPerObject, CppAlive
<1> QED
    BY <1>1, CppInvInit, CppInvNext, PTL DEF CppSpec

-----------------------------------------------------------------------------
(* The dictionaries of Swift *)

SwiftTypes ==
  /\ cppMap \in [SwiftCppObjects -> SwiftCppProxies \union {Nil}]
  /\ inst \in [SwiftCppProxies -> SwiftCppObjects \union {Nil}]
  /\ swiftMap \in [SwiftKeys -> Wrappers \union {Nil}]
  /\ wrapped \in [Wrappers -> SwiftKeys \union {Nil}]

SwiftInv == SwiftTypes /\ MapsHoldLiveProxies

LEMMA SwiftInvInit == SwiftInit => SwiftInv
  BY SwiftAssumption
  DEF SwiftInit, SwiftInv, SwiftTypes, MapsHoldLiveProxies

LEMMA SwiftInvNext == SwiftInv /\ [SwiftNext]_swiftVars => SwiftInv'
<1> SUFFICES ASSUME SwiftInv, [SwiftNext]_swiftVars
             PROVE  SwiftInv'
    OBVIOUS
<1> USE SwiftAssumption DEF SwiftInv, SwiftTypes, MapsHoldLiveProxies
<1>1. CASE UNCHANGED <<cppMap, inst, swiftMap, wrapped>>
    BY <1>1
<1>2. ASSUME NEW o \in SwiftCppObjects, NEW p \in SwiftCppProxies, CppInterfaceToSwift(o, p)
      PROVE  SwiftInv'
    BY <1>2 DEF CppInterfaceToSwift, wrapperSide
<1>3. ASSUME NEW p \in SwiftCppProxies, DeinitCppProxy(p)
      PROVE  SwiftInv'
    BY <1>3 DEF DeinitCppProxy, wrapperSide
<1>4. ASSUME NEW k \in SwiftKeys, NEW w \in Wrappers, SwiftInterfaceToCpp(k, w)
      PROVE  SwiftInv'
    BY <1>4 DEF SwiftInterfaceToCpp, cppProxySide
<1>5. ASSUME NEW w \in Wrappers, DestroyWrapper(w)
      PROVE  SwiftInv'
    BY <1>5 DEF DestroyWrapper, cppProxySide
<1>6. ASSUME NEW o \in SwiftCppObjects, NewCppObject(o) \/ DropCppObject(o)
      PROVE  SwiftInv'
    BY <1>1, <1>6 DEF NewCppObject, DropCppObject, wrapperSide
<1>7. ASSUME NEW p \in SwiftCppProxies, UnwrapCppProxy(p)
      PROVE  SwiftInv'
    BY <1>1, <1>7 DEF UnwrapCppProxy, wrapperSide
<1>8. CASE UNCHANGED swiftVars
    BY <1>1, <1>8 DEF swiftVars, cppProxySide, wrapperSide
<1> QED
    BY <1>2, <1>3, <1>4, <1>5, <1>6, <1>7, <1>8 DEF SwiftNext

\* Both dictionaries, which keep nothing alive and are used without a check,
\* hold the one live proxy of the object asked for or nothing
\* (DjinniSupport.swift:96-170).
THEOREM SwiftMapsExact == SwiftSpec => []MapsHoldLiveProxies
<1>1. SwiftInv => MapsHoldLiveProxies
    BY DEF SwiftInv
<1> QED
    BY <1>1, SwiftInvInit, SwiftInvNext, PTL DEF SwiftSpec

-----------------------------------------------------------------------------
(* The registries they implement *)

SwiftHeld == [t \in {"Swift"} |-> {p \in SwiftCppProxies : inst[p] # Nil}]
CppHeld == [t \in {"C++"} |-> {w \in Wrappers : wrapped[w] # Nil}]

CppRegistryStep == CppRegistry!Next \/ UNCHANGED <<cppMap, SwiftHeld>>
WrapperRegistryStep == WrapperRegistry!Next \/ UNCHANGED <<swiftMap, CppHeld>>

LEMMA CppProxyStep ==
  ASSUME SwiftInv, NEW o \in SwiftCppObjects, NEW p \in SwiftCppProxies, CppInterfaceToSwift(o, p)
  PROVE  CppRegistryStep
<1> USE SwiftAssumption DEF SwiftInv, SwiftTypes, MapsHoldLiveProxies
<1>1. /\ cppMap[o] = Nil /\ \A j \in SwiftCppObjects : cppMap[j] # p
      /\ cppMap' = [cppMap EXCEPT ![o] = p] /\ inst' = [inst EXCEPT ![p] = o] /\ o # Nil
  BY DEF CppInterfaceToSwift
<1>2. SwiftHeld' = [SwiftHeld EXCEPT !["Swift"] = @ \union {p}]
  BY <1>1 DEF SwiftHeld
<1>3. CppRegistry!Create("Swift", o, p)
  BY <1>1, <1>2 DEF CppRegistry!Create, SwiftHeld
<1> QED
  BY <1>3 DEF CppRegistryStep, CppRegistry!Next

LEMMA DeinitStep ==
  ASSUME SwiftInv, NEW p \in SwiftCppProxies, DeinitCppProxy(p)
  PROVE  CppRegistryStep
<1> USE SwiftAssumption DEF SwiftInv, SwiftTypes, MapsHoldLiveProxies
<1>1. PICK o \in SwiftCppObjects : o = inst[p]
  BY DEF DeinitCppProxy
<1>2. /\ cppMap[o] = p /\ o # Nil
      /\ cppMap' = [cppMap EXCEPT ![o] = Nil] /\ inst' = [inst EXCEPT ![p] = Nil]
  BY <1>1 DEF DeinitCppProxy
<1>3. SwiftHeld' = [SwiftHeld EXCEPT !["Swift"] = @ \ {p}] /\ p \in SwiftHeld["Swift"]
  BY <1>1, <1>2 DEF SwiftHeld
<1>4. CppRegistry!ReleaseLast("Swift", o)
  BY <1>2, <1>3 DEF CppRegistry!ReleaseLast, SwiftHeld
<1> QED
  BY <1>4 DEF CppRegistryStep, CppRegistry!Next

LEMMA WrapperStep ==
  ASSUME SwiftInv, NEW k \in SwiftKeys, NEW w \in Wrappers, SwiftInterfaceToCpp(k, w)
  PROVE  WrapperRegistryStep
<1> USE SwiftAssumption DEF SwiftInv, SwiftTypes, MapsHoldLiveProxies
<1>1. /\ swiftMap[k] = Nil /\ \A j \in SwiftKeys : swiftMap[j] # w
      /\ swiftMap' = [swiftMap EXCEPT ![k] = w] /\ wrapped' = [wrapped EXCEPT ![w] = k] /\ k # Nil
  BY DEF SwiftInterfaceToCpp
<1>2. CppHeld' = [CppHeld EXCEPT !["C++"] = @ \union {w}]
  BY <1>1 DEF CppHeld
<1>3. WrapperRegistry!Create("C++", k, w)
  BY <1>1, <1>2 DEF WrapperRegistry!Create, CppHeld
<1> QED
  BY <1>3 DEF WrapperRegistryStep, WrapperRegistry!Next

LEMMA DestroyWrapperStep ==
  ASSUME SwiftInv, NEW w \in Wrappers, DestroyWrapper(w)
  PROVE  WrapperRegistryStep
<1> USE SwiftAssumption DEF SwiftInv, SwiftTypes, MapsHoldLiveProxies
<1>1. PICK k \in SwiftKeys : k = wrapped[w]
  BY DEF DestroyWrapper
<1>2. /\ swiftMap[k] = w /\ k # Nil
      /\ swiftMap' = [swiftMap EXCEPT ![k] = Nil] /\ wrapped' = [wrapped EXCEPT ![w] = Nil]
  BY <1>1 DEF DestroyWrapper
<1>3. CppHeld' = [CppHeld EXCEPT !["C++"] = @ \ {w}] /\ w \in CppHeld["C++"]
  <2>1. \A v \in Wrappers : wrapped'[v] # Nil <=> wrapped[v] # Nil /\ v # w
    BY <1>2
  <2>2. wrapped[w] # Nil
    BY <1>1, <1>2
  <2>3. {v \in Wrappers : wrapped'[v] # Nil} = {v \in Wrappers : wrapped[v] # Nil} \ {w}
    BY <2>1
  <2> QED
    BY <2>2, <2>3 DEF CppHeld
<1>4. WrapperRegistry!ReleaseLast("C++", k)
  BY <1>2, <1>3 DEF WrapperRegistry!ReleaseLast, CppHeld
<1> QED
  BY <1>4 DEF WrapperRegistryStep, WrapperRegistry!Next

LEMMA SwiftStepsImplement ==
  SwiftInv /\ [SwiftNext]_swiftVars => CppRegistryStep /\ WrapperRegistryStep
<1> SUFFICES ASSUME SwiftInv, [SwiftNext]_swiftVars PROVE CppRegistryStep /\ WrapperRegistryStep
  OBVIOUS
<1>1. UNCHANGED <<cppMap, inst>> => CppRegistryStep
  BY DEF CppRegistryStep, SwiftHeld
<1>2. UNCHANGED <<swiftMap, wrapped>> => WrapperRegistryStep
  BY DEF WrapperRegistryStep, CppHeld
<1>3. ASSUME NEW o \in SwiftCppObjects, NewCppObject(o) \/ DropCppObject(o)
      PROVE  CppRegistryStep /\ WrapperRegistryStep
  BY <1>1, <1>2, <1>3 DEF NewCppObject, DropCppObject, wrapperSide
<1>4. ASSUME NEW p \in SwiftCppProxies, UnwrapCppProxy(p)
      PROVE  CppRegistryStep /\ WrapperRegistryStep
  BY <1>1, <1>2, <1>4 DEF UnwrapCppProxy, wrapperSide
<1>5. ASSUME NEW o \in SwiftCppObjects, NEW p \in SwiftCppProxies, CppInterfaceToSwift(o, p)
      PROVE  CppRegistryStep /\ WrapperRegistryStep
  <2>1. UNCHANGED <<swiftMap, wrapped>>
    BY <1>5 DEF CppInterfaceToSwift, wrapperSide
  <2> QED
    BY <1>2, <1>5, <2>1, CppProxyStep
<1>6. ASSUME NEW p \in SwiftCppProxies, DeinitCppProxy(p)
      PROVE  CppRegistryStep /\ WrapperRegistryStep
  <2>1. UNCHANGED <<swiftMap, wrapped>>
    BY <1>6 DEF DeinitCppProxy, wrapperSide
  <2> QED
    BY <1>2, <1>6, <2>1, DeinitStep
<1>7. ASSUME NEW k \in SwiftKeys, NEW w \in Wrappers, SwiftInterfaceToCpp(k, w)
      PROVE  CppRegistryStep /\ WrapperRegistryStep
  <2>1. UNCHANGED <<cppMap, inst>>
    BY <1>7 DEF SwiftInterfaceToCpp, cppProxySide
  <2> QED
    BY <1>1, <1>7, <2>1, WrapperStep
<1>8. ASSUME NEW w \in Wrappers, DestroyWrapper(w)
      PROVE  CppRegistryStep /\ WrapperRegistryStep
  <2>1. UNCHANGED <<cppMap, inst>>
    BY <1>8 DEF DestroyWrapper, cppProxySide
  <2> QED
    BY <1>1, <1>8, <2>1, DestroyWrapperStep
<1>9. CASE UNCHANGED swiftVars
  BY <1>1, <1>2, <1>9 DEF swiftVars, cppProxySide, wrapperSide
<1> QED
  BY <1>3, <1>4, <1>5, <1>6, <1>7, <1>8, <1>9 DEF SwiftNext

LEMMA SwiftStartsRegistries == SwiftInit => CppRegistry!Init /\ WrapperRegistry!Init
  BY DEF SwiftInit, CppRegistry!Init, WrapperRegistry!Init

\* What Swift holds of C++, and C++ of Swift, are registries like that of the
\* generic cache, although the dictionaries keep nothing alive
\* (DjinniSupport.swift:96-170).
THEOREM SwiftCachesAreRegistries == SwiftSpec => SwiftImplementsRegistries
<1>1. CppRegistryStep => [CppRegistry!Next]_(CppRegistry!registryVars)
  BY DEF CppRegistryStep, CppRegistry!registryVars, SwiftHeld
<1>2. WrapperRegistryStep => [WrapperRegistry!Next]_(WrapperRegistry!registryVars)
  BY DEF WrapperRegistryStep, WrapperRegistry!registryVars, CppHeld
<1> QED
  BY <1>1, <1>2, SwiftInvInit, SwiftInvNext, SwiftStartsRegistries, SwiftStepsImplement, PTL
     DEF SwiftSpec, SwiftImplementsRegistries, CppRegistry!Spec, WrapperRegistry!Spec

-----------------------------------------------------------------------------

JsLive == [o \in Objects |-> JsProxyOf(o)]
JsHeld == [t \in {"JavaScript"} |-> {p \in JsProxies : jsLife[p] = "reachable"}]
JsRegistryStep == JsRegistry!Next \/ UNCHANGED <<JsLive, JsHeld>>

LEMMA TheProxyInSingle == \A p : TheProxyIn({p}) = p
  BY DEF TheProxyIn
LEMMA TheProxyInNone == TheProxyIn({}) = NoJsProxy
  BY DEF TheProxyIn

\* The cache decides which proxy that is.
LEMMA JsProxyIs ==
  ASSUME JsInv, NEW o \in Objects
  PROVE  /\ \A p \in JsProxies : JsProxyOf(o) = p <=> jsLife[p] = "reachable" /\ nativeRef[p] = o
         /\ JsProxyOf(o) = NoJsProxy <=> JsProxiesOf(o) = {}
<1>1. \A p \in JsProxiesOf(o), q \in JsProxiesOf(o) : p = q
  BY DEF JsInv, ReachableInv, JsProxiesOf
<1>2. CASE JsProxiesOf(o) = {}
  <2>1. JsProxyOf(o) = NoJsProxy
    BY <1>2, TheProxyInNone DEF JsProxyOf
  <2> QED
    BY <1>2, <2>1, JsProxiesAssumption DEF JsProxiesOf
<1>3. CASE JsProxiesOf(o) # {}
  <2>1. PICK q \in JsProxies : JsProxiesOf(o) = {q}
    BY <1>1, <1>3 DEF JsProxiesOf
  <2>2. JsProxyOf(o) = q
    BY <2>1, TheProxyInSingle DEF JsProxyOf
  <2>3. \A p \in JsProxies : p = q <=> jsLife[p] = "reachable" /\ nativeRef[p] = o
    BY <2>1 DEF JsProxiesOf
  <2> QED
    BY <1>3, <2>2, <2>3, JsProxiesAssumption
<1> QED
  BY <1>2, <1>3

LEMMA ToJsImplements ==
  ASSUME JsInv, JsInv', NEW o \in Objects, NEW p \in JsProxies, ToJs(o, p)
  PROVE  JsRegistryStep
<1>1. /\ jsLife[p] = "none" /\ Expired(o)
      /\ jsLife' = [jsLife EXCEPT ![p] = "reachable"] /\ nativeRef' = [nativeRef EXCEPT ![p] = o]
  BY DEF ToJs
<1>2. JsProxyOf(o) = NoJsProxy
  <2> SUFFICES ASSUME NEW q \in JsProxies, jsLife[q] = "reachable", nativeRef[q] = o PROVE FALSE
    BY JsProxyIs DEF JsProxiesOf
  <2>1. cppProxyCache[o].ref = q
    BY DEF JsInv, ReachableInv
  <2> QED
    BY <1>1, <2>1, JsProxiesAssumption DEF Expired
<1>3. \A j \in Objects : JsProxyOf(j) # p
  BY <1>1, JsProxyIs
<1>4. ASSUME NEW j \in Objects PROVE JsProxyOf(j)' = IF j = o THEN p ELSE JsProxyOf(j)
  <2>1. \A q \in JsProxies \ {p} : jsLife'[q] = jsLife[q] /\ nativeRef'[q] = nativeRef[q]
    BY <1>1 DEF JsInv, JsTypes
  <2>2. jsLife'[p] = "reachable" /\ nativeRef'[p] = o
    BY <1>1 DEF JsInv, JsTypes
  <2>3. JsProxiesOf(j)' = JsProxiesOf(j) \union (IF j = o THEN {p} ELSE {})
    BY <1>1, <2>1, <2>2 DEF JsProxiesOf
  <2>4. CASE j = o
    <3>1. JsProxiesOf(j)' = {p}
      BY <1>2, <2>3, <2>4, JsProxyIs
    <3> QED
      BY <2>4, <3>1, TheProxyInSingle DEF JsProxyOf
  <2>5. CASE j # o
    <3>1. JsProxiesOf(j)' = JsProxiesOf(j)
      BY <2>3, <2>5
    <3> QED
      BY <2>5, <3>1 DEF JsProxyOf
  <2> QED
    BY <2>4, <2>5
<1>5. JsLive' = [JsLive EXCEPT ![o] = p]
  BY <1>4 DEF JsLive
<1>6. JsHeld' = [JsHeld EXCEPT !["JavaScript"] = @ \union {p}]
  <2>1. {q \in JsProxies : jsLife'[q] = "reachable"}
          = {q \in JsProxies : jsLife[q] = "reachable"} \union {p}
    BY <1>1 DEF JsInv, JsTypes
  <2> QED
    BY <2>1 DEF JsHeld
<1>7. JsRegistry!Create("JavaScript", o, p)
  BY <1>2, <1>3, <1>5, <1>6 DEF JsRegistry!Create, JsLive, JsHeld
<1> QED
  BY <1>7 DEF JsRegistryStep, JsRegistry!Next

LEMMA CollectImplements ==
  ASSUME JsInv, NEW p \in JsProxies, CollectJsProxy(p)
  PROVE  JsRegistryStep
<1>1. /\ jsLife[p] = "reachable" /\ jsLife' = [jsLife EXCEPT ![p] = "collected"]
      /\ nativeRef' = nativeRef
  BY DEF CollectJsProxy
<1>2. PICK o \in Objects : o = nativeRef[p]
  BY <1>1 DEF JsInv, JsTypes, NativeRefInv
<1>3. JsProxyOf(o) = p
  BY <1>1, <1>2, JsProxyIs
<1>4. ASSUME NEW j \in Objects PROVE JsProxyOf(j)' = IF j = o THEN NoJsProxy ELSE JsProxyOf(j)
  <2>1. JsProxiesOf(j)' = JsProxiesOf(j) \ {p}
    BY <1>1 DEF JsProxiesOf, JsInv, JsTypes
  <2>2. CASE j = o
    <3>1. JsProxiesOf(o) \subseteq {p}
      BY <1>3, JsProxyIs DEF JsProxiesOf
    <3>2. JsProxiesOf(j)' = {}
      BY <2>1, <2>2, <3>1
    <3> QED
      BY <2>2, <3>2, TheProxyInNone DEF JsProxyOf
  <2>3. CASE j # o
    <3>1. p \notin JsProxiesOf(j)
      BY <1>2, <2>3 DEF JsProxiesOf
    <3>2. JsProxiesOf(j)' = JsProxiesOf(j)
      BY <2>1, <3>1
    <3> QED
      BY <2>3, <3>2 DEF JsProxyOf
  <2> QED
    BY <2>2, <2>3
<1>5. JsLive' = [JsLive EXCEPT ![o] = NoJsProxy]
  BY <1>4 DEF JsLive
<1>6. JsHeld' = [JsHeld EXCEPT !["JavaScript"] = @ \ {p}] /\ p \in JsHeld["JavaScript"]
  <2>1. {q \in JsProxies : jsLife'[q] = "reachable"}
          = {q \in JsProxies : jsLife[q] = "reachable"} \ {p}
    BY <1>1 DEF JsInv, JsTypes
  <2> QED
    BY <1>1, <2>1 DEF JsHeld
<1>7. JsRegistry!ReleaseLast("JavaScript", o)
  BY <1>3, <1>5, <1>6 DEF JsRegistry!ReleaseLast, JsLive, JsHeld
<1> QED
  BY <1>7 DEF JsRegistryStep, JsRegistry!Next

LEMMA JsStepsImplement == JsInv /\ JsInv' /\ [JsNext]_jsVars => JsRegistryStep
<1> SUFFICES ASSUME JsInv, JsInv', [JsNext]_jsVars PROVE JsRegistryStep
  OBVIOUS
<1>1. ASSUME \A p \in JsProxies :
               \/ jsLife'[p] = jsLife[p] /\ nativeRef'[p] = nativeRef[p]
               \/ jsLife[p] # "reachable" /\ jsLife'[p] # "reachable"
      PROVE  JsRegistryStep
  <2>1. \A o \in Objects : JsProxiesOf(o)' = JsProxiesOf(o)
    BY <1>1 DEF JsProxiesOf
  <2>2. \A o \in Objects : JsProxyOf(o)' = JsProxyOf(o)
    BY <2>1 DEF JsProxyOf
  <2>4. JsLive' = JsLive
    BY <2>2 DEF JsLive
  <2>3. JsHeld' = JsHeld
    BY <1>1 DEF JsHeld
  <2> QED
    BY <2>3, <2>4 DEF JsRegistryStep
<1>2. ASSUME NEW o \in Objects, NewObject(o) \/ DropObject(o) PROVE JsRegistryStep
  BY <1>1, <1>2 DEF NewObject, DropObject
<1>3. ASSUME NEW p \in JsProxies, FromJsProxy(p) \/ NativeDestroy(p) \/ DeleteNativeRef(p)
      PROVE  JsRegistryStep
  BY <1>1, <1>3 DEF FromJsProxy, NativeDestroy, DeleteNativeRef, JsInv, JsTypes
<1>4. CASE UNCHANGED jsVars
  BY <1>1, <1>4 DEF jsVars
<1> QED
  BY <1>2, <1>3, <1>4, ToJsImplements, CollectImplements DEF JsNext

LEMMA JsStartsRegistry == JsInit => JsRegistry!Init
<1> SUFFICES ASSUME JsInit PROVE JsRegistry!Init
  OBVIOUS
<1>1. \A o \in Objects : JsProxyOf(o) = NoJsProxy
  <2> SUFFICES ASSUME NEW o \in Objects PROVE JsProxyOf(o) = NoJsProxy
    OBVIOUS
  <2>1. JsProxiesOf(o) = {}
    BY DEF JsInit, JsProxiesOf
  <2> QED
    BY <2>1, TheProxyInNone DEF JsProxyOf
<1> QED
  BY <1>1 DEF JsInit, JsRegistry!Init

\* Neither the finalizers that run late, nor the weak references, nor addresses
\* that are used again can be told from JavaScript (djinni_wasm.hpp:460-500,
\* djinni_valdi.hpp:490-520).
THEOREM JsCacheIsRegistry == JsSpec => JsImplementsRegistry
<1>1. JsRegistryStep => [JsRegistry!Next]_(JsRegistry!registryVars)
  BY DEF JsRegistryStep, JsRegistry!registryVars, JsLive, JsHeld
<1> QED
  BY <1>1, JsInvInit, JsInvNext, JsStartsRegistry, JsStepsImplement, PTL
     DEF JsSpec, JsImplementsRegistry, JsRegistry!Spec
=============================================================================
