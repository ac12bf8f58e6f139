--------------------------- MODULE ScriptJsProxies ---------------------------
(***************************************************************************)
(* C++ objects seen from JavaScript: the cppProxyCache of WebAssembly      *)
(* (wasm/djinni_wasm.hpp) and Valdi (valdi/djinni_valdi.hpp), which do not *)
(* use the generic cache.                                                  *)
(*                                                                         *)
(* The cache holds the JS proxy of a C++ object weakly.  A proxy is        *)
(* collected first and finalized later, on the event loop (wasm) or by the *)
(* last reference (Valdi), and only then gives up its shared_ptr; meanwhile *)
(* the object may be given a new proxy.  What the cache's mutex protects   *)
(* is one step.                                                            *)
(***************************************************************************)
EXTENDS Naturals, FiniteSets

CONSTANTS
  Objects,     \* addresses of C++ objects; reused once free
  JsProxies,   \* JS proxies of C++ objects
  NoJsProxy, NoObject

ASSUME JsProxiesAssumption ==
  /\ NoJsProxy \notin JsProxies
  /\ NoObject \notin Objects
  /\ IsFiniteSet(JsProxies)

VARIABLES
  owned,         \* the C++ objects that C++ code holds a shared_ptr to
  cppProxyCache, \* the weak reference and the count stored for each object
  jsLife,        \* of a JS proxy: "none"; "reachable"; "collected": its weak
                 \* reference is empty; "destroyed": nativeDestroy() has run
  nativeRef      \* the object whose shared_ptr the JS proxy holds

jsVars == <<owned, cppProxyCache, jsLife, nativeRef>>

NoEntry == [ref |-> NoJsProxy, count |-> 0]

JsInit ==
  /\ owned = {}
  /\ cppProxyCache = [o \in Objects |-> NoEntry]
  /\ jsLife = [p \in JsProxies |-> "none"]
  /\ nativeRef = [p \in JsProxies |-> NoObject]

-----------------------------------------------------------------------------

\* The object exists: C++ or some JS proxy has a shared_ptr to it.
Living(o) == o \in owned \/ \E p \in JsProxies : nativeRef[p] = o

NewObject(o) ==
  /\ ~Living(o)
  /\ owned' = owned \union {o}
  /\ UNCHANGED <<cppProxyCache, jsLife, nativeRef>>

DropObject(o) ==
  /\ o \in owned
  /\ owned' = owned \ {o}
  /\ UNCHANGED <<cppProxyCache, jsLife, nativeRef>>

\* There is no cached proxy, or it has been collected; its address may be that
\* of a proxy of another object by now, which the weak reference does not see.
Expired(o) ==
  LET p == cppProxyCache[o].ref IN
  p # NoJsProxy => jsLife[p] # "reachable" \/ nativeRef[p] # o

\* (Mutant of ToJs.)  A replaced entry does not inherit the count.
ToJsCountsOne(o, p) ==
  /\ o \in owned
  /\ Expired(o)
  /\ jsLife[p] = "none"
  /\ cppProxyCache' = [cppProxyCache EXCEPT ![o] = [ref |-> p, count |-> 1]]
  /\ jsLife' = [jsLife EXCEPT ![p] = "reachable"]
  /\ nativeRef' = [nativeRef EXCEPT ![p] = o]
  /\ UNCHANGED <<owned>>

\* GetOrCreateCppProxy, when there is no proxy to return: the new one counts
\* those that wait for their finalizer.
ToJs(o, p) ==
  /\ o \in owned
  /\ Expired(o)
  /\ jsLife[p] = "none"
  /\ cppProxyCache' =
       [cppProxyCache EXCEPT ![o] = [ref |-> p, count |-> 1 + @.count]]
  /\ jsLife' = [jsLife EXCEPT ![p] = "reachable"]
  /\ nativeRef' = [nativeRef EXCEPT ![p] = o]
  /\ UNCHANGED <<owned>>

\* _fromJs() of a JS proxy: its shared_ptr.
FromJsProxy(p) ==
  /\ jsLife[p] = "reachable"
  /\ owned' = owned \union {nativeRef[p]}
  /\ UNCHANGED <<cppProxyCache, jsLife, nativeRef>>

CollectJsProxy(p) ==
  /\ jsLife[p] = "reachable"
  /\ jsLife' = [jsLife EXCEPT ![p] = "collected"]
  /\ UNCHANGED <<owned, cppProxyCache, nativeRef>>

\* (Mutant of NativeDestroy.)  Erase the entry whatever its count is.
NativeDestroyErases(p) ==
  /\ jsLife[p] = "collected"
  /\ cppProxyCache' = [cppProxyCache EXCEPT ![nativeRef[p]] = NoEntry]
  /\ jsLife' = [jsLife EXCEPT ![p] = "destroyed"]
  /\ UNCHANGED <<owned, nativeRef>>

\* nativeDestroy(), and the body of ~DjinniCppProxyObject.
NativeDestroy(p) ==
  LET o == nativeRef[p]
      n == cppProxyCache[o].count
  IN /\ jsLife[p] = "collected"
     /\ cppProxyCache' =
          [cppProxyCache EXCEPT ![o] = IF n = 1 THEN NoEntry ELSE [@ EXCEPT !.count = n - 1]]
     /\ jsLife' = [jsLife EXCEPT ![p] = "destroyed"]
     /\ UNCHANGED <<owned, nativeRef>>

\* nativeRef.delete(), and the end of ~DjinniCppProxyObject.
DeleteNativeRef(p) ==
  /\ jsLife[p] = "destroyed"
  /\ jsLife' = [jsLife EXCEPT ![p] = "none"]
  /\ nativeRef' = [nativeRef EXCEPT ![p] = NoObject]
  /\ UNCHANGED <<owned, cppProxyCache>>

-----------------------------------------------------------------------------

JsNext ==
  \/ \E o \in Objects : NewObject(o) \/ DropObject(o) \/ \E p \in JsProxies : ToJs(o, p)
  \/ \E p \in JsProxies :
       FromJsProxy(p) \/ CollectJsProxy(p) \/ NativeDestroy(p) \/ DeleteNativeRef(p)

JsSpec == JsInit /\ [][JsNext]_jsVars

-----------------------------------------------------------------------------
(* Properties *)

\* JavaScript sees one proxy of a C++ object, however often the object crosses
\* and whenever the finalizers of its former proxies run.  The cache is keyed
\* by an address, which the next object may be given: an entry must go while
\* the object is still there, and must stay until its last proxy has been
\* finalized, or nativeDestroy() does not find it (djinni_wasm.hpp:486,
\* djinni_valdi.hpp:510).
JsProxiesConsistent ==
  /\ \A p, r \in JsProxies :
       jsLife[p] = "reachable" /\ jsLife[r] = "reachable" /\ nativeRef[p] = nativeRef[r] => p = r
  /\ \A o \in Objects : cppProxyCache[o] # NoEntry => Living(o)
  /\ \A p \in JsProxies :
       jsLife[p] \in {"reachable", "collected"} => cppProxyCache[nativeRef[p]].count > 0

-----------------------------------------------------------------------------
\* The proxy through which JavaScript sees o, if there is one.
JsProxiesOf(o) == {p \in JsProxies : jsLife[p] = "reachable" /\ nativeRef[p] = o}
TheProxyIn(S) == IF S = {} THEN NoJsProxy ELSE CHOOSE p \in S : TRUE
JsProxyOf(o) == TheProxyIn(JsProxiesOf(o))

JsRegistry == INSTANCE ProxyRegistry WITH
  Actors <- {"JavaScript"}, Keys <- Objects, Proxies <- JsProxies, NoProxy <- NoJsProxy,
  live <- [o \in Objects |-> JsProxyOf(o)],
  held <- [t \in {"JavaScript"} |-> {p \in JsProxies : jsLife[p] = "reachable"}]

\* Late finalizers, counts and addresses that are used again cannot be seen from
\* JavaScript: the cache amounts to the registry that the generic one implements.
JsImplementsRegistry == JsRegistry!Spec
=============================================================================
