--------------------------- MODULE ScriptCppProxies ---------------------------
(***************************************************************************)
(* JavaScript objects seen from C++: the jsProxyCache of WebAssembly       *)
(* (wasm/djinni_wasm.hpp) and Valdi (valdi/djinni_valdi.hpp).              *)
(*                                                                         *)
(* A JS object has a C++ proxy behind a shared_ptr, cached by weak_ptr     *)
(* under the id of the object alone, whatever interface it was passed as.  *)
(* The weak_ptr expires before the destructor of the proxy takes the mutex *)
(* and erases the entry.  What the mutex protects is one step, except      *)
(* where the weak_ptr is upgraded and the result cast.                     *)
(***************************************************************************)
EXTENDS Naturals

CONSTANTS
  JsThread,     \* the thread JavaScript runs on
  Workers,      \* C++ threads that may drop proxies (Valdi)
  JsObjects,
  JsInterfaces,   \* what a JS object can be passed to C++ as
  CppProxies,   \* addresses of C++ proxies; reused once free
  NoCppThread, NoCppProxy, NoKind

CppThreads == {JsThread} \union Workers

\* What a C++ proxy was made for.
Kinds == JsObjects \X JsInterfaces

ASSUME CppProxiesAssumption ==
  /\ JsThread \notin Workers
  /\ NoCppThread \notin CppThreads
  /\ NoCppProxy \notin CppProxies
  /\ NoKind \notin Kinds

VARIABLES
  jsProxyCache,  \* the weak_ptr stored for each JS object, or NoProxy
  cppLife,       \* of a C++ proxy: "none"; "alive"; "dying": ~JsProxyBase runs
  kind,          \* the JS object and the interface it was made for
  sharedPtrs,    \* the shared_ptrs each thread holds
  jsCacheMutex,  \* jsProxyCacheMutex
  step,          \* where each thread is
  proxy,         \* the C++ proxy it works on
  wanted,        \* what _fromJs() is to return a proxy for
  overtaken      \* history: the JS objects that were given a new proxy while
                 \* the destructor of the old one waited for the mutex

cppVars == <<jsProxyCache, cppLife, kind, sharedPtrs, jsCacheMutex, step, proxy,
                  wanted, overtaken>>

CppInit ==
  /\ jsProxyCache = [j \in JsObjects |-> NoCppProxy]
  /\ cppLife = [q \in CppProxies |-> "none"]
  /\ kind = [q \in CppProxies |-> NoKind]
  /\ sharedPtrs = [t \in CppThreads |-> {}]
  /\ jsCacheMutex = NoCppThread
  /\ step = [t \in CppThreads |-> "idle"]
  /\ proxy = [t \in CppThreads |-> NoCppProxy]
  /\ wanted = [t \in CppThreads |-> NoKind]
  /\ overtaken = {}

-----------------------------------------------------------------------------

StepTo(t, label) == step' = [step EXCEPT ![t] = label]

CppAlive(q) == q # NoCppProxy /\ cppLife[q] = "alive"

\* Some thread other than t has a shared_ptr to q.
HeldElsewhere(q, t) == \E u \in CppThreads \ {t} : q \in sharedPtrs[u] \/ proxy[u] = q

\* GetOrCreateJsProxy: the weak_ptr in the cache can be upgraded.
FindCppProxy(j, i) ==
  /\ step[JsThread] = "idle"
  /\ jsCacheMutex = NoCppThread
  /\ CppAlive(jsProxyCache[j])
  /\ jsCacheMutex' = JsThread
  /\ proxy' = [proxy EXCEPT ![JsThread] = jsProxyCache[j]]
  /\ wanted' = [wanted EXCEPT ![JsThread] = <<j, i>>]
  /\ StepTo(JsThread, "found")
  /\ UNCHANGED <<jsProxyCache, cppLife, kind, sharedPtrs, overtaken>>

\* A former proxy of j is about to erase the entry of j.
AwaitsDestructor(j) == \E t \in CppThreads : step[t] = "destroying" /\ kind[proxy[t]][1] = j

\* It cannot: a new proxy.  emplace() leaves an entry alone that is there.
NewCppProxy(j, i, q) ==
  /\ step[JsThread] = "idle"
  /\ jsCacheMutex = NoCppThread
  /\ ~CppAlive(jsProxyCache[j])
  /\ cppLife[q] = "none"
  /\ cppLife' = [cppLife EXCEPT ![q] = "alive"]
  /\ kind' = [kind EXCEPT ![q] = <<j, i>>]
  /\ sharedPtrs' = [sharedPtrs EXCEPT ![JsThread] = @ \union {q}]
  /\ jsProxyCache' = [jsProxyCache EXCEPT ![j] = IF @ = NoCppProxy THEN q ELSE @]
  /\ overtaken' = IF AwaitsDestructor(j) THEN overtaken \union {j} ELSE overtaken
  /\ UNCHANGED <<jsCacheMutex, step, proxy, wanted>>

\* The proxy found is of another interface, and nobody else holds it any more.
LastOnFailedCast ==
  LET q == proxy[JsThread] IN
  kind[q] # wanted[JsThread] /\ q \notin sharedPtrs[JsThread] /\ ~HeldElsewhere(q, JsThread)

\* dynamic_pointer_cast: a proxy made for another interface gives null.
ReturnCppProxy ==
  LET q == proxy[JsThread] IN
  /\ step[JsThread] = "found"
  /\ ~LastOnFailedCast
  /\ sharedPtrs' = [sharedPtrs EXCEPT ![JsThread] = IF kind[q] = wanted[JsThread] THEN @ \union {q} ELSE @]
  /\ proxy' = [proxy EXCEPT ![JsThread] = NoCppProxy]
  /\ wanted' = [wanted EXCEPT ![JsThread] = NoKind]
  /\ jsCacheMutex' = NoCppThread
  /\ StepTo(JsThread, "idle")
  /\ UNCHANGED <<jsProxyCache, cppLife, kind, overtaken>>

\* The failed cast held the last reference: the destructor runs inside the
\* critical section and waits for the mutex its thread holds.
LoseCppProxy ==
  LET q == proxy[JsThread] IN
  /\ step[JsThread] = "found"
  /\ LastOnFailedCast
  /\ cppLife' = [cppLife EXCEPT ![q] = "dying"]
  /\ StepTo(JsThread, "destroying")
  /\ UNCHANGED <<jsProxyCache, kind, sharedPtrs, jsCacheMutex, proxy, wanted, overtaken>>

\* C++ code passes a proxy to another thread.
ShareCppProxy(t, u, q) ==
  /\ q \in sharedPtrs[t] /\ step[t] = "idle"
  /\ sharedPtrs' = [sharedPtrs EXCEPT ![u] = @ \union {q}]
  /\ UNCHANGED <<jsProxyCache, cppLife, kind, jsCacheMutex, step, proxy, wanted, overtaken>>

\* A thread drops a reference; the last one takes the proxy with it.
DropCppProxy(t, q) ==
  LET last == ~HeldElsewhere(q, t) IN
  /\ q \in sharedPtrs[t] /\ step[t] = "idle"
  /\ sharedPtrs' = [sharedPtrs EXCEPT ![t] = @ \ {q}]
  /\ cppLife' = [cppLife EXCEPT ![q] = IF last THEN "dying" ELSE @]
  /\ proxy' = [proxy EXCEPT ![t] = IF last THEN q ELSE NoCppProxy]
  /\ StepTo(t, IF last THEN "destroying" ELSE "idle")
  /\ UNCHANGED <<jsProxyCache, kind, jsCacheMutex, wanted, overtaken>>

\* (Mutant of DestroyCppProxy.)  Leave the cache alone.
DestroyCppProxyOnly(t) ==
  /\ step[t] = "destroying"
  /\ jsCacheMutex = NoCppThread
  /\ cppLife' = [cppLife EXCEPT ![proxy[t]] = "none"]
  /\ kind' = [kind EXCEPT ![proxy[t]] = NoKind]
  /\ proxy' = [proxy EXCEPT ![t] = NoCppProxy]
  /\ StepTo(t, "idle")
  /\ UNCHANGED <<jsProxyCache, sharedPtrs, jsCacheMutex, wanted, overtaken>>

\* ~JsProxyBase, ~ValdiProxyBase: erase the entry of the JS object, whichever
\* proxy it refers to by now.
DestroyCppProxy(t) ==
  /\ step[t] = "destroying"
  /\ jsCacheMutex = NoCppThread
  /\ jsProxyCache' = [jsProxyCache EXCEPT ![kind[proxy[t]][1]] = NoCppProxy]
  /\ cppLife' = [cppLife EXCEPT ![proxy[t]] = "none"]
  /\ kind' = [kind EXCEPT ![proxy[t]] = NoKind]
  /\ proxy' = [proxy EXCEPT ![t] = NoCppProxy]
  /\ StepTo(t, "idle")
  /\ UNCHANGED <<sharedPtrs, jsCacheMutex, wanted, overtaken>>

-----------------------------------------------------------------------------

CppNext ==
  \/ \E j \in JsObjects, i \in JsInterfaces :
       FindCppProxy(j, i) \/ \E q \in CppProxies : NewCppProxy(j, i, q)
  \/ ReturnCppProxy
  \/ LoseCppProxy
  \/ \E t \in CppThreads :
       \/ DestroyCppProxy(t)
       \/ \E q \in CppProxies : DropCppProxy(t, q) \/ \E u \in CppThreads \ {t} : ShareCppProxy(t, u, q)

CppSpec == CppInit /\ [][CppNext]_cppVars

-----------------------------------------------------------------------------
(* Properties *)

\* C++ has one proxy of a JS object, on whichever thread the last reference to
\* it goes; this can fail only where a new proxy overtook the destructor of the
\* old one.
OneCppProxyPerObject ==
  \A q, r \in CppProxies :
    CppAlive(q) /\ CppAlive(r) /\ kind[q][1] = kind[r][1] /\ kind[q][1] \notin overtaken => q = r
=============================================================================
