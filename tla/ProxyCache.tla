----------------------------- MODULE ProxyCache -----------------------------
(***************************************************************************)
(* The generic proxy cache of the support library                          *)
(* (support-lib/proxy_cache_impl.hpp, proxy_cache_interface.hpp), for both *)
(* kinds of proxy it is instantiated with: reference-counted ones, held by *)
(* shared_ptr, and Java CppProxy objects, collected by the Java GC and     *)
(* destroyed by the NativeObjectManager's thread.                          *)
(*                                                                         *)
(* A thread that crosses the language boundary calls get() for the pair    *)
(* {type tag, impl}.  When a proxy dies, ~Handle calls remove() for the    *)
(* same pair.  The weak reference in the map expires BEFORE remove() takes *)
(* the mutex, so a new proxy of the same impl may exist by then.           *)
(***************************************************************************)
EXTENDS FiniteSets

CONSTANTS
  Threads,          \* threads of the program that call into the cache
  Cleaner,          \* the thread that destroys collected proxies
  Keys,             \* the pairs {std::type_index, impl identity}
  Proxies,          \* addresses a proxy can live at; reused once free
  NoThread,
  NoKey,
  NoProxy,
  Collected,
    \* FALSE: proxies are reference counted (C++ proxies behind a shared_ptr);
    \* TRUE: they are garbage collected (Java CppProxy objects)
  HandleMayOutliveAlloc
    \* TRUE when an allocator function can fail after it has built the
    \* Handle (JNI newCppProxy: NewObject throws, the unique_ptr unwinds)

ASSUME CacheAssumption ==
  /\ NoThread \notin Threads \union {Cleaner}
  /\ Cleaner \notin Threads
  /\ NoKey \notin Keys
  /\ NoProxy \notin Proxies
  /\ Collected \in BOOLEAN
  /\ HandleMayOutliveAlloc \in BOOLEAN
  /\ HandleMayOutliveAlloc => Collected

Actors == Threads \union {Cleaner}

VARIABLES
  mapping,  \* m_mapping: the weak proxy pointer stored for each key, or none
  keyRef,   \* the proxy whose Handle owns the impl reference used as map key
  mutex,    \* m_mutex
  phase,    \* "none"; "alive": the weak pointer can be upgraded; "doomed":
            \* collected, waiting for the Cleaner; "dying": ~Handle runs
  key,      \* the {tag, impl} the Handle of a proxy was made for
  refs,     \* the strong references the program holds, by thread
  pc,       \* where each thread is
  arg,      \* get(): the key looked up
  temp,     \* the strong pointer local to get() or remove()
  cur,      \* remove(): the proxy whose Handle is being destroyed
  unwinding \* destructors of this thread waiting for remove() to return

vars == <<mapping, keyRef, mutex, phase, key, refs, pc, arg, temp, cur,
          unwinding>>

Alive(p) == phase[p] = "alive"

\* Some strong reference to p, other than in the slot that thread t clears.
HeldByOthers(p, t) ==
  \E u \in Actors : u # t /\ (p \in refs[u] \/ temp[u] = p)

Goto(t, label) == pc' = [pc EXCEPT ![t] = label]

Init ==
  /\ mapping = [k \in Keys |-> NoProxy]
  /\ keyRef = [k \in Keys |-> NoProxy]
  /\ mutex = NoThread
  /\ phase = [p \in Proxies |-> "none"]
  /\ key = [p \in Proxies |-> NoKey]
  /\ refs = [t \in Actors |-> {}]
  /\ pc = [t \in Actors |-> "idle"]
  /\ arg = [t \in Actors |-> NoKey]
  /\ temp = [t \in Actors |-> NoProxy]
  /\ cur = [t \in Actors |-> NoProxy]
  /\ unwinding = [t \in Actors |-> {}]

-----------------------------------------------------------------------------
(* get() *)

CallGet(t, k) ==
  /\ pc[t] = "idle"
  /\ Goto(t, "getLock")
  /\ arg' = [arg EXCEPT ![t] = k]
  /\ UNCHANGED <<mapping, keyRef, mutex, phase, key, refs, temp, cur, unwinding>>

GetLock(t) ==
  /\ pc[t] = "getLock"
  /\ mutex = NoThread
  /\ mutex' = t
  /\ Goto(t, "getFind")
  /\ UNCHANGED <<mapping, keyRef, phase, key, refs, arg, temp, cur, unwinding>>

\* upgrade_weak() succeeds: the caller now shares the proxy in the map.
GetHit(t) ==
  /\ pc[t] = "getFind"
  /\ mapping[arg[t]] # NoProxy
  /\ Alive(mapping[arg[t]])
  /\ temp' = [temp EXCEPT ![t] = mapping[arg[t]]]
  /\ Goto(t, "getReturn")
  /\ UNCHANGED <<mapping, keyRef, mutex, phase, key, refs, arg, cur, unwinding>>

\* Create a proxy without looking for a live one.
GetMissIgnoringEntry(t) ==
  /\ pc[t] = "getFind"
  /\ mapping' = [mapping EXCEPT ![arg[t]] = NoProxy]
  /\ keyRef' = [keyRef EXCEPT ![arg[t]] = NoProxy]
  /\ Goto(t, "alloc")
  /\ UNCHANGED <<mutex, phase, key, refs, arg, temp, cur, unwinding>>

\* Erase the expired entry and look again, for ever.
GetMissRetries(t) ==
  /\ pc[t] = "getFind"
  /\ mapping[arg[t]] # NoProxy => ~Alive(mapping[arg[t]])
  /\ mapping' = [mapping EXCEPT ![arg[t]] = NoProxy]
  /\ keyRef' = [keyRef EXCEPT ![arg[t]] = NoProxy]
  /\ UNCHANGED <<mutex, phase, key, refs, pc, arg, temp, cur, unwinding>>

\* No entry, or an expired one, which is erased on the spot.
GetMiss(t) ==
  /\ pc[t] = "getFind"
  /\ mapping[arg[t]] # NoProxy => ~Alive(mapping[arg[t]])
  /\ mapping' = [mapping EXCEPT ![arg[t]] = NoProxy]
  /\ keyRef' = [keyRef EXCEPT ![arg[t]] = NoProxy]
  /\ Goto(t, "alloc")
  /\ UNCHANGED <<mutex, phase, key, refs, arg, temp, cur, unwinding>>

\* alloc(impl), called with the mutex held.
Alloc(t) ==
  /\ pc[t] = "alloc"
  /\ \E p \in Proxies :
       /\ phase[p] = "none"
       /\ phase' = [phase EXCEPT ![p] = "alive"]
       /\ key' = [key EXCEPT ![p] = arg[t]]
       /\ temp' = [temp EXCEPT ![t] = p]
  /\ Goto(t, "emplace")
  /\ UNCHANGED <<mapping, keyRef, mutex, refs, arg, cur, unwinding>>

\* The allocator throws before a Handle exists: the lock unwinds.
AllocThrows(t) ==
  /\ pc[t] = "alloc"
  /\ mutex' = NoThread
  /\ arg' = [arg EXCEPT ![t] = NoKey]
  /\ Goto(t, "idle")
  /\ UNCHANGED <<mapping, keyRef, phase, key, refs, temp, cur, unwinding>>

\* The allocator throws after it built the Handle: the Handle is destroyed
\* while the frame of get() still owns the mutex.
AllocThrowsWithHandle(t) ==
  /\ HandleMayOutliveAlloc
  /\ pc[t] = "alloc"
  /\ \E p \in Proxies :
       /\ phase[p] = "none"
       /\ phase' = [phase EXCEPT ![p] = "dying"]
       /\ key' = [key EXCEPT ![p] = arg[t]]
       /\ cur' = [cur EXCEPT ![t] = p]
       /\ unwinding' = [unwinding EXCEPT ![t] = {p}]
  /\ arg' = [arg EXCEPT ![t] = NoKey]
  /\ Goto(t, "rmLock")
  /\ UNCHANGED <<mapping, keyRef, mutex, refs, temp>>

\* unordered_map::emplace leaves an entry that is already there alone.
Emplace(t) ==
  /\ pc[t] = "emplace"
  /\ IF mapping[arg[t]] = NoProxy
       THEN /\ mapping' = [mapping EXCEPT ![arg[t]] = temp[t]]
            /\ keyRef' = [keyRef EXCEPT ![arg[t]] = temp[t]]
       ELSE UNCHANGED <<mapping, keyRef>>
  /\ Goto(t, "getReturn")
  /\ UNCHANGED <<mutex, phase, key, refs, arg, temp, cur, unwinding>>

GetReturn(t) ==
  /\ pc[t] = "getReturn"
  /\ mutex' = NoThread
  /\ refs' = [refs EXCEPT ![t] = @ \union {temp[t]}]
  /\ temp' = [temp EXCEPT ![t] = NoProxy]
  /\ arg' = [arg EXCEPT ![t] = NoKey]
  /\ Goto(t, "idle")
  /\ UNCHANGED <<mapping, keyRef, phase, key, cur, unwinding>>

-----------------------------------------------------------------------------
(* Dropping references, ~Handle and remove() *)

\* Destroy p in thread t: the weak pointer expires now, remove() comes next.
BeginDestroy(t, p) ==
  /\ phase' = [phase EXCEPT ![p] = "dying"]
  /\ cur' = [cur EXCEPT ![t] = p]
  /\ unwinding' = [unwinding EXCEPT ![t] = @ \union {p}]
  /\ Goto(t, "rmLock")

\* The program gives up its strong reference.
Drop(t, p) ==
  /\ pc[t] = "idle"
  /\ p \in refs[t]
  /\ refs' = [refs EXCEPT ![t] = @ \ {p}]
  /\ IF Collected \/ HeldByOthers(p, t)
       THEN UNCHANGED <<phase, cur, unwinding, pc>>
       ELSE BeginDestroy(t, p)
  /\ UNCHANGED <<mapping, keyRef, mutex, key, arg, temp>>

\* The garbage collector finds p unreachable: weak references to it are
\* cleared and its phantom reference goes to the NativeObjectManager's queue.
Collect(p) ==
  /\ Collected
  /\ Alive(p)
  /\ \A u \in Actors : p \notin refs[u] /\ temp[u] # p
  /\ phase' = [phase EXCEPT ![p] = "doomed"]
  /\ UNCHANGED <<mapping, keyRef, mutex, key, refs, pc, arg, temp, cur,
                 unwinding>>

\* The cleanup thread takes p from the queue and calls nativeDestroy, which
\* deletes the Handle.
Reap(p) ==
  /\ pc[Cleaner] = "idle"
  /\ phase[p] = "doomed"
  /\ BeginDestroy(Cleaner, p)
  /\ UNCHANGED <<mapping, keyRef, mutex, key, refs, arg, temp>>

RemoveLock(t) ==
  /\ pc[t] = "rmLock"
  /\ mutex = NoThread
  /\ mutex' = t
  /\ Goto(t, "rmUpgrade")
  /\ UNCHANGED <<mapping, keyRef, phase, key, refs, arg, temp, cur, unwinding>>

\* temp_ptr_holder = upgrade_weak(it->second)
RemoveUpgrade(t) ==
  LET entry == mapping[key[cur[t]]] IN
  /\ pc[t] = "rmUpgrade"
  /\ IF entry # NoProxy /\ Alive(entry)
       THEN temp' = [temp EXCEPT ![t] = entry]
       ELSE UNCHANGED temp
  /\ Goto(t, "rmErase")
  /\ UNCHANGED <<mapping, keyRef, mutex, phase, key, refs, arg, cur, unwinding>>

\* (Mutants of RemoveErase.)  Erase the entry, live or not.
RemoveEraseAlways(t) ==
  /\ pc[t] = "rmErase"
  /\ mapping' = [mapping EXCEPT ![key[cur[t]]] = NoProxy]
  /\ keyRef' = [keyRef EXCEPT ![key[cur[t]]] = NoProxy]
  /\ mutex' = NoThread
  /\ Goto(t, "rmRelease")
  /\ UNCHANGED <<phase, key, refs, arg, temp, cur, unwinding>>

\* Leave expired entries for get() to prune.
RemoveEraseNever(t) ==
  /\ pc[t] = "rmErase"
  /\ mutex' = NoThread
  /\ Goto(t, "rmRelease")
  /\ UNCHANGED <<mapping, keyRef, phase, key, refs, arg, temp, cur, unwinding>>

\* Keep the temporary strong reference inside the scope of the lock.
RemoveEraseKeepsMutex(t) ==
  LET k == key[cur[t]] IN
  /\ pc[t] = "rmErase"
  /\ mapping' = [mapping EXCEPT ![k] = IF @ # NoProxy /\ ~Alive(@) THEN NoProxy ELSE @]
  /\ keyRef' = [keyRef EXCEPT ![k] = IF mapping'[k] = NoProxy THEN NoProxy ELSE @]
  /\ Goto(t, "rmRelease")
  /\ UNCHANGED <<mutex, phase, key, refs, arg, temp, cur, unwinding>>

\* if (is_expired(it->second)) m_mapping.erase(it); then the mutex is released
RemoveErase(t) ==
  LET k == key[cur[t]] IN
  /\ pc[t] = "rmErase"
  /\ IF mapping[k] # NoProxy /\ ~Alive(mapping[k])
       THEN /\ mapping' = [mapping EXCEPT ![k] = NoProxy]
            /\ keyRef' = [keyRef EXCEPT ![k] = NoProxy]
       ELSE UNCHANGED <<mapping, keyRef>>
  /\ mutex' = NoThread
  /\ Goto(t, "rmRelease")
  /\ UNCHANGED <<phase, key, refs, arg, temp, cur, unwinding>>

\* ~temp_ptr_holder, outside the mutex: it may be the last reference to the
\* newer proxy, whose destructor then nests in this one.
RemoveRelease(t) ==
  /\ pc[t] = "rmRelease"
  /\ temp' = [temp EXCEPT ![t] = NoProxy]
  /\ IF /\ ~Collected
        /\ temp[t] # NoProxy
        /\ temp[t] \notin refs[t]
        /\ ~HeldByOthers(temp[t], t)
       THEN BeginDestroy(t, temp[t])
       ELSE /\ Goto(t, "unwind")
            /\ UNCHANGED <<phase, cur, unwinding>>
  /\ UNCHANGED <<mapping, keyRef, mutex, key, refs, arg>>

\* (Mutant of Unwind.)  The Handle is never deleted.
UnwindWithoutFreeing(t) ==
  /\ pc[t] = "unwind"
  /\ unwinding' = [unwinding EXCEPT ![t] = {}]
  /\ cur' = [cur EXCEPT ![t] = NoProxy]
  /\ Goto(t, "idle")
  /\ UNCHANGED <<mapping, keyRef, mutex, phase, key, refs, arg, temp>>

\* remove() has returned: m_obj goes away (the key reference with it) and the
\* address is free.  Nested destructors return one after the other.
Unwind(t) ==
  /\ pc[t] = "unwind"
  /\ \E p \in unwinding[t] :
       /\ phase' = [phase EXCEPT ![p] = "none"]
       /\ key' = [key EXCEPT ![p] = NoKey]
       /\ unwinding' = [unwinding EXCEPT ![t] = @ \ {p}]
       /\ IF unwinding[t] = {p}
            THEN Goto(t, "idle") /\ cur' = [cur EXCEPT ![t] = NoProxy]
            ELSE UNCHANGED <<pc, cur>>
  /\ UNCHANGED <<mapping, keyRef, mutex, refs, arg, temp>>

-----------------------------------------------------------------------------

\* What a thread does on its own once it has entered the cache.
Step(t) ==
  \/ GetLock(t) \/ GetHit(t) \/ GetMiss(t)
  \/ Alloc(t) \/ AllocThrows(t) \/ AllocThrowsWithHandle(t)
  \/ Emplace(t) \/ GetReturn(t)
  \/ RemoveLock(t) \/ RemoveUpgrade(t) \/ RemoveErase(t) \/ RemoveRelease(t)
  \/ Unwind(t)

Next ==
  \/ \E t \in Threads, k \in Keys : CallGet(t, k)
  \/ \E t \in Threads, p \in Proxies : Drop(t, p)
  \/ \E p \in Proxies : Collect(p)
  \/ \E p \in Proxies : Reap(p)
  \/ \E t \in Actors : Step(t)

Spec == Init /\ [][Next]_vars

\* A thread inside the cache keeps running, m_mutex does not starve one thread
\* for ever, and the cleanup thread serves every reference in its queue.
Fairness ==
  /\ \A t \in Actors : WF_vars(Step(t)) /\ SF_vars(GetLock(t) \/ RemoveLock(t))
  /\ \A p \in Proxies : SF_vars(Reap(p))

FairSpec == Spec /\ Fairness

\* What is left of Next for proxies that nothing collects: FairSpec is
\* CountedSpec where Collected is FALSE.
CountedStep(t) ==
  \/ GetLock(t) \/ GetHit(t) \/ GetMiss(t)
  \/ Alloc(t) \/ AllocThrows(t)
  \/ Emplace(t) \/ GetReturn(t)
  \/ RemoveLock(t) \/ RemoveUpgrade(t) \/ RemoveErase(t) \/ RemoveRelease(t)
  \/ Unwind(t)

CountedNext ==
  \/ \E t \in Threads, k \in Keys : CallGet(t, k)
  \/ \E t \in Threads, p \in Proxies : Drop(t, p)
  \/ \E t \in Actors : CountedStep(t)

CountedSpec == Init /\ [][CountedNext]_vars /\ Fairness

-----------------------------------------------------------------------------
(* Properties *)

GetLabels == {"getFind", "alloc", "emplace", "getReturn"}
RemoveLabels == {"rmUpgrade", "rmErase"}
Labels == GetLabels \union RemoveLabels
            \union {"idle", "getLock", "rmLock", "rmRelease", "unwind"}

TypeOK ==
  /\ mapping \in [Keys -> Proxies \union {NoProxy}]
  /\ keyRef \in [Keys -> Proxies \union {NoProxy}]
  /\ mutex \in Actors \union {NoThread}
  /\ phase \in [Proxies -> {"none", "alive", "doomed", "dying"}]
  /\ key \in [Proxies -> Keys \union {NoKey}]
  /\ refs \in [Actors -> SUBSET Proxies]
  /\ pc \in [Actors -> Labels]
  /\ arg \in [Actors -> Keys \union {NoKey}]
  /\ temp \in [Actors -> Proxies \union {NoProxy}]
  /\ cur \in [Actors -> Proxies \union {NoProxy}]
  /\ unwinding \in [Actors -> SUBSET Proxies]

\* "The same proxy will be returned" (proxy_cache_impl.hpp:73-76): however the
\* expiry of one proxy, its late remove() and the gets of other threads
\* interleave, an impl never has two proxies that the program can reach.
OneLiveProxyPerKey ==
  \A p, q \in Proxies : Alive(p) /\ Alive(q) /\ key[p] = key[q] => p = q

\* The impl reference a map key is made of belongs to the Handle of a proxy
\* (alloc_result.second), so no entry may outlive the Handle that owns its
\* key: hashing or comparing it would read a released reference.
KeyReferencesValid ==
  \A k \in Keys :
    mapping[k] # NoProxy => phase[keyRef[k]] # "none" /\ key[keyRef[k]] = k

\* A live proxy that the program holds is found by the next get(): remove()
\* for an older proxy of the same impl has not taken the entry away.
HeldProxiesAreCached ==
  \A t \in Threads : \A p \in refs[t] : mapping[key[p]] = p

\* Destructors run outside the mutex (proxy_cache_impl.hpp:119-125): no thread
\* reaches the lock() of get() or remove() while it owns m_mutex already.
NoSelfDeadlock ==
  \A t \in Actors : pc[t] \in {"getLock", "rmLock"} => mutex # t

\* When no thread is inside the cache and no collected proxy awaits the
\* Cleaner, the map holds no expired entry: every proxy that died has been
\* pruned by its own remove() or by an earlier get().
QuiescentMapIsLive ==
  (\A t \in Actors : pc[t] = "idle") /\ (\A p \in Proxies : phase[p] # "doomed")
    => \A k \in Keys : mapping[k] # NoProxy => Alive(mapping[k])

\* The destructor of a proxy ends, the nested ones that it sets off included: dead
\* proxies do not pile up.
DeadProxiesFreed ==
  \A p \in Proxies : phase[p] \in {"doomed", "dying"} ~> phase[p] = "none"

\* A get() that has been called returns, with a proxy or with an exception.
GetReturns ==
  \A t \in Threads : pc[t] = "getLock" ~> pc[t] = "idle"

-----------------------------------------------------------------------------
(* What the cache promises its callers: see ProxyRegistry. *)

LiveProxyOf(k) ==
  IF \E p \in Proxies : Alive(p) /\ key[p] = k
    THEN CHOOSE p \in Proxies : Alive(p) /\ key[p] = k
    ELSE NoProxy

StrongRefs(t) == refs[t] \union ({temp[t]} \ {NoProxy})

Registry == INSTANCE ProxyRegistry WITH
  live <- [k \in Keys |-> LiveProxyOf(k)],
  held <- [t \in Actors |-> StrongRefs(t)]

\* Seen from outside, the locking, weak pointers and late removes amount to
\* an atomic registry that hands out one proxy per impl.
ImplementsRegistry == Registry!Spec

=============================================================================
