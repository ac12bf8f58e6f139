-------------------------- MODULE ProxyCache_proofs --------------------------
(***************************************************************************)
(* Proofs about ProxyCache for every set of threads, keys and proxies, and *)
(* for both kinds of proxy.  Everything rests on one inductive invariant,  *)
(* IInv: the mutex protects the map, a map entry is backed by a Handle     *)
(* that still exists, a live proxy is in the map or on its way there, and  *)
(* a proxy under destruction has left the map before its Handle is freed.  *)
(* The last part shows that the cache implements ProxyRegistry.            *)
(***************************************************************************)
EXTENDS ProxyCache, TLAPS

Locked == GetLabels \union RemoveLabels

\* Only the owner of the mutex is inside a critical section.
LockInv == \A t \in Actors : pc[t] \in Locked => mutex = t

\* An owner is inside one, unless an allocator died on its way out.
HolderInv ==
  ~HandleMayOutliveAlloc => \A t \in Actors : mutex = t => pc[t] \in Locked

\* A map entry is keyed by the reference of the very proxy it points to, whose
\* Handle still exists.
EntryInv ==
  \A k \in Keys : mapping[k] # NoProxy =>
    /\ keyRef[k] = mapping[k]
    /\ key[mapping[k]] = k
    /\ phase[mapping[k]] # "none"

KeyedInv == \A p \in Proxies : phase[p] # "none" => key[p] \in Keys

\* A live proxy is in the map, or the owner of the mutex is inserting it.
AliveInv ==
  \A p \in Proxies : Alive(p) =>
    mapping[key[p]] = p \/ \E t \in Actors : pc[t] = "emplace" /\ temp[t] = p

\* Strong references keep their proxies alive.
StrongInv ==
  \A t \in Actors :
    /\ \A p \in refs[t] : Alive(p)
    /\ temp[t] # NoProxy => Alive(temp[t])

\* What the locals of get() and remove() hold at each point.
FrameInv ==
  \A t \in Actors :
    /\ pc[t] \in GetLabels \union {"getLock"} => arg[t] \in Keys
    /\ pc[t] \in {"alloc", "emplace"} => mapping[arg[t]] = NoProxy
    /\ pc[t] \in {"emplace", "getReturn"} => temp[t] \in Proxies
    /\ temp[t] # NoProxy =>
         pc[t] \in {"emplace", "getReturn", "rmErase", "rmRelease"}
    /\ pc[t] \in {"rmLock", "rmUpgrade", "rmErase"} => cur[t] \in unwinding[t]
    /\ pc[t] \in GetLabels \union {"getLock", "idle"} => unwinding[t] = {}

\* A proxy that get() is about to insert is known to nobody else.
FreshInv ==
  \A t \in Actors : pc[t] = "emplace" =>
    /\ key[temp[t]] = arg[t]
    /\ \A u \in Actors : temp[t] \notin refs[u] /\ (u # t => temp[u] # temp[t])

\* A proxy under destruction can still be in the map only while its own
\* remove() has not come to the erase.
DyingInv ==
  \A t \in Actors : \A p \in unwinding[t] :
    /\ phase[p] = "dying"
    /\ mapping[key[p]] = p =>
         p = cur[t] /\ pc[t] \in {"rmLock", "rmUpgrade", "rmErase"}

\* Exactly one thread destroys a dying proxy.
OwnerInv ==
  /\ \A t, u \in Actors : t # u => unwinding[t] \intersect unwinding[u] = {}
  /\ \A p \in Proxies : phase[p] = "dying" => \E t \in Actors : p \in unwinding[t]

IInv ==
  /\ TypeOK /\ LockInv /\ HolderInv /\ EntryInv /\ KeyedInv /\ AliveInv
  /\ StrongInv /\ FrameInv /\ FreshInv /\ DyingInv /\ OwnerInv

-----------------------------------------------------------------------------
(* Each action preserves IInv: one step per conjunct it can disturb, and a    *)
(* last one for the conjuncts about variables it leaves alone.               *)

\* A thread enters get(): only its own frame changes.
LEMMA CallGetStep ==
  ASSUME IInv, NEW t \in Threads, NEW k \in Keys, CallGet(t, k)
  PROVE  IInv'
<1> USE DEF IInv
<1>1. TypeOK'
  BY CacheAssumption DEF TypeOK, FrameInv, GetLabels, RemoveLabels,
     Labels, CallGet, Goto, Actors
<1>2. LockInv' /\ HolderInv'
  BY CacheAssumption DEF TypeOK, LockInv, HolderInv, Locked, GetLabels,
     RemoveLabels, Actors, CallGet, Goto
<1>3. AliveInv'
  BY CacheAssumption DEF TypeOK, AliveInv, Alive, CallGet, Goto, Actors
<1>4. FrameInv'
  BY CacheAssumption DEF TypeOK, FrameInv, GetLabels, CallGet, Goto,
     Actors
<1>5. FreshInv'
  BY CacheAssumption DEF TypeOK, FreshInv, CallGet, Goto, Actors
<1>6. DyingInv'
  BY CacheAssumption DEF TypeOK, DyingInv, FrameInv, GetLabels, CallGet,
     Goto, Actors
<1>7. EntryInv' /\ KeyedInv' /\ StrongInv' /\ OwnerInv'
  BY DEF EntryInv, KeyedInv, StrongInv, OwnerInv, CallGet, Alive
<1> QED
  BY <1>1, <1>2, <1>3, <1>4, <1>5, <1>6, <1>7

\* get() takes the mutex.
LEMMA GetLockStep ==
  ASSUME IInv, NEW t \in Actors, GetLock(t)
  PROVE  IInv'
<1> USE DEF IInv
<1>1. TypeOK'
  BY CacheAssumption DEF TypeOK, FrameInv, GetLabels, RemoveLabels,
     Labels, GetLock, Goto
<1>2. LockInv' /\ HolderInv'
  BY CacheAssumption DEF TypeOK, LockInv, HolderInv, Locked, GetLabels,
     RemoveLabels, Actors, GetLock, Goto
<1>3. AliveInv'
  BY CacheAssumption DEF TypeOK, AliveInv, Alive, GetLock, Goto
<1>4. FrameInv'
  BY CacheAssumption DEF TypeOK, FrameInv, GetLabels, GetLock, Goto
<1>5. FreshInv'
  BY CacheAssumption DEF TypeOK, FreshInv, GetLock, Goto
<1>6. DyingInv'
  BY CacheAssumption DEF TypeOK, DyingInv, FrameInv, GetLabels, GetLock,
     Goto
<1>7. EntryInv' /\ KeyedInv' /\ StrongInv' /\ OwnerInv'
  BY DEF EntryInv, KeyedInv, StrongInv, OwnerInv, GetLock, Alive
<1> QED
  BY <1>1, <1>2, <1>3, <1>4, <1>5, <1>6, <1>7

\* get() upgrades the weak pointer of a live proxy.
LEMMA GetHitStep ==
  ASSUME IInv, NEW t \in Actors, GetHit(t)
  PROVE  IInv'
<1> USE DEF IInv
<1>1. TypeOK'
  BY CacheAssumption DEF TypeOK, FrameInv, GetLabels, RemoveLabels,
     Labels, GetHit, Goto
<1>2. LockInv' /\ HolderInv'
  BY CacheAssumption DEF TypeOK, LockInv, HolderInv, Locked, GetLabels,
     RemoveLabels, Actors, GetHit, Goto
<1>3. AliveInv'
  BY CacheAssumption DEF TypeOK, AliveInv, Alive, GetHit, Goto
<1>4. StrongInv'
  BY CacheAssumption DEF TypeOK, StrongInv, Alive, GetHit, Goto
<1>5. FrameInv'
  BY CacheAssumption DEF TypeOK, FrameInv, GetLabels, GetHit, Goto
<1>6. FreshInv'
  BY CacheAssumption DEF TypeOK, FreshInv, LockInv, Locked, GetLabels,
     RemoveLabels, GetHit, Goto
<1>7. DyingInv'
  BY CacheAssumption DEF TypeOK, DyingInv, FrameInv, GetLabels, GetHit,
     Goto
<1>8. EntryInv' /\ KeyedInv' /\ OwnerInv'
  BY DEF EntryInv, KeyedInv, OwnerInv, GetHit
<1> QED
  BY <1>1, <1>2, <1>3, <1>4, <1>5, <1>6, <1>7, <1>8

\* get() prunes an expired entry; its proxy is dead, so no live one is lost.
LEMMA GetMissStep ==
  ASSUME IInv, NEW t \in Actors, GetMiss(t)
  PROVE  IInv'
<1> USE DEF IInv
<1>1. TypeOK'
  BY CacheAssumption DEF TypeOK, FrameInv, GetLabels, RemoveLabels,
     Labels, GetMiss, Goto
<1>2. LockInv' /\ HolderInv'
  BY CacheAssumption DEF TypeOK, LockInv, HolderInv, Locked, GetLabels,
     RemoveLabels, Actors, GetMiss, Goto
<1>3. EntryInv'
  BY CacheAssumption DEF TypeOK, EntryInv, GetMiss, Goto
<1>4. AliveInv'
  BY CacheAssumption DEF TypeOK, AliveInv, Alive, GetMiss, Goto
<1>5. FrameInv'
  BY CacheAssumption DEF TypeOK, FrameInv, GetLabels, LockInv, Locked,
     RemoveLabels, GetMiss, Goto
<1>6. FreshInv'
  BY CacheAssumption DEF TypeOK, FreshInv, GetMiss, Goto
<1>7. DyingInv'
  BY CacheAssumption DEF TypeOK, DyingInv, FrameInv, GetLabels, GetMiss,
     Goto
<1>8. KeyedInv' /\ StrongInv' /\ OwnerInv'
  BY DEF KeyedInv, StrongInv, OwnerInv, GetMiss, Alive
<1> QED
  BY <1>1, <1>2, <1>3, <1>4, <1>5, <1>6, <1>7, <1>8

\* A free address becomes a live proxy, to be inserted by the mutex owner.
LEMMA AllocStep ==
  ASSUME IInv, NEW t \in Actors, Alloc(t)
  PROVE  IInv'
<1> USE DEF IInv
<1>1. TypeOK'
  BY CacheAssumption DEF TypeOK, FrameInv, GetLabels, RemoveLabels,
     Labels, Alloc, Goto
<1>2. LockInv' /\ HolderInv'
  BY CacheAssumption DEF TypeOK, LockInv, HolderInv, Locked, GetLabels,
     RemoveLabels, Actors, Alloc, Goto
<1>3. EntryInv'
  BY CacheAssumption DEF TypeOK, EntryInv, Alloc, Goto
<1>4. KeyedInv'
  BY CacheAssumption DEF TypeOK, KeyedInv, FrameInv, GetLabels, Alloc,
     Goto
<1>5. AliveInv'
  BY CacheAssumption DEF TypeOK, AliveInv, Alive, FrameInv, Alloc, Goto
<1>6. StrongInv'
  BY CacheAssumption DEF TypeOK, StrongInv, Alive, Alloc, Goto
<1>7. FrameInv'
  BY CacheAssumption DEF TypeOK, FrameInv, GetLabels, Alloc, Goto
<1>8. FreshInv'
  BY CacheAssumption DEF TypeOK, FreshInv, StrongInv, Alive, FrameInv,
     Alloc, Goto
<1>9. DyingInv'
  BY CacheAssumption DEF TypeOK, DyingInv, FrameInv, GetLabels, EntryInv,
     Alloc, Goto
<1>10. OwnerInv'
  BY CacheAssumption DEF TypeOK, OwnerInv, Alloc, Goto
<1> QED
  BY <1>1, <1>2, <1>3, <1>4, <1>5, <1>6, <1>7, <1>8, <1>9, <1>10

\* The allocator throws and the lock unwinds.
LEMMA AllocThrowsStep ==
  ASSUME IInv, NEW t \in Actors, AllocThrows(t)
  PROVE  IInv'
<1> USE DEF IInv
<1>1. TypeOK'
  BY CacheAssumption DEF TypeOK, FrameInv, GetLabels, RemoveLabels,
     Labels, AllocThrows, Goto
<1>2. LockInv' /\ HolderInv'
  BY CacheAssumption DEF TypeOK, LockInv, HolderInv, Locked, GetLabels,
     RemoveLabels, Actors, AllocThrows, Goto
<1>3. AliveInv'
  BY CacheAssumption DEF TypeOK, AliveInv, Alive, AllocThrows, Goto
<1>4. FrameInv'
  BY CacheAssumption DEF TypeOK, FrameInv, GetLabels, AllocThrows, Goto
<1>5. FreshInv'
  BY CacheAssumption DEF TypeOK, FreshInv, AllocThrows, Goto
<1>6. DyingInv'
  BY CacheAssumption DEF TypeOK, DyingInv, FrameInv, GetLabels,
     AllocThrows, Goto
<1>7. EntryInv' /\ KeyedInv' /\ StrongInv' /\ OwnerInv'
  BY DEF EntryInv, KeyedInv, StrongInv, OwnerInv, AllocThrows, Alive
<1> QED
  BY <1>1, <1>2, <1>3, <1>4, <1>5, <1>6, <1>7

\* The Handle of an unfinished proxy dies under the mutex.
LEMMA AllocThrowsWithHandleStep ==
  ASSUME IInv, NEW t \in Actors, AllocThrowsWithHandle(t)
  PROVE  IInv'
<1> USE DEF IInv
<1>1. TypeOK'
  BY CacheAssumption DEF TypeOK, FrameInv, GetLabels, RemoveLabels,
     Labels, AllocThrowsWithHandle, Goto
<1>2. LockInv' /\ HolderInv'
  BY CacheAssumption DEF TypeOK, LockInv, HolderInv, Locked, GetLabels,
     RemoveLabels, Actors, AllocThrowsWithHandle, Goto
<1>3. EntryInv'
  BY CacheAssumption DEF TypeOK, EntryInv, AllocThrowsWithHandle, Goto
<1>4. KeyedInv'
  BY CacheAssumption DEF TypeOK, KeyedInv, FrameInv, GetLabels,
     AllocThrowsWithHandle, Goto
<1>5. AliveInv'
  BY CacheAssumption DEF TypeOK, AliveInv, Alive, AllocThrowsWithHandle,
     Goto
<1>6. StrongInv'
  BY CacheAssumption DEF TypeOK, StrongInv, Alive, AllocThrowsWithHandle,
     Goto
<1>7. FrameInv'
  BY CacheAssumption DEF TypeOK, FrameInv, GetLabels,
     AllocThrowsWithHandle, Goto
<1>8. FreshInv'
  BY CacheAssumption DEF TypeOK, FreshInv, LockInv, Locked, GetLabels,
     RemoveLabels, StrongInv, Alive, AllocThrowsWithHandle, Goto
<1>9. DyingInv'
  BY CacheAssumption DEF TypeOK, DyingInv, FrameInv, GetLabels, EntryInv,
     AllocThrowsWithHandle, Goto
<1>10. OwnerInv'
  BY CacheAssumption DEF TypeOK, OwnerInv, DyingInv, FrameInv, GetLabels,
     AllocThrowsWithHandle, Goto
<1> QED
  BY <1>1, <1>2, <1>3, <1>4, <1>5, <1>6, <1>7, <1>8, <1>9, <1>10

\* The fresh proxy enters the map, where its key has no entry.
LEMMA EmplaceStep ==
  ASSUME IInv, NEW t \in Actors, Emplace(t)
  PROVE  IInv'
<1> USE DEF IInv
<1>1. TypeOK'
  BY CacheAssumption DEF TypeOK, FrameInv, GetLabels, RemoveLabels,
     Labels, Emplace, Goto
<1>2. LockInv' /\ HolderInv'
  BY CacheAssumption DEF TypeOK, LockInv, HolderInv, Locked, GetLabels,
     RemoveLabels, Actors, Emplace, Goto
<1>3. EntryInv'
  BY CacheAssumption DEF TypeOK, EntryInv, FrameInv, FreshInv, StrongInv,
     Alive, GetLabels, Emplace, Goto
<1>4. AliveInv'
  BY CacheAssumption DEF TypeOK, AliveInv, Alive, FrameInv, FreshInv,
     KeyedInv, LockInv, Locked, GetLabels, RemoveLabels, Emplace, Goto
<1>5. FrameInv'
  BY CacheAssumption DEF TypeOK, FrameInv, GetLabels, LockInv, Locked,
     RemoveLabels, Emplace, Goto
<1>6. FreshInv'
  BY CacheAssumption DEF TypeOK, FreshInv, Emplace, Goto
<1>7. DyingInv'
  BY CacheAssumption DEF TypeOK, DyingInv, FrameInv, GetLabels, StrongInv,
     Alive, FreshInv, KeyedInv, Emplace, Goto
<1>8. KeyedInv' /\ StrongInv' /\ OwnerInv'
  BY DEF KeyedInv, StrongInv, OwnerInv, Emplace, Alive
<1> QED
  BY <1>1, <1>2, <1>3, <1>4, <1>5, <1>6, <1>7, <1>8

\* get() returns its strong reference and releases the mutex.
LEMMA GetReturnStep ==
  ASSUME IInv, NEW t \in Actors, GetReturn(t)
  PROVE  IInv'
<1> USE DEF IInv
<1>1. TypeOK'
  BY CacheAssumption DEF TypeOK, FrameInv, GetLabels, RemoveLabels,
     Labels, GetReturn, Goto
<1>2. LockInv' /\ HolderInv'
  BY CacheAssumption DEF TypeOK, LockInv, HolderInv, Locked, GetLabels,
     RemoveLabels, Actors, GetReturn, Goto
<1>3. AliveInv'
  BY CacheAssumption DEF TypeOK, AliveInv, Alive, GetReturn, Goto
<1>4. StrongInv'
  BY CacheAssumption DEF TypeOK, StrongInv, Alive, FrameInv, GetReturn,
     Goto
<1>5. FrameInv'
  BY CacheAssumption DEF TypeOK, FrameInv, GetLabels, GetReturn, Goto
<1>6. FreshInv'
  BY CacheAssumption DEF TypeOK, FreshInv, LockInv, Locked, GetLabels,
     RemoveLabels, GetReturn, Goto
<1>7. DyingInv'
  BY CacheAssumption DEF TypeOK, DyingInv, FrameInv, GetLabels, GetReturn,
     Goto
<1>8. EntryInv' /\ KeyedInv' /\ OwnerInv'
  BY DEF EntryInv, KeyedInv, OwnerInv, GetReturn
<1> QED
  BY <1>1, <1>2, <1>3, <1>4, <1>5, <1>6, <1>7, <1>8

\* A reference goes away; the last one starts the destructor.
LEMMA DropStep ==
  ASSUME IInv, NEW t \in Threads, NEW p \in Proxies, Drop(t, p)
  PROVE  IInv'
<1> USE DEF IInv
<1>1. TypeOK'
  BY CacheAssumption DEF TypeOK, FrameInv, GetLabels, RemoveLabels,
     Labels, Drop, Goto, BeginDestroy, Actors
<1>2. LockInv' /\ HolderInv'
  BY CacheAssumption DEF TypeOK, LockInv, HolderInv, Locked, GetLabels,
     RemoveLabels, Actors, Drop, Goto, BeginDestroy
<1>3. EntryInv'
  BY CacheAssumption DEF TypeOK, EntryInv, StrongInv, Alive, Drop, Goto,
     BeginDestroy, Actors
<1>4. KeyedInv'
  BY CacheAssumption DEF TypeOK, KeyedInv, StrongInv, Alive, Drop, Goto,
     BeginDestroy, Actors
<1>5. AliveInv'
  BY CacheAssumption DEF TypeOK, AliveInv, Alive, Drop, Goto,
     BeginDestroy, Actors
<1>6. StrongInv'
  BY CacheAssumption DEF TypeOK, StrongInv, Alive, FrameInv, HeldByOthers,
     Drop, Goto, BeginDestroy, Actors
<1>7. FrameInv'
  BY CacheAssumption DEF TypeOK, FrameInv, GetLabels, Drop, Goto,
     BeginDestroy, Actors
<1>8. FreshInv'
  BY CacheAssumption DEF TypeOK, FreshInv, Drop, Goto, BeginDestroy,
     Actors
<1>9. DyingInv'
  BY CacheAssumption DEF TypeOK, DyingInv, FrameInv, GetLabels, StrongInv,
     Alive, Drop, Goto, BeginDestroy, Actors
<1>10. (\A q \in Proxies : phase[q] = "dying" => \E u \in Actors : q \in unwinding[u])'
  BY CacheAssumption DEF TypeOK, OwnerInv, DyingInv, StrongInv, Alive,
     Drop, Goto, BeginDestroy, Actors
<1>11. (\A u, v \in Actors : u # v => unwinding[u] \intersect unwinding[v] = {})'
  BY CacheAssumption DEF TypeOK, OwnerInv, DyingInv, StrongInv, Alive,
     Drop, Goto, BeginDestroy, Actors
<1>12. OwnerInv'
  BY <1>10, <1>11 DEF OwnerInv
<1> QED
  BY <1>1, <1>2, <1>3, <1>4, <1>5, <1>6, <1>7, <1>8, <1>9, <1>10, <1>11, <1>12

\* The collector clears the weak references to an unreachable proxy.
LEMMA CollectStep ==
  ASSUME IInv, NEW p \in Proxies, Collect(p)
  PROVE  IInv'
<1> USE DEF IInv
<1>1. TypeOK'
  BY CacheAssumption DEF TypeOK, FrameInv, GetLabels, RemoveLabels,
     Labels, Collect
<1>2. EntryInv'
  BY CacheAssumption DEF TypeOK, EntryInv, Alive, Collect
<1>3. KeyedInv'
  BY CacheAssumption DEF TypeOK, KeyedInv, Alive, Collect
<1>4. AliveInv'
  BY CacheAssumption DEF TypeOK, AliveInv, Alive, Collect
<1>5. StrongInv'
  BY CacheAssumption DEF TypeOK, StrongInv, Alive, Collect
<1>6. DyingInv'
  BY CacheAssumption DEF TypeOK, DyingInv, FrameInv, GetLabels, Alive,
     Collect
<1>7. OwnerInv'
  BY CacheAssumption DEF TypeOK, OwnerInv, Alive, DyingInv, Collect
<1>8. LockInv' /\ HolderInv' /\ FrameInv' /\ FreshInv'
  BY DEF LockInv, HolderInv, FrameInv, FreshInv, Collect
<1> QED
  BY <1>1, <1>2, <1>3, <1>4, <1>5, <1>6, <1>7, <1>8

\* The cleanup thread starts to destroy a collected proxy.
LEMMA ReapStep ==
  ASSUME IInv, NEW p \in Proxies, Reap(p)
  PROVE  IInv'
<1> USE DEF IInv
<1>1. TypeOK'
  BY CacheAssumption DEF TypeOK, FrameInv, GetLabels, RemoveLabels,
     Labels, Reap, Goto, BeginDestroy, Actors
<1>2. LockInv' /\ HolderInv'
  BY CacheAssumption DEF TypeOK, LockInv, HolderInv, Locked, GetLabels,
     RemoveLabels, Actors, Reap, Goto, BeginDestroy
<1>3. EntryInv'
  BY CacheAssumption DEF TypeOK, EntryInv, Reap, Goto, BeginDestroy,
     Actors
<1>4. KeyedInv'
  BY CacheAssumption DEF TypeOK, KeyedInv, Reap, Goto, BeginDestroy,
     Actors
<1>5. AliveInv'
  BY CacheAssumption DEF TypeOK, AliveInv, Alive, Reap, Goto,
     BeginDestroy, Actors
<1>6. StrongInv'
  BY CacheAssumption DEF TypeOK, StrongInv, Alive, Reap, Goto,
     BeginDestroy, Actors
<1>7. FrameInv'
  BY CacheAssumption DEF TypeOK, FrameInv, GetLabels, Reap, Goto,
     BeginDestroy, Actors
<1>8. FreshInv'
  BY CacheAssumption DEF TypeOK, FreshInv, Reap, Goto, BeginDestroy,
     Actors
<1>9. DyingInv'
  BY CacheAssumption DEF TypeOK, DyingInv, FrameInv, GetLabels, EntryInv,
     Reap, Goto, BeginDestroy, Actors
<1>10. OwnerInv'
  BY CacheAssumption DEF TypeOK, OwnerInv, DyingInv, FrameInv, Reap, Goto,
     BeginDestroy, Actors
<1> QED
  BY <1>1, <1>2, <1>3, <1>4, <1>5, <1>6, <1>7, <1>8, <1>9, <1>10

\* remove() takes the mutex.
LEMMA RemoveLockStep ==
  ASSUME IInv, NEW t \in Actors, RemoveLock(t)
  PROVE  IInv'
<1> USE DEF IInv
<1>1. TypeOK'
  BY CacheAssumption DEF TypeOK, FrameInv, GetLabels, RemoveLabels,
     Labels, RemoveLock, Goto
<1>2. LockInv' /\ HolderInv'
  BY CacheAssumption DEF TypeOK, LockInv, HolderInv, Locked, GetLabels,
     RemoveLabels, Actors, RemoveLock, Goto
<1>3. AliveInv'
  BY CacheAssumption DEF TypeOK, AliveInv, Alive, RemoveLock, Goto
<1>4. FrameInv'
  BY CacheAssumption DEF TypeOK, FrameInv, GetLabels, RemoveLock, Goto
<1>5. FreshInv'
  BY CacheAssumption DEF TypeOK, FreshInv, RemoveLock, Goto
<1>6. DyingInv'
  BY CacheAssumption DEF TypeOK, DyingInv, FrameInv, GetLabels,
     RemoveLock, Goto
<1>7. EntryInv' /\ KeyedInv' /\ StrongInv' /\ OwnerInv'
  BY DEF EntryInv, KeyedInv, StrongInv, OwnerInv, RemoveLock, Alive
<1> QED
  BY <1>1, <1>2, <1>3, <1>4, <1>5, <1>6, <1>7

\* remove() pins the proxy in the map, if it is alive.
LEMMA RemoveUpgradeStep ==
  ASSUME IInv, NEW t \in Actors, RemoveUpgrade(t)
  PROVE  IInv'
<1> USE DEF IInv
<1>1. TypeOK'
  BY CacheAssumption DEF TypeOK, FrameInv, GetLabels, RemoveLabels,
     Labels, KeyedInv, DyingInv, RemoveUpgrade, Goto
<1>2. LockInv' /\ HolderInv'
  BY CacheAssumption DEF TypeOK, LockInv, HolderInv, Locked, GetLabels,
     RemoveLabels, Actors, RemoveUpgrade, Goto
<1>3. AliveInv'
  BY CacheAssumption DEF TypeOK, AliveInv, Alive, RemoveUpgrade, Goto
<1>4. StrongInv'
  BY CacheAssumption DEF TypeOK, StrongInv, Alive, RemoveUpgrade, Goto
<1>5. FrameInv'
  BY CacheAssumption DEF TypeOK, FrameInv, GetLabels, RemoveUpgrade, Goto
<1>6. FreshInv'
  BY CacheAssumption DEF TypeOK, FreshInv, LockInv, Locked, GetLabels,
     RemoveLabels, RemoveUpgrade, Goto
<1>7. DyingInv'
  BY CacheAssumption DEF TypeOK, DyingInv, FrameInv, GetLabels,
     RemoveUpgrade, Goto
<1>8. EntryInv' /\ KeyedInv' /\ OwnerInv'
  BY DEF EntryInv, KeyedInv, OwnerInv, RemoveUpgrade
<1> QED
  BY <1>1, <1>2, <1>3, <1>4, <1>5, <1>6, <1>7, <1>8

\* remove() erases an expired entry only, and releases the mutex.
LEMMA RemoveEraseStep ==
  ASSUME IInv, NEW t \in Actors, RemoveErase(t)
  PROVE  IInv'
<1> USE DEF IInv
<1>1. TypeOK'
  BY CacheAssumption DEF TypeOK, FrameInv, GetLabels, RemoveLabels,
     Labels, RemoveErase, Goto
<1>2. LockInv' /\ HolderInv'
  BY CacheAssumption DEF TypeOK, LockInv, HolderInv, Locked, GetLabels,
     RemoveLabels, Actors, RemoveErase, Goto
<1>3. EntryInv'
  BY CacheAssumption DEF TypeOK, EntryInv, RemoveErase, Goto
<1>4. AliveInv'
  BY CacheAssumption DEF TypeOK, AliveInv, Alive, KeyedInv, DyingInv,
     FrameInv, RemoveErase, Goto
<1>5. FrameInv'
  BY CacheAssumption DEF TypeOK, FrameInv, GetLabels, LockInv, Locked,
     RemoveLabels, RemoveErase, Goto
<1>6. FreshInv'
  BY CacheAssumption DEF TypeOK, FreshInv, RemoveErase, Goto
<1>7. DyingInv'
  BY CacheAssumption DEF TypeOK, DyingInv, FrameInv, GetLabels, Alive,
     KeyedInv, RemoveErase, Goto
<1>8. KeyedInv' /\ StrongInv' /\ OwnerInv'
  BY DEF KeyedInv, StrongInv, OwnerInv, RemoveErase, Alive
<1> QED
  BY <1>1, <1>2, <1>3, <1>4, <1>5, <1>6, <1>7, <1>8

\* remove() drops the pin; a nested destructor may start.
LEMMA RemoveReleaseStep ==
  ASSUME IInv, NEW t \in Actors, RemoveRelease(t)
  PROVE  IInv'
<1> USE DEF IInv
<1>1. TypeOK'
  BY CacheAssumption DEF TypeOK, FrameInv, GetLabels, RemoveLabels,
     Labels, RemoveRelease, Goto, BeginDestroy
<1>2. LockInv' /\ HolderInv'
  BY CacheAssumption DEF TypeOK, LockInv, HolderInv, Locked, GetLabels,
     RemoveLabels, Actors, RemoveRelease, Goto, BeginDestroy
<1>3. EntryInv'
  BY CacheAssumption DEF TypeOK, EntryInv, StrongInv, Alive,
     RemoveRelease, Goto, BeginDestroy
<1>4. KeyedInv'
  BY CacheAssumption DEF TypeOK, KeyedInv, StrongInv, Alive,
     RemoveRelease, Goto, BeginDestroy
<1>5. AliveInv'
  BY CacheAssumption DEF TypeOK, AliveInv, Alive, RemoveRelease, Goto,
     BeginDestroy
<1>6. StrongInv'
  BY CacheAssumption DEF TypeOK, StrongInv, Alive, FrameInv, HeldByOthers,
     RemoveRelease, Goto, BeginDestroy
<1>7. FrameInv'
  BY CacheAssumption DEF TypeOK, FrameInv, GetLabels, RemoveRelease, Goto,
     BeginDestroy
<1>8. FreshInv'
  BY CacheAssumption DEF TypeOK, FreshInv, FrameInv, RemoveRelease, Goto,
     BeginDestroy
<1>9. DyingInv'
  BY CacheAssumption DEF TypeOK, DyingInv, FrameInv, GetLabels, StrongInv,
     Alive, RemoveRelease, Goto, BeginDestroy
<1>10. (\A q \in Proxies : phase[q] = "dying" => \E u \in Actors : q \in unwinding[u])'
  BY CacheAssumption DEF TypeOK, OwnerInv, DyingInv, StrongInv, Alive,
     RemoveRelease, Goto, BeginDestroy
<1>11. (\A u, v \in Actors : u # v => unwinding[u] \intersect unwinding[v] = {})'
  BY CacheAssumption DEF TypeOK, OwnerInv, DyingInv, StrongInv, Alive,
     RemoveRelease, Goto, BeginDestroy
<1>12. OwnerInv'
  BY <1>10, <1>11 DEF OwnerInv
<1> QED
  BY <1>1, <1>2, <1>3, <1>4, <1>5, <1>6, <1>7, <1>8, <1>9, <1>10, <1>11, <1>12

\* The Handle is freed: by then no entry is keyed by it.
LEMMA UnwindStep ==
  ASSUME IInv, NEW t \in Actors, Unwind(t)
  PROVE  IInv'
<1> USE DEF IInv
<1>1. TypeOK'
  BY CacheAssumption DEF TypeOK, FrameInv, GetLabels, RemoveLabels,
     Labels, Unwind, Goto
<1>2. LockInv' /\ HolderInv'
  BY CacheAssumption DEF TypeOK, LockInv, HolderInv, Locked, GetLabels,
     RemoveLabels, Actors, Unwind, Goto
<1>3. EntryInv'
  BY CacheAssumption DEF TypeOK, EntryInv, DyingInv, KeyedInv, Unwind,
     Goto
<1>4. KeyedInv'
  BY CacheAssumption DEF TypeOK, KeyedInv, Unwind, Goto
<1>5. AliveInv'
  BY CacheAssumption DEF TypeOK, AliveInv, Alive, DyingInv, Unwind, Goto
<1>6. StrongInv'
  BY CacheAssumption DEF TypeOK, StrongInv, Alive, DyingInv, Unwind, Goto
<1>7. FrameInv'
  BY CacheAssumption DEF TypeOK, FrameInv, GetLabels, Unwind, Goto
<1>8. FreshInv'
  BY CacheAssumption DEF TypeOK, FreshInv, DyingInv, StrongInv, Alive,
     Unwind, Goto
<1>9. DyingInv'
  BY CacheAssumption DEF TypeOK, DyingInv, FrameInv, GetLabels, OwnerInv,
     Unwind, Goto
<1>10. OwnerInv'
  BY CacheAssumption DEF TypeOK, OwnerInv, Unwind, Goto
<1> QED
  BY <1>1, <1>2, <1>3, <1>4, <1>5, <1>6, <1>7, <1>8, <1>9, <1>10

-----------------------------------------------------------------------------
\* The empty cache satisfies the invariant.
LEMMA InitIInv == Init => IInv
<1> SUFFICES ASSUME Init PROVE IInv
  OBVIOUS
<1>1. TypeOK
  BY CacheAssumption DEF Init, TypeOK, Labels
<1>2. LockInv /\ HolderInv
  BY CacheAssumption DEF Init, LockInv, HolderInv, Locked, GetLabels, RemoveLabels, Actors
<1>3. EntryInv /\ KeyedInv /\ AliveInv
  BY CacheAssumption DEF Init, EntryInv, KeyedInv, AliveInv, Alive
<1>4. StrongInv /\ FrameInv /\ FreshInv
  BY CacheAssumption DEF Init, StrongInv, FrameInv, FreshInv, GetLabels
<1>5. DyingInv /\ OwnerInv
  BY CacheAssumption DEF Init, DyingInv, OwnerInv
<1> QED
  BY <1>1, <1>2, <1>3, <1>4, <1>5 DEF IInv

\* Stuttering changes no variable the invariant mentions.
LEMMA StutterIInv == IInv /\ UNCHANGED vars => IInv'
<1> SUFFICES ASSUME IInv, UNCHANGED vars PROVE IInv'
  OBVIOUS
<1> USE DEF IInv, vars
<1>1. (TypeOK /\ LockInv /\ HolderInv /\ EntryInv /\ KeyedInv)'
  BY DEF TypeOK, LockInv, HolderInv, EntryInv, KeyedInv
<1>2. (AliveInv /\ StrongInv /\ FrameInv)'
  BY DEF AliveInv, StrongInv, FrameInv, Alive
<1>3. (FreshInv /\ DyingInv /\ OwnerInv)'
  BY DEF FreshInv, DyingInv, OwnerInv
<1> QED
  BY <1>1, <1>2, <1>3

\* Every step of the cache preserves the invariant.
LEMMA NextIInv == IInv /\ [Next]_vars => IInv'
<1> SUFFICES ASSUME IInv, [Next]_vars PROVE IInv'
  OBVIOUS
<1>1. ASSUME NEW t \in Threads, NEW k \in Keys, CallGet(t, k) PROVE IInv'
  BY <1>1, CallGetStep
<1>2. ASSUME NEW t \in Threads, NEW p \in Proxies, Drop(t, p) PROVE IInv'
  BY <1>2, DropStep
<1>3. ASSUME NEW p \in Proxies, Collect(p) PROVE IInv'
  BY <1>3, CollectStep
<1>4. ASSUME NEW p \in Proxies, Reap(p) PROVE IInv'
  BY <1>4, ReapStep
<1>5. ASSUME NEW t \in Actors, Step(t) PROVE IInv'
  <2>1. CASE GetLock(t)
    BY <2>1, GetLockStep
  <2>2. CASE GetHit(t)
    BY <2>2, GetHitStep
  <2>3. CASE GetMiss(t)
    BY <2>3, GetMissStep
  <2>4. CASE Alloc(t)
    BY <2>4, AllocStep
  <2>5. CASE AllocThrows(t)
    BY <2>5, AllocThrowsStep
  <2>6. CASE AllocThrowsWithHandle(t)
    BY <2>6, AllocThrowsWithHandleStep
  <2>7. CASE Emplace(t)
    BY <2>7, EmplaceStep
  <2>8. CASE GetReturn(t)
    BY <2>8, GetReturnStep
  <2>9. CASE RemoveLock(t)
    BY <2>9, RemoveLockStep
  <2>10. CASE RemoveUpgrade(t)
    BY <2>10, RemoveUpgradeStep
  <2>11. CASE RemoveErase(t)
    BY <2>11, RemoveEraseStep
  <2>12. CASE RemoveRelease(t)
    BY <2>12, RemoveReleaseStep
  <2>13. CASE Unwind(t)
    BY <2>13, UnwindStep
  <2> QED
    BY <1>5, <2>1, <2>2, <2>3, <2>4, <2>5, <2>6, <2>7, <2>8, <2>9, <2>10,
       <2>11, <2>12, <2>13 DEF Step
<1>6. CASE UNCHANGED vars
  BY <1>6, StutterIInv
<1> QED
  BY <1>1, <1>2, <1>3, <1>4, <1>5, <1>6 DEF Next

\* IInv holds in every state the cache can reach.
THEOREM Invariance == Spec => []IInv
<1> QED
  BY InitIInv, NextIInv, PTL DEF Spec

-----------------------------------------------------------------------------
(* What the invariant is for *)

\* Every variable keeps its type, whatever the threads, keys and proxies.
THEOREM TypeCorrectness == Spec => []TypeOK
<1>1. IInv => TypeOK
  BY DEF IInv
<1> QED
  BY <1>1, Invariance, PTL

\* Two live proxies of one impl would both be the entry of its key, or one of
\* them is being inserted by the owner of the mutex into an empty entry.
LEMMA LiveProxiesAreUnique == IInv => OneLiveProxyPerKey
<1> SUFFICES ASSUME IInv, NEW p \in Proxies, NEW q \in Proxies,
                    Alive(p), Alive(q), key[p] = key[q]
             PROVE  p = q
  BY DEF OneLiveProxyPerKey
<1> DEFINE Inserting(t, r) == pc[t] = "emplace" /\ temp[t] = r
<1>1. ASSUME NEW r \in Proxies, Alive(r)
      PROVE  mapping[key[r]] = r \/ \E t \in Actors : Inserting(t, r)
  BY <1>1 DEF IInv, AliveInv
<1>2. ASSUME NEW t \in Actors, NEW r \in Proxies, Inserting(t, r)
      PROVE  mapping[key[r]] = NoProxy
  BY <1>2 DEF IInv, FreshInv, FrameInv
<1>3. ASSUME NEW t \in Actors, NEW u \in Actors, Inserting(t, p), Inserting(u, q)
      PROVE  p = q
  BY <1>3 DEF IInv, LockInv, Locked, GetLabels
<1> HIDE DEF Inserting
<1> QED
  BY <1>1, <1>2, <1>3, CacheAssumption

\* get() never gives an impl a second proxy while the program can reach the
\* first, however late the remove() of an earlier one runs.
THEOREM OneProxyPerImpl == Spec => []OneLiveProxyPerKey
<1> QED
  BY LiveProxiesAreUnique, Invariance, PTL

\* No map key is built from an impl reference that has been released.
THEOREM KeysStayValid == Spec => []KeyReferencesValid
<1>1. IInv => KeyReferencesValid
  BY DEF IInv, EntryInv, KeyReferencesValid
<1> QED
  BY <1>1, Invariance, PTL

\* remove() never takes away the entry of a proxy that the program holds.
THEOREM HeldStayCached == Spec => []HeldProxiesAreCached
<1>1. IInv => HeldProxiesAreCached
  BY DEF IInv, TypeOK, StrongInv, AliveInv, FreshInv, HeldProxiesAreCached, Actors
<1> QED
  BY <1>1, Invariance, PTL

\* With every thread outside the cache and the cleanup queue empty, no expired
\* entry is left in the map.
THEOREM RestsClean == Spec => []QuiescentMapIsLive
<1>1. IInv => QuiescentMapIsLive
  <2> SUFFICES ASSUME IInv, \A t \in Actors : pc[t] = "idle",
                      \A p \in Proxies : phase[p] # "doomed",
                      NEW k \in Keys, mapping[k] # NoProxy
               PROVE  Alive(mapping[k])
    BY DEF QuiescentMapIsLive
  <2>1. mapping[k] \in Proxies /\ phase[mapping[k]] # "none"
    BY DEF IInv, TypeOK, EntryInv
  <2>2. phase[mapping[k]] # "dying"
    BY <2>1 DEF IInv, FrameInv, OwnerInv
  <2> QED
    BY <2>1, <2>2 DEF IInv, TypeOK, Alive
<1> QED
  BY <1>1, Invariance, PTL

\* When no allocator fails after it built a Handle, no thread asks for the
\* mutex it already owns, nested destructors included.
THEOREM NoRelock == ~HandleMayOutliveAlloc => (Spec => []NoSelfDeadlock)
<1> SUFFICES ASSUME ~HandleMayOutliveAlloc PROVE Spec => []NoSelfDeadlock
  OBVIOUS
<1>1. IInv => NoSelfDeadlock
  BY DEF IInv, HolderInv, NoSelfDeadlock, Locked, GetLabels, RemoveLabels
<1> QED
  BY <1>1, Invariance, PTL

-----------------------------------------------------------------------------
(* The cache implements ProxyRegistry. *)

LiveMap == [k \in Keys |-> LiveProxyOf(k)]
HeldMap == [t \in Actors |-> StrongRefs(t)]

\* LiveProxyOf(k) is the live proxy with the key k, if there is one.
LiveInv ==
  \A k \in Keys :
    /\ LiveProxyOf(k) \in Proxies \union {NoProxy}
    /\ \A p \in Proxies : LiveProxyOf(k) = p <=> Alive(p) /\ key[p] = k

RInv == IInv /\ LiveInv

RegistryStep == Registry!Next \/ UNCHANGED <<LiveMap, HeldMap>>

\* Since an impl has at most one live proxy.
LEMMA LiveProxyIsTheOne == IInv => LiveInv
<1> SUFFICES ASSUME IInv, NEW k \in Keys
             PROVE  /\ LiveProxyOf(k) \in Proxies \union {NoProxy}
                    /\ \A p \in Proxies : LiveProxyOf(k) = p <=> Alive(p) /\ key[p] = k
  BY DEF LiveInv
<1>1. CASE \E p \in Proxies : Alive(p) /\ key[p] = k
  <2>1. LiveProxyOf(k) \in Proxies /\ Alive(LiveProxyOf(k)) /\ key[LiveProxyOf(k)] = k
    BY <1>1 DEF LiveProxyOf
  <2> QED
    BY <2>1, LiveProxiesAreUnique DEF OneLiveProxyPerKey
<1>2. CASE ~\E p \in Proxies : Alive(p) /\ key[p] = k
  BY <1>2, CacheAssumption DEF LiveProxyOf
<1> QED
  BY <1>1, <1>2

\* Steps that change neither which proxies live, nor their keys, nor who holds them.
LEMMA LiveMapStays ==
  ASSUME RInv, RInv',
         \A p \in Proxies : (Alive(p))' <=> Alive(p),
         \A p \in Proxies : Alive(p) => key'[p] = key[p]
  PROVE  UNCHANGED LiveMap
<1>1. ASSUME NEW k \in Keys PROVE LiveProxyOf(k)' = LiveProxyOf(k)
  <2>1. /\ LiveProxyOf(k) \in Proxies \union {NoProxy}
        /\ LiveProxyOf(k)' \in Proxies \union {NoProxy}
        /\ \A p \in Proxies : LiveProxyOf(k) = p <=> Alive(p) /\ key[p] = k
        /\ \A p \in Proxies : LiveProxyOf(k)' = p <=> (Alive(p))' /\ key'[p] = k
    BY DEF RInv, LiveInv
  <2> QED
    BY <2>1
<1> QED
  BY <1>1 DEF LiveMap

\* What a step of t does to the references of t.
LEMMA HeldMapOf ==
  ASSUME TypeOK, NEW t \in Actors, NEW S,
         \A u \in Actors \ {t} : refs'[u] = refs[u] /\ temp'[u] = temp[u],
         refs'[t] \union ({temp'[t]} \ {NoProxy}) = S
  PROVE  HeldMap' = [HeldMap EXCEPT ![t] = S]
<1>1. StrongRefs(t)' = S /\ \A u \in Actors \ {t} : StrongRefs(u)' = StrongRefs(u)
  BY DEF StrongRefs
<1> QED
  BY <1>1 DEF HeldMap

\* Inside the cache most steps are invisible.
LEMMA InvisibleSteps ==
  ASSUME RInv, RInv', NEW t \in Actors,
         \/ t \in Threads /\ \E k \in Keys : CallGet(t, k)
         \/ GetLock(t) \/ GetMiss(t) \/ AllocThrows(t) \/ Emplace(t)
         \/ RemoveLock(t) \/ RemoveErase(t)
  PROVE  UNCHANGED <<LiveMap, HeldMap>>
<1>1. UNCHANGED <<phase, key, refs, temp>>
  BY DEF CallGet, GetLock, GetMiss, AllocThrows, Emplace, RemoveLock, RemoveErase
<1>2. UNCHANGED LiveMap
  BY <1>1, LiveMapStays DEF Alive
<1>3. UNCHANGED HeldMap
  BY <1>1 DEF HeldMap, StrongRefs
<1> QED
  BY <1>2, <1>3

\* So are the last step of get(), which moves a reference from the frame to the
\* program, and the life of a proxy once it is dead.
LEMMA InvisibleLives ==
  ASSUME RInv, RInv', NEW t \in Actors,
         \/ GetReturn(t) \/ AllocThrowsWithHandle(t) \/ Unwind(t)
         \/ \E p \in Proxies : Reap(p)
  PROVE  UNCHANGED <<LiveMap, HeldMap>>
<1>1. /\ \A p \in Proxies : (Alive(p))' <=> Alive(p)
      /\ \A p \in Proxies : Alive(p) => key'[p] = key[p]
      /\ \A u \in Actors : StrongRefs(u)' = StrongRefs(u)
  <2> USE DEF Alive, StrongRefs
  <2>1. CASE GetReturn(t)
    <3>1. /\ refs'[t] = refs[t] \union {temp[t]} /\ temp'[t] = NoProxy /\ temp[t] # NoProxy
          /\ \A u \in Actors \ {t} : refs'[u] = refs[u] /\ temp'[u] = temp[u]
      BY <2>1, CacheAssumption DEF GetReturn, RInv, IInv, TypeOK, FrameInv
    <3>2. refs'[t] \union ({temp'[t]} \ {NoProxy}) = refs[t] \union ({temp[t]} \ {NoProxy})
      BY <3>1
    <3> QED
      BY <2>1, <3>1, <3>2 DEF GetReturn
  <2>2. CASE AllocThrowsWithHandle(t)
    BY <2>2 DEF AllocThrowsWithHandle, RInv, IInv, TypeOK
  <2>3. CASE Unwind(t)
    BY <2>3 DEF Unwind, RInv, IInv, TypeOK, DyingInv
  <2>4. ASSUME NEW p \in Proxies, Reap(p)
        PROVE  /\ \A q \in Proxies : (Alive(q))' <=> Alive(q)
               /\ UNCHANGED <<key, refs, temp>>
    BY <2>4 DEF Reap, BeginDestroy, RInv, IInv, TypeOK
  <2> QED
    BY <2>1, <2>2, <2>3, <2>4
<1>2. UNCHANGED LiveMap
  BY <1>1, LiveMapStays
<1>3. UNCHANGED HeldMap
  BY <1>1 DEF HeldMap
<1> QED
  BY <1>2, <1>3

\* get() that finds the proxy of its impl, and remove() that finds a newer one,
\* share it.
LEMMA SharingSteps ==
  ASSUME RInv, RInv', NEW t \in Actors, GetHit(t) \/ RemoveUpgrade(t)
  PROVE  RegistryStep
<1>1. PICK k \in Keys :
        \/ GetHit(t) /\ k = arg[t]
        \/ RemoveUpgrade(t) /\ k = key[cur[t]]
  BY DEF GetHit, RemoveUpgrade, RInv, IInv, TypeOK, FrameInv, DyingInv, KeyedInv, GetLabels
<1>2. UNCHANGED <<phase, key, refs, mapping>>
  BY DEF GetHit, RemoveUpgrade
<1>3. UNCHANGED LiveMap
  BY <1>2, LiveMapStays DEF Alive
<1>4. temp[t] = NoProxy
  BY <1>1 DEF GetHit, RemoveUpgrade, RInv, IInv, FrameInv
<1>5. CASE UNCHANGED temp
  BY <1>2, <1>3, <1>5 DEF RegistryStep, HeldMap, StrongRefs
<1>6. CASE ~UNCHANGED temp
  <2>1. /\ mapping[k] # NoProxy /\ Alive(mapping[k])
        /\ temp' = [temp EXCEPT ![t] = mapping[k]]
    BY <1>1, <1>6 DEF GetHit, RemoveUpgrade
  <2>2. mapping[k] \in Proxies /\ key[mapping[k]] = k
    BY <2>1 DEF RInv, IInv, TypeOK, EntryInv
  <2>3. LiveMap[k] = mapping[k] /\ LiveMap[k] # NoProxy
    BY <2>1, <2>2 DEF LiveMap, RInv, LiveInv
  <2>4. HeldMap' = [HeldMap EXCEPT ![t] = @ \union {LiveMap[k]}]
    <3>1. /\ refs' = refs /\ temp'[t] = LiveMap[k]
          /\ \A u \in Actors \ {t} : temp'[u] = temp[u]
      BY <1>2, <2>1, <2>3 DEF RInv, IInv, TypeOK
    <3>2. refs'[t] \union ({temp'[t]} \ {NoProxy})
            = (refs[t] \union ({temp[t]} \ {NoProxy})) \union {LiveMap[k]}
      BY <1>4, <2>3, <3>1
    <3> QED
      BY <3>1, <3>2, HeldMapOf DEF RInv, IInv, HeldMap, StrongRefs
  <2>5. Registry!Share(t, k)
    BY <1>3, <2>3, <2>4 DEF Registry!Share, LiveMap, HeldMap
  <2> QED
    BY <2>5 DEF RegistryStep, Registry!Next
<1> QED
  BY <1>5, <1>6

\* alloc() gives an impl without live proxy its new one.
LEMMA CreatingStep ==
  ASSUME RInv, RInv', NEW t \in Actors, Alloc(t)
  PROVE  RegistryStep
<1>1. PICK p \in Proxies :
        /\ phase[p] = "none"
        /\ phase' = [phase EXCEPT ![p] = "alive"]
        /\ key' = [key EXCEPT ![p] = arg[t]]
        /\ temp' = [temp EXCEPT ![t] = p]
        /\ UNCHANGED refs
  BY DEF Alloc
<1>2. arg[t] \in Keys /\ mapping[arg[t]] = NoProxy /\ temp[t] = NoProxy
  BY DEF Alloc, RInv, IInv, FrameInv, GetLabels
<1>3. ASSUME NEW q \in Proxies, Alive(q) PROVE key[q] # arg[t]
  <2>1. mapping[key[q]] = q \/ \E u \in Actors : pc[u] = "emplace" /\ temp[u] = q
    BY <1>3 DEF RInv, IInv, AliveInv
  <2>2. ASSUME NEW u \in Actors, pc[u] = "emplace" PROVE FALSE
    BY <2>2 DEF Alloc, RInv, IInv, LockInv, Locked, GetLabels
  <2> QED
    BY <1>2, <2>1, <2>2, CacheAssumption
<1>4. LiveMap[arg[t]] = NoProxy
  BY <1>2, <1>3 DEF LiveMap, RInv, LiveInv
<1>5. \A j \in Keys : LiveMap[j] # p
  BY <1>1 DEF LiveMap, RInv, LiveInv, Alive
<1>6. LiveMap' = [LiveMap EXCEPT ![arg[t]] = p]
  <2>1. ASSUME NEW j \in Keys
        PROVE  LiveProxyOf(j)' = IF j = arg[t] THEN p ELSE LiveProxyOf(j)
    <3>1. /\ LiveProxyOf(j) \in Proxies \union {NoProxy}
          /\ LiveProxyOf(j)' \in Proxies \union {NoProxy}
          /\ \A q \in Proxies : LiveProxyOf(j) = q <=> Alive(q) /\ key[q] = j
          /\ \A q \in Proxies : LiveProxyOf(j)' = q <=> (Alive(q))' /\ key'[q] = j
      BY DEF RInv, LiveInv
    <3>2. \A q \in Proxies : q # p => ((Alive(q))' <=> Alive(q)) /\ key'[q] = key[q]
      BY <1>1 DEF Alive, RInv, IInv, TypeOK
    <3>3. (Alive(p))' /\ key'[p] = arg[t] /\ ~Alive(p)
      BY <1>1 DEF Alive, RInv, IInv, TypeOK
    <3> QED
      BY <3>1, <3>2, <3>3
  <2> QED
    BY <1>2, <2>1 DEF LiveMap
<1>7. HeldMap' = [HeldMap EXCEPT ![t] = @ \union {p}]
  <2>1. /\ refs' = refs /\ temp'[t] = p
        /\ \A u \in Actors \ {t} : temp'[u] = temp[u]
    BY <1>1 DEF RInv, IInv, TypeOK
  <2>2. refs'[t] \union ({temp'[t]} \ {NoProxy})
          = (refs[t] \union ({temp[t]} \ {NoProxy})) \union {p}
    BY <1>2, <2>1, CacheAssumption
  <2> QED
    BY <2>1, <2>2, HeldMapOf DEF RInv, IInv, HeldMap, StrongRefs
<1>8. Registry!Create(t, arg[t], p)
  BY <1>2, <1>4, <1>5, <1>6, <1>7 DEF Registry!Create, LiveMap, HeldMap
<1> QED
  BY <1>2, <1>8 DEF RegistryStep, Registry!Next

\* A proxy that dies leaves the live map, and nothing else does.
LEMMA LiveMapLoses ==
  ASSUME RInv, RInv', NEW p \in Proxies, Alive(p),
         ~(Alive(p))', UNCHANGED key,
         \A q \in Proxies \ {p} : (Alive(q))' <=> Alive(q)
  PROVE  /\ key[p] \in Keys /\ LiveMap[key[p]] = p
         /\ LiveMap' = [LiveMap EXCEPT ![key[p]] = NoProxy]
<1>1. key[p] \in Keys
  BY DEF RInv, IInv, KeyedInv, Alive
<1>2. LiveMap[key[p]] = p
  BY <1>1 DEF LiveMap, RInv, LiveInv
<1>3. ASSUME NEW j \in Keys
      PROVE  LiveProxyOf(j)' = IF j = key[p] THEN NoProxy ELSE LiveProxyOf(j)
  <2>1. /\ LiveProxyOf(j) \in Proxies \union {NoProxy}
        /\ LiveProxyOf(j)' \in Proxies \union {NoProxy}
        /\ \A q \in Proxies : LiveProxyOf(j) = q <=> Alive(q) /\ key[q] = j
        /\ \A q \in Proxies : LiveProxyOf(j)' = q <=> (Alive(q))' /\ key[q] = j
    BY DEF RInv, LiveInv
  <2>2. j = key[p] => LiveProxyOf(j) = p
    BY <2>1
  <2> QED
    BY <2>1, <2>2
<1>4. LiveMap' = [LiveMap EXCEPT ![key[p]] = NoProxy]
  BY <1>1, <1>3 DEF LiveMap
<1> QED
  BY <1>1, <1>2, <1>4

\* The garbage collector retires a proxy that nobody holds.
LEMMA RetiringStep ==
  ASSUME RInv, RInv', NEW p \in Proxies, Collect(p)
  PROVE  RegistryStep
<1>1. /\ Alive(p) /\ ~(Alive(p))' /\ UNCHANGED <<key, refs, temp>>
      /\ \A q \in Proxies \ {p} : (Alive(q))' <=> Alive(q)
  BY DEF Collect, Alive, RInv, IInv, TypeOK
<1>2. \A u \in Actors : p \notin HeldMap[u]
  BY DEF Collect, HeldMap, StrongRefs
<1>3. UNCHANGED HeldMap
  BY <1>1 DEF HeldMap, StrongRefs
<1>4. /\ key[p] \in Keys /\ LiveMap[key[p]] = p
      /\ LiveMap' = [LiveMap EXCEPT ![key[p]] = NoProxy]
  BY <1>1, LiveMapLoses
<1>5. Registry!Retire(key[p])
  BY <1>2, <1>3, <1>4, CacheAssumption DEF Registry!Retire, LiveMap, HeldMap
<1> QED
  BY <1>4, <1>5 DEF RegistryStep, Registry!Next

\* A reference that goes and is not the last.
LEMMA ReleasingStep ==
  ASSUME RInv, RInv', NEW t \in Actors, NEW p \in Proxies,
         UNCHANGED <<phase, key>>, p \in HeldMap[t],
         HeldMap' = [HeldMap EXCEPT ![t] = @ \ {p}]
  PROVE  RegistryStep
<1>1. UNCHANGED LiveMap
  BY LiveMapStays DEF Alive
<1>2. Registry!Release(t, p)
  BY <1>1 DEF Registry!Release, LiveMap, HeldMap
<1> QED
  BY <1>2 DEF RegistryStep, Registry!Next

\* The last one, with which the proxy dies.
LEMMA ReleasingLastStep ==
  ASSUME RInv, RInv', NEW t \in Actors, NEW p \in Proxies,
         Alive(p), BeginDestroy(t, p), UNCHANGED key,
         p \in HeldMap[t], ~HeldByOthers(p, t),
         HeldMap' = [HeldMap EXCEPT ![t] = @ \ {p}]
  PROVE  RegistryStep
<1>1. ~(Alive(p))' /\ \A q \in Proxies \ {p} : (Alive(q))' <=> Alive(q)
  BY DEF BeginDestroy, Alive, RInv, IInv, TypeOK
<1>2. /\ key[p] \in Keys /\ LiveMap[key[p]] = p
      /\ LiveMap' = [LiveMap EXCEPT ![key[p]] = NoProxy]
  BY <1>1, LiveMapLoses
<1>3. \A u \in Actors \ {t} : p \notin HeldMap[u]
  BY DEF HeldByOthers, HeldMap, StrongRefs
<1>4. Registry!ReleaseLast(t, key[p])
  BY <1>2, <1>3 DEF Registry!ReleaseLast, LiveMap, HeldMap
<1> QED
  BY <1>2, <1>4 DEF RegistryStep, Registry!Next

\* The program gives up a reference.
LEMMA DroppingStep ==
  ASSUME RInv, RInv', NEW t \in Threads, NEW p \in Proxies, Drop(t, p)
  PROVE  RegistryStep
<1>1. t \in Actors /\ temp[t] = NoProxy /\ UNCHANGED <<key, temp>>
  BY DEF Drop, Actors, RInv, IInv, FrameInv
<1>2. p \in HeldMap[t] /\ Alive(p)
  BY <1>1 DEF Drop, HeldMap, StrongRefs, RInv, IInv, StrongInv
<1>3. HeldMap' = [HeldMap EXCEPT ![t] = @ \ {p}]
  BY <1>1 DEF Drop, HeldMap, StrongRefs, RInv, IInv, TypeOK
<1>4. CASE Collected \/ HeldByOthers(p, t)
  BY <1>1, <1>2, <1>3, <1>4, ReleasingStep DEF Drop
<1>5. CASE ~(Collected \/ HeldByOthers(p, t))
  BY <1>1, <1>2, <1>3, <1>5, ReleasingLastStep DEF Drop
<1> QED
  BY <1>4, <1>5

\* remove() gives up the newer proxy it came across.
LEMMA RemoveReleasingStep ==
  ASSUME RInv, RInv', NEW t \in Actors, RemoveRelease(t)
  PROVE  RegistryStep
<1>1. UNCHANGED <<key, refs>> /\ temp' = [temp EXCEPT ![t] = NoProxy]
  BY DEF RemoveRelease
<1>2. CASE temp[t] = NoProxy \/ temp[t] \in refs[t]
  <2>1. UNCHANGED <<phase, HeldMap>>
    BY <1>1, <1>2 DEF RemoveRelease, HeldMap, StrongRefs, RInv, IInv, TypeOK
  <2>2. UNCHANGED LiveMap
    BY <1>1, <2>1, LiveMapStays DEF Alive
  <2> QED
    BY <2>1, <2>2 DEF RegistryStep
<1>3. CASE temp[t] # NoProxy /\ temp[t] \notin refs[t]
  <2>1. temp[t] \in Proxies /\ temp[t] \in HeldMap[t] /\ Alive(temp[t])
    BY <1>3 DEF HeldMap, StrongRefs, RInv, IInv, TypeOK, StrongInv
  <2>2. HeldMap' = [HeldMap EXCEPT ![t] = @ \ {temp[t]}]
    <3>1. /\ refs' = refs /\ temp'[t] = NoProxy
          /\ \A u \in Actors \ {t} : temp'[u] = temp[u]
      BY <1>1 DEF RInv, IInv, TypeOK
    <3>2. refs'[t] \union ({temp'[t]} \ {NoProxy})
            = (refs[t] \union ({temp[t]} \ {NoProxy})) \ {temp[t]}
      BY <1>3, <3>1
    <3> QED
      BY <3>1, <3>2, HeldMapOf DEF RInv, IInv, HeldMap, StrongRefs
  <2>3. CASE Collected \/ HeldByOthers(temp[t], t)
    BY <1>1, <2>1, <2>2, <2>3, ReleasingStep DEF RemoveRelease
  <2>4. CASE ~(Collected \/ HeldByOthers(temp[t], t))
    BY <1>1, <1>3, <2>1, <2>2, <2>4, ReleasingLastStep DEF RemoveRelease
  <2> QED
    BY <2>3, <2>4
<1> QED
  BY <1>2, <1>3

\* Every step is a step of the registry, or invisible.
LEMMA NextImplements == RInv /\ RInv' /\ [Next]_vars => RegistryStep
<1> SUFFICES ASSUME RInv, RInv', [Next]_vars PROVE RegistryStep
  OBVIOUS
<1>1. CASE UNCHANGED vars
  BY <1>1 DEF vars, RegistryStep, LiveMap, HeldMap, LiveProxyOf, StrongRefs, Alive
<1>2. ASSUME NEW t \in Threads, NEW k \in Keys, CallGet(t, k) PROVE RegistryStep
  BY <1>2, InvisibleSteps DEF RegistryStep, Actors
<1>3. ASSUME NEW t \in Threads, NEW p \in Proxies, Drop(t, p) PROVE RegistryStep
  BY <1>3, DroppingStep
<1>4. ASSUME NEW p \in Proxies, Collect(p) PROVE RegistryStep
  BY <1>4, RetiringStep
<1>5. ASSUME NEW p \in Proxies, Reap(p) PROVE RegistryStep
  BY <1>5, InvisibleLives DEF RegistryStep, Actors
<1>6. ASSUME NEW t \in Actors, Step(t) PROVE RegistryStep
  <2>1. CASE GetLock(t) \/ GetMiss(t) \/ AllocThrows(t) \/ Emplace(t)
             \/ RemoveLock(t) \/ RemoveErase(t)
    BY <2>1, InvisibleSteps DEF RegistryStep
  <2>2. CASE AllocThrowsWithHandle(t) \/ GetReturn(t) \/ Unwind(t)
    BY <2>2, InvisibleLives DEF RegistryStep
  <2>3. CASE GetHit(t) \/ RemoveUpgrade(t)
    BY <2>3, SharingSteps
  <2>4. CASE Alloc(t)
    BY <2>4, CreatingStep
  <2>5. CASE RemoveRelease(t)
    BY <2>5, RemoveReleasingStep
  <2> QED
    BY <1>6, <2>1, <2>2, <2>3, <2>4, <2>5 DEF Step
<1> QED
  BY <1>1, <1>2, <1>3, <1>4, <1>5, <1>6 DEF Next

\* At first nothing lives and nothing is held.
LEMMA InitImplements == Init => Registry!Init
<1> SUFFICES ASSUME Init PROVE LiveMap = [k \in Keys |-> NoProxy] /\ HeldMap = [t \in Actors |-> {}]
  BY DEF Registry!Init, LiveMap, HeldMap
<1>1. \A k \in Keys : LiveProxyOf(k) = NoProxy
  BY DEF Init, LiveProxyOf, Alive
<1>2. \A t \in Actors : StrongRefs(t) = {}
  BY DEF Init, StrongRefs
<1> QED
  BY <1>1, <1>2 DEF LiveMap, HeldMap

\* With its locks, weak pointers and late removes the cache is, to its callers,
\* an atomic registry that gives an impl one proxy at a time.
THEOREM CacheIsRegistry == Spec => ImplementsRegistry
<1>1. RegistryStep => [Registry!Next]_(Registry!registryVars)
  BY DEF RegistryStep, Registry!registryVars, LiveMap, HeldMap
<1>2. IInv => RInv
  BY LiveProxyIsTheOne DEF RInv
<1> QED
  BY <1>1, <1>2, InitImplements, NextImplements, Invariance, PTL
     DEF Spec, ImplementsRegistry, Registry!Spec
=============================================================================
