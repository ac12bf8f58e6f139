---------------------------- MODULE FuturePromise ----------------------------
(***************************************************************************)
(* djinni::Promise and djinni::Future (support-lib/cpp/Future.hpp).        *)
(*                                                                         *)
(* A promise and its futures are linked by a SharedState.  Threads create  *)
(* promises, resolve or drop them, and wait(), get() or then() on futures. *)
(* then() makes a further promise, owned by the continuation it stores in  *)
(* the SharedState, so states form chains: resolving one runs the stored   *)
(* continuation on the resolving thread, which resolves the next.          *)
(*                                                                         *)
(* A critical section of SharedState::mutex is one step, except the one    *)
(* that replaces a stored continuation: destroying the old one runs code   *)
(* while the mutex is held.                                                *)
(***************************************************************************)
EXTENDS Naturals, FiniteSets, TLC

CONSTANTS
  Threads,
  Producers,     \* the threads that never block on a future
  States,        \* the SharedStates that can be created
  NoThread,
  NoState,
  MaxFutures,    \* bound: how often the program calls getFuture() on a promise
  ConcurrentUse  \* TRUE: other threads use a future while one waits on it

ASSUME FutureAssumption ==
  /\ NoThread \notin Threads
  /\ Producers \subseteq Threads
  /\ NoState \notin States
  /\ MaxFutures \in Nat \ {0}
  /\ ConcurrentUse \in BOOLEAN

VARIABLES
  promise,   \* "unborn"; unresolved, and owned by the "program" or by a
             \* "continuation"; "set": resolved, the object exists; "gone"
  result,    \* SharedState value and exception: what the state holds
  handler,   \* SharedState::handler: the state its continuation resolves
  made,      \* how many futures the program obtained for the state
  futures,   \* how many of them are still valid
  source,    \* the state whose then() made this one, if any
  taken,     \* how often a get() has moved the result out
  mutex,     \* SharedState::mutex, when held across steps
  pc,
  at,        \* the state the thread works on
  next,      \* then(): the state of the future it returns
  outcome,   \* setValue or setException: what the thread writes
  holding,   \* the state whose mutex the thread owns while it runs code
  inDtor     \* the thread is inside a ~Promise, which is noexcept

chain == <<source, taken>>
frame == <<next, outcome, holding, inDtor>>
vars == <<promise, result, handler, made, futures, chain, mutex, pc, at, frame>>

\* A result: a value, the exception of a setException or of a handler, or the
\* BrokenPromiseException of a Promise that dies unresolved.
Results == {"value", "exception", "broken"}

Ready(s) == result[s] # "none"

Goto(t, label) == pc' = [pc EXCEPT ![t] = label]

Init ==
  /\ promise = [s \in States |-> "unborn"]
  /\ result = [s \in States |-> "none"]
  /\ handler = [s \in States |-> NoState]
  /\ made = [s \in States |-> 0]
  /\ futures = [s \in States |-> 0]
  /\ source = [s \in States |-> NoState]
  /\ taken = [s \in States |-> 0]
  /\ mutex = [s \in States |-> NoThread]
  /\ pc = [t \in Threads |-> "idle"]
  /\ at = [t \in Threads |-> NoState]
  /\ next = [t \in Threads |-> NoState]
  /\ outcome = [t \in Threads |-> "none"]
  /\ holding = [t \in Threads |-> NoState]
  /\ inDtor = [t \in Threads |-> FALSE]

\* Some thread blocks on the future of s.
Blocking(s) ==
  \E u \in Threads : at[u] = s /\ pc[u] \in {"waitLock", "getLock", "waiting", "getting"}

\* The program may call a member of a future of s.
Usable(s) == futures[s] > 0 /\ (ConcurrentUse \/ ~Blocking(s))

-----------------------------------------------------------------------------
(* The program *)

MakePromise(t, s) ==
  /\ pc[t] = "idle"
  /\ promise[s] = "unborn"
  /\ promise' = [promise EXCEPT ![s] = "program"]
  /\ UNCHANGED <<result, handler, made, futures, chain, mutex, pc, at, frame>>

\* getFuture() works on the read-only pointer, before and after setValue().
GetFuture(t, s) ==
  /\ pc[t] = "idle"
  /\ promise[s] \in {"program", "set"}
  /\ made[s] < MaxFutures
  /\ made' = [made EXCEPT ![s] = @ + 1]
  /\ futures' = [futures EXCEPT ![s] = @ + 1]
  /\ UNCHANGED <<promise, result, handler, chain, mutex, pc, at, frame>>

\* (Mutant of Resolve.)  setValue() loads the pointer instead of exchanging it.
ResolveKeepsPromise(t, s, r) ==
  /\ pc[t] = "idle"
  /\ promise[s] = "program"
  /\ promise' = [promise EXCEPT ![s] = IF r = "broken" THEN "gone" ELSE @]
  /\ at' = [at EXCEPT ![t] = s]
  /\ outcome' = [outcome EXCEPT ![t] = r]
  /\ inDtor' = [inDtor EXCEPT ![t] = (r = "broken")]
  /\ Goto(t, "update")
  /\ UNCHANGED <<result, handler, made, futures, chain, mutex, next, holding>>

\* setValue(), setException(), or ~Promise (r = "broken"): the promise pointer
\* is exchanged for null, which only one caller can see non-null.
Resolve(t, s, r) ==
  /\ pc[t] = "idle"
  /\ promise[s] = "program"
  /\ promise' = [promise EXCEPT ![s] = IF r = "broken" THEN "gone" ELSE "set"]
  /\ at' = [at EXCEPT ![t] = s]
  /\ outcome' = [outcome EXCEPT ![t] = r]
  /\ inDtor' = [inDtor EXCEPT ![t] = (r = "broken")]
  /\ Goto(t, "update")
  /\ UNCHANGED <<result, handler, made, futures, chain, mutex, next, holding>>

\* ~Future
DropFuture(t, s) ==
  /\ pc[t] = "idle"
  /\ Usable(s)
  /\ futures' = [futures EXCEPT ![s] = @ - 1]
  /\ UNCHANGED <<promise, result, handler, made, chain, mutex, pc, at, frame>>

\* wait() keeps the future valid, get() exchanges its pointer for null.
CallWait(t, s) ==
  /\ pc[t] = "idle"
  /\ t \notin Producers
  /\ Usable(s)
  /\ at' = [at EXCEPT ![t] = s]
  /\ Goto(t, "waitLock")
  /\ UNCHANGED <<promise, result, handler, made, futures, chain, mutex, frame>>

\* (Mutant of CallGet.)  Load the pointer instead of exchanging it.
CallGetKeepsFuture(t, s) ==
  /\ pc[t] = "idle"
  /\ t \notin Producers
  /\ Usable(s)
  /\ at' = [at EXCEPT ![t] = s]
  /\ Goto(t, "getLock")
  /\ UNCHANGED <<promise, result, handler, made, futures, chain, mutex, frame>>

CallGet(t, s) ==
  /\ pc[t] = "idle"
  /\ t \notin Producers
  /\ Usable(s)
  /\ futures' = [futures EXCEPT ![s] = @ - 1]
  /\ at' = [at EXCEPT ![t] = s]
  /\ Goto(t, "getLock")
  /\ UNCHANGED <<promise, result, handler, made, chain, mutex, frame>>

\* then(): the future becomes invalid, a new promise n belongs to the
\* continuation.
CallThen(t, s, n) ==
  /\ pc[t] = "idle"
  /\ Usable(s)
  /\ promise[n] = "unborn"
  /\ futures' = [futures EXCEPT ![s] = @ - 1]
  /\ promise' = [promise EXCEPT ![n] = "continuation"]
  /\ at' = [at EXCEPT ![t] = s]
  /\ source' = [source EXCEPT ![n] = s]
  /\ next' = [next EXCEPT ![t] = n]
  /\ Goto(t, "thenLock")
  /\ UNCHANGED <<result, handler, made, taken, mutex, outcome, holding, inDtor>>

-----------------------------------------------------------------------------
(* updateAndCallResultHandler() *)

\* (Mutants of Update.)  Never notify the condition variable.
UpdateWithoutNotify(t) ==
  LET s == at[t] IN
  /\ pc[t] = "update"
  /\ mutex[s] = NoThread
  /\ result' = [result EXCEPT ![s] = outcome[t]]
  /\ handler' = [handler EXCEPT ![s] = NoState]
  /\ outcome' = [outcome EXCEPT ![t] = "none"]
  /\ at' = [at EXCEPT ![t] = handler[s]]
  /\ Goto(t, IF handler[s] = NoState THEN "resolved" ELSE "run")
  /\ UNCHANGED <<promise, made, futures, chain, mutex, next, holding, inDtor>>

\* Use the handler without moving it out of the state.
UpdateKeepsHandler(t) ==
  LET s == at[t] IN
  /\ pc[t] = "update"
  /\ mutex[s] = NoThread
  /\ result' = [result EXCEPT ![s] = outcome[t]]
  /\ outcome' = [outcome EXCEPT ![t] = "none"]
  /\ IF handler[s] = NoState
       THEN Goto(t, "notify") /\ UNCHANGED at
       ELSE Goto(t, "run") /\ at' = [at EXCEPT ![t] = handler[s]]
  /\ UNCHANGED <<promise, handler, made, futures, chain, mutex, next, holding, inDtor>>

\* Call the handler before the result is stored.
UpdateAfterHandler(t) ==
  LET s == at[t] IN
  /\ pc[t] = "update"
  /\ mutex[s] = NoThread
  /\ handler' = [handler EXCEPT ![s] = NoState]
  /\ outcome' = [outcome EXCEPT ![t] = "none"]
  /\ IF handler[s] = NoState
       THEN /\ Goto(t, "notify")
            /\ result' = [result EXCEPT ![s] = outcome[t]]
            /\ UNCHANGED at
       ELSE /\ Goto(t, "run")
            /\ at' = [at EXCEPT ![t] = handler[s]]
            /\ UNCHANGED result
  /\ UNCHANGED <<promise, made, futures, chain, mutex, next, holding, inDtor>>

\* Under the lock: store the result, move the handler out.
Update(t) ==
  LET s == at[t] IN
  /\ pc[t] = "update"
  /\ mutex[s] = NoThread
  /\ result' = [result EXCEPT ![s] = outcome[t]]
  /\ handler' = [handler EXCEPT ![s] = NoState]
  /\ outcome' = [outcome EXCEPT ![t] = "none"]
  /\ IF handler[s] = NoState
       THEN Goto(t, "notify") /\ UNCHANGED at
       ELSE Goto(t, "run") /\ at' = [at EXCEPT ![t] = handler[s]]
  /\ UNCHANGED <<promise, made, futures, chain, mutex, next, holding, inDtor>>

\* cv.notify_all(): every waiter goes back for the lock.
Notify(t) ==
  /\ pc[t] = "notify"
  /\ pc' = [u \in Threads |->
              IF u = t THEN "resolved"
              ELSE IF at[u] # at[t] THEN pc[u]
              ELSE IF pc[u] = "waiting" THEN "waitLock"
              ELSE IF pc[u] = "getting" THEN "getLock"
              ELSE pc[u]]
  /\ at' = [at EXCEPT ![t] = NoState]
  /\ UNCHANGED <<promise, result, handler, made, futures, chain, mutex, frame>>

\* (Mutant of RunHandler.)  A handler that throws takes its promise along.
RunHandlerLosesPromise(t, r, gets) ==
  LET n == at[t] IN
  /\ pc[t] = "run"
  /\ r = "broken" => ~inDtor[t]
  /\ promise' = [promise EXCEPT ![n] = "gone"]
  /\ outcome' = [outcome EXCEPT ![t] = IF r = "broken" THEN "none" ELSE r]
  /\ taken' = [taken EXCEPT ![source[n]] = @ + gets]
  /\ inDtor' = [inDtor EXCEPT ![t] = @ \/ r = "broken"]
  /\ next' = [next EXCEPT ![t] = IF r = "broken" /\ @ = n THEN NoState ELSE @]
  /\ Goto(t, IF r = "broken" THEN "resolved" ELSE "update")
  /\ UNCHANGED <<result, handler, made, futures, source, mutex, at, holding>>

\* The continuation that owns the promise of at[t] runs the user's handler on
\* a fresh future of the source state; the handler may get() the result, and
\* returns or throws a std::exception: either resolves the promise.  Anything
\* else it throws (r = "broken") unwinds the continuation, whose promise dies
\* unresolved; a then() under way does not return its future.  Inside a
\* destructor it would terminate the process instead.
RunHandler(t, r, gets) ==
  LET n == at[t] IN
  /\ pc[t] = "run"
  /\ r = "broken" => ~inDtor[t]
  /\ promise' = [promise EXCEPT ![n] = "gone"]
  /\ outcome' = [outcome EXCEPT ![t] = r]
  /\ taken' = [taken EXCEPT ![source[n]] = @ + gets]
  /\ inDtor' = [inDtor EXCEPT ![t] = @ \/ r = "broken"]
  /\ next' = [next EXCEPT ![t] = IF r = "broken" /\ @ = n THEN NoState ELSE @]
  /\ Goto(t, "update")
  /\ UNCHANGED <<result, handler, made, futures, source, mutex, at, holding>>

\* The chain of handlers has run: what began it goes on.  then() returns the
\* next future; a mutex held meanwhile is released.
Resolved(t) ==
  /\ pc[t] = "resolved"
  /\ IF holding[t] = NoState
       THEN UNCHANGED <<mutex, holding>>
       ELSE /\ mutex' = [mutex EXCEPT ![holding[t]] = NoThread]
            /\ holding' = [holding EXCEPT ![t] = NoState]
  /\ IF next[t] = NoState
       THEN UNCHANGED <<made, futures>>
       ELSE /\ made' = [made EXCEPT ![next[t]] = 1]
            /\ futures' = [futures EXCEPT ![next[t]] = 1]
  /\ next' = [next EXCEPT ![t] = NoState]
  /\ at' = [at EXCEPT ![t] = NoState]
  /\ inDtor' = [inDtor EXCEPT ![t] = FALSE]
  /\ Goto(t, "idle")
  /\ UNCHANGED <<promise, result, handler, chain, outcome>>

-----------------------------------------------------------------------------
(* wait(), get() and then() on a future *)

\* cv.wait(lk, isReady): the predicate is tested under the lock.
WaitReady(t) ==
  /\ pc[t] \in {"waitLock", "getLock"}
  /\ mutex[at[t]] = NoThread
  /\ Ready(at[t])
  /\ IF pc[t] = "getLock"
       THEN taken' = [taken EXCEPT ![at[t]] = @ + 1]
       ELSE UNCHANGED taken
  /\ at' = [at EXCEPT ![t] = NoState]
  /\ Goto(t, "idle")
  /\ UNCHANGED <<promise, result, handler, made, futures, source, mutex, frame>>

WaitBlock(t) ==
  /\ pc[t] \in {"waitLock", "getLock"}
  /\ mutex[at[t]] = NoThread
  /\ ~Ready(at[t])
  /\ Goto(t, IF pc[t] = "waitLock" THEN "waiting" ELSE "getting")
  /\ UNCHANGED <<promise, result, handler, made, futures, chain, mutex, at, frame>>

\* A condition variable may wake without a notification.
SpuriousWakeup(t) ==
  /\ pc[t] \in {"waiting", "getting"}
  /\ Goto(t, IF pc[t] = "waiting" THEN "waitLock" ELSE "getLock")
  /\ UNCHANGED <<promise, result, handler, made, futures, chain, mutex, at, frame>>

\* The result is there: the continuation runs on this thread.
ThenReady(t) ==
  /\ pc[t] = "thenLock"
  /\ mutex[at[t]] = NoThread
  /\ Ready(at[t])
  /\ at' = [at EXCEPT ![t] = next[t]]
  /\ Goto(t, "run")
  /\ UNCHANGED <<promise, result, handler, made, futures, chain, mutex, frame>>

\* (Mutant of ThenStore.)  Readiness was tested before the lock was taken.
ThenStoreUnchecked(t) ==
  LET s == at[t] IN
  /\ pc[t] = "thenLock"
  /\ mutex[s] = NoThread
  /\ handler[s] = NoState
  /\ handler' = [handler EXCEPT ![s] = next[t]]
  /\ Goto(t, "resolved")
  /\ UNCHANGED <<promise, result, made, futures, chain, mutex, at, frame>>

\* It is not: the continuation is stored.
ThenStore(t) ==
  LET s == at[t] IN
  /\ pc[t] = "thenLock"
  /\ mutex[s] = NoThread
  /\ ~Ready(s)
  /\ handler[s] = NoState
  /\ handler' = [handler EXCEPT ![s] = next[t]]
  /\ Goto(t, "resolved")
  /\ UNCHANGED <<promise, result, made, futures, chain, mutex, at, frame>>

\* A continuation of another future of s is stored there already: it is
\* destroyed, and its promise with it, inside the critical section.
ThenReplace(t) ==
  LET s == at[t] IN
  /\ pc[t] = "thenLock"
  /\ mutex[s] = NoThread
  /\ ~Ready(s)
  /\ handler[s] # NoState
  /\ handler' = [handler EXCEPT ![s] = next[t]]
  /\ promise' = [promise EXCEPT ![handler[s]] = "gone"]
  /\ mutex' = [mutex EXCEPT ![s] = t]
  /\ holding' = [holding EXCEPT ![t] = s]
  /\ at' = [at EXCEPT ![t] = handler[s]]
  /\ outcome' = [outcome EXCEPT ![t] = "broken"]
  /\ inDtor' = [inDtor EXCEPT ![t] = TRUE]
  /\ Goto(t, "update")
  /\ UNCHANGED <<result, made, futures, chain, next>>

-----------------------------------------------------------------------------

\* What a thread does on its own once it is inside a call.
Step(t) ==
  \/ Update(t) \/ Notify(t) \/ Resolved(t)
  \/ \E r \in Results, gets \in 0 .. 1 : RunHandler(t, r, gets)
  \/ WaitReady(t) \/ WaitBlock(t)
  \/ ThenReady(t) \/ ThenStore(t) \/ ThenReplace(t)

Call(t) ==
  \E s \in States :
    \/ MakePromise(t, s) \/ GetFuture(t, s) \/ DropFuture(t, s)
    \/ CallWait(t, s) \/ CallGet(t, s)
    \/ \E n \in States : CallThen(t, s, n)
    \/ \E r \in Results : Resolve(t, s, r)

Next == \E t \in Threads : Call(t) \/ Step(t) \/ SpuriousWakeup(t)

Spec == Init /\ [][Next]_vars

\* Threads inside a call keep running (a lock of SharedState::mutex is granted
\* at last), and the program resolves every promise it made or destroys it (its
\* destructor resolves it), as long as a thread is free to.  Nothing is assumed
\* of spurious wakeups.
Fairness ==
  /\ \A t \in Threads : SF_vars(Step(t))
  /\ \A s \in States :
       SF_vars(\E t \in Threads, r \in Results : Resolve(t, s, r))

FairSpec == Spec /\ Fairness

-----------------------------------------------------------------------------
(* Properties *)

\* then() racing setValue(): whichever takes the lock second sees the other, so
\* no continuation stays behind in a state that has its result, and none runs
\* before the state it continues has one.
HandlersMeetResult ==
  /\ \A s \in States : Ready(s) => handler[s] = NoState
  /\ \A t \in Threads : pc[t] = "run" => Ready(source[at[t]])

\* Every continuation is in exactly one place - stored in one state, or in the
\* hands of one thread - so its promise is resolved once and never lost.
ContinuationOwners(n) ==
  Cardinality({s \in States : handler[s] = n})
    + Cardinality({t \in Threads : pc[t] = "run" /\ at[t] = n})
    + Cardinality({t \in Threads : pc[t] = "thenLock" /\ next[t] = n})

ContinuationOwnedOnce ==
  \A n \in States :
    ContinuationOwners(n) = (IF promise[n] = "continuation" THEN 1 ELSE 0)

\* get() moves the result out of the state: it happens at most once for each
\* future the program obtained, whichever of get() and the handler of a then()
\* does it ("This can only be called once", Future.hpp:298).
ResultTakenOnce == \A s \in States : taken[s] <= made[s]

\* What becomes of a promise, for those who do not see the threads.
FateOf(s) ==
  IF promise[s] = "unborn" THEN "none"
  ELSE IF Ready(s) THEN "over"
  ELSE IF source[s] = NoState THEN "made"
  ELSE IF promise[s] = "continuation" THEN "waits"
  ELSE IF Ready(source[s]) THEN "run" ELSE "dropped"

Contract == INSTANCE FutureContract WITH
  Promises <- States, NoPromise <- NoState, NoResult <- "none", Broken <- "broken",
  value <- result, fate <- [s \in States |-> FateOf(s)]

\* The exchanges of pointers, the critical sections and the handlers that run
\* inside them amount to FutureContract: a promise is set once, however setters,
\* then() and destructors race, and a continuation that is not run was replaced
\* by another, and says so to those that wait behind it.
KeepsContract == Contract!Spec

\* A promise that exists is resolved in the end, along any chain of then().
EventuallyReady ==
  \A s \in States : promise[s] # "unborn" ~> Ready(s)

\* wait() and get() return.
WaitersReturn ==
  \A t \in Threads : pc[t] \in {"waitLock", "getLock"} ~> pc[t] = "idle"

-----------------------------------------------------------------------------

\* For TLC: threads that do the same, and states, are interchangeable.
Symmetry == Permutations(Threads \ Producers) \union Permutations(States)
==============================================================================
