------------------------- MODULE FuturePromise_proofs -------------------------
(***************************************************************************)
(* Proofs about FuturePromise for every set of threads and states, any     *)
(* number of futures per promise, and any use of them.  A continuation is  *)
(* named by the state that it resolves.  The invariant says where each one *)
(* is: it is stored in the state that it continues, or about to run on one *)
(* thread, or on its way into a then(), and nowhere else.                  *)
(***************************************************************************)
EXTENDS FuturePromise, FiniteSetTheorems, TLAPS

PromiseTypeOK ==
  /\ promise \in [States -> {"unborn", "program", "continuation", "set", "gone"}]
  /\ result \in [States -> Results \union {"none"}]
  /\ handler \in [States -> States \union {NoState}]
  /\ source \in [States -> States \union {NoState}]
  /\ pc \in [Threads -> {"idle", "update", "notify", "run", "resolved", "waitLock",
                         "getLock", "waiting", "getting", "thenLock"}]
  /\ at \in [Threads -> States \union {NoState}]
  /\ next \in [Threads -> States \union {NoState}]
  /\ outcome \in [Threads -> Results \union {"none"}]

\* What a thread works on.
WorkInv ==
  \A t \in Threads :
    /\ pc[t] \notin {"idle", "resolved"} => at[t] \in States
    /\ pc[t] = "update" => outcome[t] \in Results
    /\ pc[t] = "thenLock" => next[t] \in States

\* The places a continuation can be in.
Stored(n, s) == handler[s] = n
Runs(n, t) == pc[t] = "run" /\ at[t] = n
Comes(n, t) == pc[t] = "thenLock" /\ next[t] = n

\* A continuation is stored in the state it continues, comes to that state, or
\* runs when that state has its result.
PlaceInv ==
  /\ \A n \in States, s \in States :
       Stored(n, s) => promise[n] = "continuation" /\ source[n] = s
  /\ \A n \in States, t \in Threads :
       Runs(n, t) => /\ promise[n] = "continuation"
                     /\ source[n] \in States /\ Ready(source[n])
  /\ \A n \in States, t \in Threads :
       Comes(n, t) => promise[n] = "continuation" /\ source[n] = at[t]

\* It is in one place.
OnceInv ==
  /\ \A n \in States, s \in States, t \in Threads :
       Stored(n, s) => ~Runs(n, t) /\ ~Comes(n, t)
  /\ \A n \in States, t \in Threads, u \in Threads :
       /\ Runs(n, t) => ~Comes(n, u)
       /\ t # u => ~(Runs(n, t) /\ Runs(n, u)) /\ ~(Comes(n, t) /\ Comes(n, u))

\* And not in none.
KeptInv ==
  \A n \in States : promise[n] = "continuation" =>
    \/ \E s \in States : Stored(n, s)
    \/ \E t \in Threads : Runs(n, t) \/ Comes(n, t)

\* A state that has its result has no continuation.
MetInv == \A s \in States : Ready(s) => handler[s] = NoState

FInv == PromiseTypeOK /\ WorkInv /\ PlaceInv /\ OnceInv /\ KeptInv /\ MetInv

-----------------------------------------------------------------------------

\* Nothing is promised in the initial state.
LEMMA InitFInv == Init => FInv
  BY FutureAssumption DEF Init, FInv, PromiseTypeOK, WorkInv, PlaceInv, OnceInv, KeptInv,
     MetInv, Stored, Runs, Comes, Ready

\* Calls and steps that touch no continuation, and set no result: threads go
\* between labels at which they hold none.
Elsewhere == {"idle", "update", "notify", "resolved", "waitLock", "getLock", "waiting", "getting"}

LEMMA QuietStep ==
  ASSUME FInv, PromiseTypeOK', WorkInv',
         UNCHANGED <<result, handler, source, next>>,
         \A n \in States : promise'[n] = "continuation" <=> promise[n] = "continuation",
         \A t \in Threads :
           \/ pc'[t] = pc[t] /\ at'[t] = at[t]
           \/ pc[t] \in Elsewhere /\ pc'[t] \in Elsewhere
  PROVE  FInv'
<1>1. \A n \in States, t \in Threads : /\ Runs(n, t)' <=> Runs(n, t)
                                       /\ Comes(n, t)' <=> Comes(n, t)
                                       /\ Comes(n, t) => at'[t] = at[t]
  BY DEF Runs, Comes, Elsewhere
<1>2. \A n \in States, s \in States : Stored(n, s)' <=> Stored(n, s)
  BY DEF Stored
<1>3. PlaceInv'
  BY <1>1, <1>2 DEF FInv, PlaceInv, Ready
<1>4. OnceInv' /\ KeptInv'
  BY <1>1, <1>2 DEF FInv, OnceInv, KeptInv
<1>5. MetInv'
  BY DEF FInv, MetInv, Ready
<1> QED
  BY <1>3, <1>4, <1>5 DEF FInv

\* The calls of a program other than then().
LEMMA ProgramStep ==
  ASSUME FInv, NEW t \in Threads, NEW s \in States,
         \/ MakePromise(t, s) \/ GetFuture(t, s) \/ DropFuture(t, s)
         \/ CallWait(t, s) \/ CallGet(t, s)
         \/ \E r \in Results : Resolve(t, s, r)
  PROVE  FInv'
<1>1. PromiseTypeOK' /\ WorkInv'
  BY DEF MakePromise, GetFuture, DropFuture, CallWait, CallGet, Resolve, frame, chain,
     FInv, PromiseTypeOK, WorkInv, Goto
<1>2. /\ UNCHANGED <<result, handler, source, next>>
      /\ \A n \in States : promise'[n] = "continuation" <=> promise[n] = "continuation"
      /\ \A u \in Threads :
           \/ pc'[u] = pc[u] /\ at'[u] = at[u]
           \/ pc[u] \in Elsewhere /\ pc'[u] \in Elsewhere
  BY DEF MakePromise, GetFuture, DropFuture, CallWait, CallGet, Resolve, frame, chain,
     FInv, PromiseTypeOK, Goto, Elsewhere
<1> QED
  BY <1>1, <1>2, QuietStep

\* Waiting, notifying and returning keep the types and what threads work on.
LEMMA WaitingStep ==
  ASSUME FInv, NEW t \in Threads,
         \/ Notify(t) \/ Resolved(t) \/ WaitReady(t) \/ WaitBlock(t) \/ SpuriousWakeup(t)
  PROVE  PromiseTypeOK' /\ WorkInv'
  BY DEF Notify, Resolved, WaitReady, WaitBlock, SpuriousWakeup, frame, chain,
     FInv, PromiseTypeOK, WorkInv, Goto

\* Threads that wait, wake or notify hold no continuation.
LEMMA WaitingKeepsFInv ==
  ASSUME FInv, NEW t \in Threads,
         \/ Notify(t) \/ WaitReady(t) \/ WaitBlock(t) \/ SpuriousWakeup(t)
  PROVE  FInv'
<1>1. /\ UNCHANGED <<result, handler, source, next>>
      /\ \A n \in States : promise'[n] = "continuation" <=> promise[n] = "continuation"
      /\ \A u \in Threads :
           \/ pc'[u] = pc[u] /\ at'[u] = at[u]
           \/ pc[u] \in Elsewhere /\ pc'[u] \in Elsewhere
  BY DEF Notify, WaitReady, WaitBlock, SpuriousWakeup, frame, chain, FInv, PromiseTypeOK,
     Goto, Elsewhere
<1> QED
  BY <1>1, WaitingStep, QuietStep

\* The future a then() returns is no longer on its way.
LEMMA ResolvedStep ==
  ASSUME FInv, NEW t \in Threads, Resolved(t)
  PROVE  FInv'
<1>1. PromiseTypeOK' /\ WorkInv'
  BY WaitingStep
<1>2. \A n \in States, u \in Threads : /\ Runs(n, u)' <=> Runs(n, u)
                                       /\ Comes(n, u)' <=> Comes(n, u)
                                       /\ Comes(n, u) => at'[u] = at[u]
  BY DEF Resolved, FInv, PromiseTypeOK, Goto, Runs, Comes
<1>3. UNCHANGED <<promise, result, handler, source>>
  BY DEF Resolved, chain
<1>4. PlaceInv'
  BY <1>2, <1>3 DEF FInv, PlaceInv, Stored, Ready
<1>5. OnceInv' /\ KeptInv' /\ MetInv'
  BY <1>2, <1>3 DEF FInv, OnceInv, KeptInv, MetInv, Stored, Ready
<1> QED
  BY <1>1, <1>4, <1>5 DEF FInv

\* then() makes a promise that is nowhere yet.
LEMMA CallThenStep ==
  ASSUME FInv, NEW t \in Threads, NEW s \in States, NEW n \in States, CallThen(t, s, n)
  PROVE  FInv'
<1>1. PromiseTypeOK' /\ WorkInv'
  BY DEF CallThen, FInv, PromiseTypeOK, WorkInv, Goto
<1>2. /\ \A m \in States, x \in States : Stored(m, x)' <=> Stored(m, x)
      /\ \A m \in States, u \in Threads :
           /\ Runs(m, u)' <=> Runs(m, u)
           /\ Comes(m, u)' <=> Comes(m, u) \/ (u = t /\ m = n)
           /\ Comes(m, u) => u # t /\ at'[u] = at[u]
  BY DEF CallThen, FInv, PromiseTypeOK, Goto, Stored, Runs, Comes
<1>3. /\ \A x \in States : ~Stored(n, x)
      /\ \A u \in Threads : ~Runs(n, u) /\ ~Comes(n, u)
  BY DEF FInv, PlaceInv, CallThen
<1>4. /\ promise'[n] = "continuation" /\ source'[n] = s /\ at'[t] = s
      /\ \A m \in States \ {n} : promise'[m] = promise[m] /\ source'[m] = source[m]
      /\ UNCHANGED <<result, handler>>
  BY DEF CallThen, FInv, PromiseTypeOK
<1>5. PlaceInv'
  BY <1>2, <1>3, <1>4 DEF FInv, PlaceInv, Ready
<1>6. OnceInv'
  BY <1>2, <1>3 DEF FInv, OnceInv
<1>7. KeptInv'
  BY <1>2, <1>4 DEF FInv, KeptInv
<1>8. MetInv'
  BY <1>4 DEF FInv, MetInv, Ready
<1> QED
  BY <1>1, <1>5, <1>6, <1>7, <1>8 DEF FInv

\* A result arrives: the continuation stored in the state is moved out and
\* runs.
LEMMA UpdateStep ==
  ASSUME FInv, NEW t \in Threads, Update(t)
  PROVE  FInv'
<1> DEFINE s == at[t]
           h == handler[s]
<1>0. s \in States /\ outcome[t] \in Results /\ pc[t] = "update"
  BY DEF Update, FInv, WorkInv
<1>1. PromiseTypeOK' /\ WorkInv'
  BY <1>0, FutureAssumption DEF Update, FInv, PromiseTypeOK, WorkInv, Goto, chain
<1>2. /\ \A m \in States, x \in States : Stored(m, x)' <=> Stored(m, x) /\ x # s
      /\ \A m \in States, u \in Threads :
           /\ Runs(m, u)' <=> Runs(m, u) \/ (u = t /\ Stored(m, s))
           /\ Comes(m, u)' <=> Comes(m, u)
           /\ Comes(m, u) => at'[u] = at[u]
  BY <1>0, FutureAssumption DEF Update, FInv, PromiseTypeOK, Goto, Stored, Runs, Comes
<1>3. /\ UNCHANGED <<promise, source>>
      /\ result'[s] = outcome[t] /\ result'[s] # "none"
      /\ handler'[s] = NoState
      /\ \A x \in States \ {s} : result'[x] = result[x] /\ handler'[x] = handler[x]
  <2>1. /\ UNCHANGED <<promise, source>>
        /\ result' = [result EXCEPT ![s] = outcome[t]]
        /\ handler' = [handler EXCEPT ![s] = NoState]
    BY DEF Update, chain
  <2>2. outcome[t] # "none"
    BY <1>0 DEF Results
  <2> QED
    BY <1>0, <2>1, <2>2 DEF FInv, PromiseTypeOK
<1>4. \A m \in States, u \in Threads : Runs(m, u) => u # t
  BY <1>0 DEF Runs
<1>5. PlaceInv'
  BY <1>0, <1>2, <1>3 DEF FInv, PlaceInv, Ready
<1>6. OnceInv'
  <2>1. \A m \in States, x \in States : Stored(m, x) /\ Stored(m, s) => x = s
    BY <1>0 DEF FInv, PlaceInv
  <2> QED
    BY <1>0, <1>2, <2>1 DEF FInv, OnceInv
<1>7. KeptInv'
  BY <1>0, <1>2, <1>3 DEF FInv, KeptInv
<1>8. MetInv'
  BY <1>3 DEF FInv, MetInv, Ready
<1> QED
  BY <1>1, <1>5, <1>6, <1>7, <1>8 DEF FInv

\* A handler has run: its promise dies and is nowhere any more.
LEMMA RunHandlerStep ==
  ASSUME FInv, NEW t \in Threads, NEW r \in Results, NEW gets \in 0 .. 1,
         RunHandler(t, r, gets)
  PROVE  FInv'
<1> DEFINE n == at[t]
<1>0. n \in States /\ Runs(n, t)
  BY DEF RunHandler, FInv, WorkInv, Runs
<1>1. PromiseTypeOK' /\ WorkInv'
  BY <1>0 DEF RunHandler, FInv, PromiseTypeOK, WorkInv, Goto, Results
<1>2. /\ \A m \in States, x \in States : Stored(m, x)' <=> Stored(m, x)
      /\ \A m \in States, u \in Threads :
           /\ Runs(m, u)' <=> Runs(m, u) /\ u # t
           /\ Comes(m, u)' <=> Comes(m, u)
           /\ Comes(m, u) => at'[u] = at[u]
  BY DEF RunHandler, FInv, PromiseTypeOK, Goto, Stored, Runs, Comes
<1>3. /\ \A m \in States : Runs(m, t) => m = n
      /\ \A x \in States : ~Stored(n, x)
      /\ \A u \in Threads : ~Comes(n, u)
      /\ \A u \in Threads \ {t} : ~Runs(n, u)
  BY <1>0 DEF FInv, OnceInv, Runs
<1>4. /\ promise'[n] = "gone"
      /\ \A m \in States \ {n} : promise'[m] = promise[m]
      /\ UNCHANGED <<result, handler, source>>
  BY <1>0 DEF RunHandler, FInv, PromiseTypeOK
<1>5. PlaceInv'
  BY <1>2, <1>3, <1>4 DEF FInv, PlaceInv, Ready
<1>6. OnceInv'
  BY <1>2 DEF FInv, OnceInv
<1>7. KeptInv'
  BY <1>2, <1>3, <1>4 DEF FInv, KeptInv
<1>8. MetInv'
  BY <1>4 DEF FInv, MetInv, Ready
<1> QED
  BY <1>1, <1>5, <1>6, <1>7, <1>8 DEF FInv

\* then() finds the result: the continuation it brought runs at once.
LEMMA ThenReadyStep ==
  ASSUME FInv, NEW t \in Threads, ThenReady(t)
  PROVE  FInv'
<1> DEFINE n == next[t]
<1>0. n \in States /\ at[t] \in States /\ Comes(n, t) /\ Ready(at[t])
  BY DEF ThenReady, FInv, WorkInv, Comes
<1>1. PromiseTypeOK' /\ WorkInv'
  BY <1>0 DEF ThenReady, FInv, PromiseTypeOK, WorkInv, Goto, frame, chain
<1>2. /\ \A m \in States, x \in States : Stored(m, x)' <=> Stored(m, x)
      /\ \A m \in States, u \in Threads :
           /\ Runs(m, u)' <=> Runs(m, u) \/ (u = t /\ m = n)
           /\ Comes(m, u)' <=> Comes(m, u) /\ u # t
           /\ u # t => at'[u] = at[u]
  BY DEF ThenReady, FInv, PromiseTypeOK, Goto, Stored, Runs, Comes, frame
<1>3. UNCHANGED <<promise, result, handler, source>>
  BY DEF ThenReady, chain
<1>4. \A m \in States : Comes(m, t) => m = n
  BY DEF Comes
<1>5. PlaceInv'
  BY <1>0, <1>2, <1>3 DEF FInv, PlaceInv, Ready
<1>6. OnceInv'
  BY <1>0, <1>2 DEF FInv, OnceInv
<1>7. KeptInv'
  BY <1>2, <1>3, <1>4 DEF FInv, KeptInv
<1>8. MetInv'
  BY <1>3 DEF FInv, MetInv, Ready
<1> QED
  BY <1>1, <1>5, <1>6, <1>7, <1>8 DEF FInv

\* It does not: the continuation is stored where there is none.
LEMMA ThenStoreStep ==
  ASSUME FInv, NEW t \in Threads, ThenStore(t)
  PROVE  FInv'
<1> DEFINE n == next[t]
           s == at[t]
<1>0. n \in States /\ s \in States /\ Comes(n, t) /\ ~Ready(s)
  BY DEF ThenStore, FInv, WorkInv, Comes
<1>1. PromiseTypeOK' /\ WorkInv'
  BY <1>0 DEF ThenStore, FInv, PromiseTypeOK, WorkInv, Goto, frame, chain
<1>2. /\ \A m \in States, x \in States : Stored(m, x)' <=> Stored(m, x) \/ (x = s /\ m = n)
      /\ \A m \in States, u \in Threads :
           /\ Runs(m, u)' <=> Runs(m, u)
           /\ Comes(m, u)' <=> Comes(m, u) /\ u # t
           /\ u # t => at'[u] = at[u]
  BY <1>0, FutureAssumption
  DEF ThenStore, FInv, PromiseTypeOK, Goto, Stored, Runs, Comes, frame
<1>3. /\ UNCHANGED <<promise, result, source>>
      /\ \A x \in States \ {s} : handler'[x] = handler[x]
  BY <1>0 DEF ThenStore, chain, FInv, PromiseTypeOK
<1>4. \A m \in States : Comes(m, t) => m = n
  BY DEF Comes
<1>5. PlaceInv'
  BY <1>0, <1>2, <1>3 DEF FInv, PlaceInv, Ready
<1>6. OnceInv'
  BY <1>0, <1>2 DEF FInv, OnceInv
<1>7. KeptInv'
  BY <1>0, <1>2, <1>3, <1>4 DEF FInv, KeptInv
<1>8. MetInv'
  BY <1>0, <1>3 DEF FInv, MetInv, Ready
<1> QED
  BY <1>1, <1>5, <1>6, <1>7, <1>8 DEF FInv

\* It takes the place of another, which is destroyed with its promise.
LEMMA ThenReplaceStep ==
  ASSUME FInv, NEW t \in Threads, ThenReplace(t)
  PROVE  FInv'
<1> DEFINE n == next[t]
           s == at[t]
           h == handler[s]
<1>0. n \in States /\ s \in States /\ h \in States /\ Comes(n, t) /\ Stored(h, s) /\ ~Ready(s)
  BY DEF ThenReplace, FInv, PromiseTypeOK, WorkInv, Comes, Stored
<1>1. PromiseTypeOK' /\ WorkInv'
  BY <1>0 DEF ThenReplace, FInv, PromiseTypeOK, WorkInv, Goto, Results, chain
<1>2. /\ \A m \in States, x \in States :
           Stored(m, x)' <=> (Stored(m, x) /\ x # s) \/ (x = s /\ m = n)
      /\ \A m \in States, u \in Threads :
           /\ Runs(m, u)' <=> Runs(m, u)
           /\ Comes(m, u)' <=> Comes(m, u) /\ u # t
           /\ u # t => at'[u] = at[u]
  BY <1>0 DEF ThenReplace, FInv, PromiseTypeOK, Goto, Stored, Runs, Comes
<1>3. /\ promise'[h] = "gone"
      /\ \A m \in States \ {h} : promise'[m] = promise[m]
      /\ \A x \in States \ {s} : handler'[x] = handler[x]
      /\ UNCHANGED <<result, source>>
  BY <1>0 DEF ThenReplace, chain, FInv, PromiseTypeOK
<1>4. /\ \A m \in States : (Comes(m, t) => m = n) /\ (Stored(m, s) => m = h)
      /\ \A x \in States : Stored(h, x) => x = s
      /\ \A u \in Threads : ~Runs(h, u) /\ ~Comes(h, u)
      /\ h # n
  BY <1>0 DEF Comes, Stored, FInv, PlaceInv, OnceInv
<1>5. PlaceInv'
  BY <1>0, <1>2, <1>3, <1>4 DEF FInv, PlaceInv, Ready
<1>6. OnceInv'
  BY <1>0, <1>2 DEF FInv, OnceInv
<1>7. KeptInv'
  BY <1>0, <1>2, <1>3, <1>4 DEF FInv, KeptInv
<1>8. MetInv'
  BY <1>0, <1>3 DEF FInv, MetInv, Ready
<1> QED
  BY <1>1, <1>5, <1>6, <1>7, <1>8 DEF FInv

-----------------------------------------------------------------------------

\* Every step keeps the invariant.
LEMMA NextFInv == FInv /\ [Next]_vars => FInv'
<1> SUFFICES ASSUME FInv, [Next]_vars PROVE FInv'
  OBVIOUS
<1>1. CASE UNCHANGED vars
  BY <1>1 DEF vars, chain, frame, FInv, PromiseTypeOK, WorkInv, PlaceInv, OnceInv, KeptInv,
     MetInv, Stored, Runs, Comes, Ready
<1>2. CASE Next
  <2>1. PICK t \in Threads : Call(t) \/ Step(t) \/ SpuriousWakeup(t)
    BY <1>2 DEF Next
  <2>2. CASE Call(t)
    BY <2>2, ProgramStep, CallThenStep DEF Call
  <2>3. CASE Step(t)
    BY <2>3, UpdateStep, WaitingKeepsFInv, ResolvedStep, RunHandlerStep, ThenReadyStep,
       ThenStoreStep, ThenReplaceStep DEF Step
  <2>4. CASE SpuriousWakeup(t)
    BY <2>4, WaitingKeepsFInv
  <2> QED
    BY <2>1, <2>2, <2>3, <2>4
<1> QED
  BY <1>1, <1>2

\* The inductive invariant holds in every behaviour.
THEOREM FutureInvariance == Spec => []FInv
<1> QED
  BY InitFInv, NextFInv, PTL DEF Spec

\* SharedState's lock makes then() and setValue() see each other: no
\* continuation is left in a state that has its result, and none runs before.
THEOREM HandlersMeetResults == Spec => []HandlersMeetResult
<1>1. FInv => HandlersMeetResult
  BY DEF FInv, WorkInv, PlaceInv, MetInv, HandlersMeetResult, Runs
<1> QED
  BY <1>1, FutureInvariance, PTL

\* A set with no two different members has none or one.
LEMMA OneOrNone ==
  ASSUME NEW T, NEW P, P \subseteq T, \A x \in P, y \in P : x = y
  PROVE  /\ P = {} => Cardinality(P) = 0
         /\ P # {} => Cardinality(P) = 1
<1>1. CASE P = {}
  BY <1>1, FS_EmptySet
<1>2. CASE P # {}
  <2>1. PICK x \in P : P = {x}
    BY <1>2
  <2> QED
    BY <1>2, <2>1, FS_Singleton
<1> QED
  BY <1>1, <1>2

\* A continuation - the promise of the future a then() returned - has exactly
\* one owner until it has run or died, and none before and after: it resolves
\* its promise, and no more than once.
THEOREM OneOwnerOfContinuations == Spec => []ContinuationOwnedOnce
<1>1. ASSUME FInv, NEW n \in States
      PROVE  ContinuationOwners(n) = (IF promise[n] = "continuation" THEN 1 ELSE 0)
  <2> DEFINE S == {s \in States : handler[s] = n}
             R == {t \in Threads : pc[t] = "run" /\ at[t] = n}
             C == {t \in Threads : pc[t] = "thenLock" /\ next[t] = n}
  <2>1. /\ \A x \in S, y \in S : x = y
        /\ \A x \in R, y \in R : x = y
        /\ \A x \in C, y \in C : x = y
    BY <1>1 DEF FInv, PlaceInv, OnceInv, Stored, Runs, Comes
  <2>2. /\ S # {} => R = {} /\ C = {}
        /\ R # {} => C = {}
    BY <1>1 DEF FInv, OnceInv, Stored, Runs, Comes
  <2>3. promise[n] = "continuation" <=> S # {} \/ R # {} \/ C # {}
    BY <1>1 DEF FInv, PlaceInv, KeptInv, Stored, Runs, Comes
  <2>4. /\ S = {} => Cardinality(S) = 0
        /\ S # {} => Cardinality(S) = 1
        /\ R = {} => Cardinality(R) = 0
        /\ R # {} => Cardinality(R) = 1
        /\ C = {} => Cardinality(C) = 0
        /\ C # {} => Cardinality(C) = 1
    <3> HIDE DEF S, R, C
    <3> QED
      BY <2>1, OneOrNone
  <2>5. ContinuationOwners(n) = Cardinality(S) + Cardinality(R) + Cardinality(C)
    BY DEF ContinuationOwners
  <2> HIDE DEF S, R, C
  <2> QED
    BY <2>2, <2>3, <2>4, <2>5
<1>2. FInv => ContinuationOwnedOnce
  BY <1>1 DEF ContinuationOwnedOnce
<1> QED
  BY <1>2, FutureInvariance, PTL

-----------------------------------------------------------------------------
(* The result is taken once for each future.  Every future obtained for a    *)
(* state is still valid, or in the get() of a thread, or was handed to a     *)
(* continuation that has not run, or is spent: each place can take the       *)
(* result once, and only the last has done it.                               *)

Getters(s) == {t \in Threads : at[t] = s /\ pc[t] \in {"getLock", "getting"}}

Continuations(s) == {n \in States : source[n] = s /\ promise[n] = "continuation"}

CountsOK ==
  /\ made \in [States -> Nat]
  /\ futures \in [States -> Nat]
  /\ taken \in [States -> Nat]

Claims(s) ==
  taken[s] + futures[s] + Cardinality(Getters(s)) + Cardinality(Continuations(s))

ClaimInv ==
  \A s \in States : /\ IsFiniteSet(Getters(s)) /\ IsFiniteSet(Continuations(s))
                    /\ Claims(s) <= made[s]

\* The future that a then() is about to return is the first of its state, and
\* no other then() returns it.
ReturnInv ==
  /\ \A s \in States : promise[s] = "unborn" => made[s] = 0
  /\ \A t \in Threads : next[t] # NoState =>
       made[next[t]] = 0 /\ promise[next[t]] \in {"continuation", "gone"}
  /\ \A t \in Threads, u \in Threads : t # u /\ next[t] # NoState => next[t] # next[u]

TakenInv == FInv /\ CountsOK /\ ClaimInv /\ ReturnInv

\* Nobody has a future at first.
LEMMA InitTakenInv == Init => TakenInv
<1> SUFFICES ASSUME Init PROVE TakenInv
  OBVIOUS
<1>1. CountsOK /\ ReturnInv
  BY FutureAssumption DEF Init, CountsOK, ReturnInv
<1>2. \A s \in States : Getters(s) = {} /\ Continuations(s) = {}
  BY DEF Init, Getters, Continuations
<1>3. \A s \in States : taken[s] = 0 /\ futures[s] = 0 /\ made[s] = 0
  BY DEF Init
<1>4. IsFiniteSet({}) /\ Cardinality({}) = 0
  BY FS_EmptySet
<1>5. ClaimInv
  BY <1>2, <1>3, <1>4 DEF ClaimInv, Claims
<1> QED
  BY <1>1, <1>5, InitFInv DEF TakenInv

\* How the places of a state's futures change: a member less, or the same.
LEMMA OneLess ==
  ASSUME NEW S, IsFiniteSet(S), NEW x, x \in S
  PROVE  /\ IsFiniteSet(S \ {x}) /\ Cardinality(S) \in Nat
         /\ Cardinality(S \ {x}) \in Nat /\ Cardinality(S) = Cardinality(S \ {x}) + 1
<1>1. IsFiniteSet(S \ {x}) /\ Cardinality(S \ {x}) = Cardinality(S) - 1
  BY FS_RemoveElement
<1> QED
  BY <1>1, FS_CardinalityType

LEMMA OneMore ==
  ASSUME NEW S, IsFiniteSet(S), NEW x, x \notin S
  PROVE  /\ IsFiniteSet(S \union {x}) /\ Cardinality(S) \in Nat
         /\ Cardinality(S \union {x}) = Cardinality(S) + 1
  BY FS_AddElement, FS_CardinalityType

\* A state none of whose counts changes keeps its bound.
LEMMA SameClaims ==
  ASSUME ClaimInv, NEW s \in States,
         Getters(s)' = Getters(s), Continuations(s)' = Continuations(s),
         made'[s] = made[s], futures'[s] = futures[s], taken'[s] = taken[s]
  PROVE  /\ IsFiniteSet(Getters(s))' /\ IsFiniteSet(Continuations(s))'
         /\ (Claims(s) <= made[s])'
<1>1. IsFiniteSet(Getters(s)) /\ IsFiniteSet(Continuations(s)) /\ Claims(s) <= made[s]
  BY DEF ClaimInv
<1>2. Claims(s)' = Claims(s)
  BY DEF Claims
<1> QED
  BY <1>1, <1>2

\* Calls and steps that move no future.
LEMMA UnclaimedStep ==
  ASSUME TakenInv, NEW t \in Threads,
         \/ \E s \in States, r \in Results : MakePromise(t, s) \/ CallWait(t, s) \/ Resolve(t, s, r)
         \/ Update(t) \/ Notify(t) \/ WaitBlock(t) \/ SpuriousWakeup(t)
         \/ ThenReady(t) \/ ThenStore(t)
  PROVE  CountsOK' /\ ClaimInv' /\ ReturnInv'
<1>1. /\ UNCHANGED <<made, futures, taken, source, next>>
      /\ \A s \in States : /\ promise'[s] = "continuation" <=> promise[s] = "continuation"
                           /\ promise'[s] = "unborn" => promise[s] = "unborn"
                           /\ promise[s] \in {"continuation", "gone"} => promise'[s] = promise[s]
  BY DEF TakenInv, FInv, PromiseTypeOK, MakePromise, CallWait, Resolve, Update, Notify,
     WaitBlock, SpuriousWakeup, ThenReady, ThenStore, frame, chain
<1>2. \A s \in States, u \in Threads :
        (at'[u] = s /\ pc'[u] \in {"getLock", "getting"})
          <=> (at[u] = s /\ pc[u] \in {"getLock", "getting"})
  <2>1. CASE \E s \in States, r \in Results : MakePromise(t, s) \/ CallWait(t, s) \/ Resolve(t, s, r)
    BY <2>1 DEF TakenInv, FInv, PromiseTypeOK, MakePromise, CallWait, Resolve, Goto
  <2>2. CASE Update(t) \/ ThenReady(t) \/ ThenStore(t)
    BY <2>2 DEF TakenInv, FInv, PromiseTypeOK, Update, ThenReady, ThenStore, Goto
  <2>3. CASE Notify(t)
    BY <2>3 DEF TakenInv, FInv, PromiseTypeOK, Notify
  <2>4. CASE WaitBlock(t) \/ SpuriousWakeup(t)
    BY <2>4 DEF TakenInv, FInv, PromiseTypeOK, WaitBlock, SpuriousWakeup, Goto
  <2> QED
    BY <2>1, <2>2, <2>3, <2>4
<1>3. \A s \in States : Getters(s)' = Getters(s) /\ Continuations(s)' = Continuations(s)
  BY <1>1, <1>2 DEF Getters, Continuations
<1>4. ClaimInv'
  BY <1>1, <1>3, SameClaims DEF TakenInv, ClaimInv
<1>5. ReturnInv'
  <2>1. \A u \in Threads : next[u] # NoState => next[u] \in States
    BY DEF TakenInv, FInv, PromiseTypeOK
  <2> QED
    BY <1>1, <2>1 DEF TakenInv, ReturnInv
<1> QED
  BY <1>1, <1>4, <1>5 DEF TakenInv, CountsOK

\* Obtaining a future raises the bound and a count; dropping one lowers a
\* count.
LEMMA ObtainOrDropStep ==
  ASSUME TakenInv, NEW t \in Threads, NEW s \in States, GetFuture(t, s) \/ DropFuture(t, s)
  PROVE  CountsOK' /\ ClaimInv' /\ ReturnInv'
<1>1. UNCHANGED <<promise, source, taken, next, pc, at>>
  BY DEF GetFuture, DropFuture, frame, chain
<1>2. \A x \in States : Getters(x)' = Getters(x) /\ Continuations(x)' = Continuations(x)
  BY <1>1 DEF Getters, Continuations
<1>3. CountsOK'
  BY <1>1 DEF TakenInv, CountsOK, GetFuture, DropFuture, Usable
<1>4. /\ \A x \in States \ {s} : made'[x] = made[x] /\ futures'[x] = futures[x]
      /\ \/ made'[s] = made[s] + 1 /\ futures'[s] = futures[s] + 1 /\ promise[s] \in {"program", "set"}
         \/ made'[s] = made[s] /\ futures'[s] = futures[s] - 1
  BY DEF TakenInv, CountsOK, GetFuture, DropFuture, Usable
<1>5. ClaimInv'
  <2> SUFFICES ASSUME NEW x \in States
               PROVE  /\ IsFiniteSet(Getters(x))' /\ IsFiniteSet(Continuations(x))'
                      /\ (Claims(x) <= made[x])'
    BY DEF ClaimInv
  <2>1. CASE x # s
    BY <1>1, <1>2, <1>4, <2>1, SameClaims DEF TakenInv
  <2>2. CASE x = s
    <3>1. IsFiniteSet(Getters(s)) /\ IsFiniteSet(Continuations(s)) /\ Claims(s) <= made[s]
      BY DEF TakenInv, ClaimInv
    <3>2. Cardinality(Getters(s)) \in Nat /\ Cardinality(Continuations(s)) \in Nat
      BY <3>1, FS_CardinalityType
    <3>3. taken[s] \in Nat /\ futures[s] \in Nat /\ made[s] \in Nat
      BY DEF TakenInv, CountsOK
    <3>4. Claims(s)' <= made'[s]
      BY <1>1, <1>2, <1>4, <3>1, <3>2, <3>3 DEF Claims
    <3> QED
      BY <1>2, <2>2, <3>1, <3>4
  <2> QED
    BY <2>1, <2>2
<1>6. ReturnInv'
  BY <1>1, <1>4 DEF TakenInv, FInv, PromiseTypeOK, ReturnInv
<1> QED
  BY <1>3, <1>5, <1>6

\* get() takes the future along: it is now in the thread's hands.
LEMMA CallGetStep ==
  ASSUME TakenInv, NEW t \in Threads, NEW s \in States, CallGet(t, s)
  PROVE  CountsOK' /\ ClaimInv' /\ ReturnInv'
<1>1. /\ UNCHANGED <<promise, source, taken, next, made>>
      /\ futures'[s] = futures[s] - 1 /\ futures[s] > 0
      /\ \A x \in States \ {s} : futures'[x] = futures[x]
      /\ futures' \in [States -> Nat]
  BY DEF CallGet, Usable, TakenInv, CountsOK, frame, chain
<1>2. /\ \A x \in States : Continuations(x)' = Continuations(x)
      /\ \A x \in States \ {s} : Getters(x)' = Getters(x)
      /\ Getters(s)' = Getters(s) \union {t} /\ t \notin Getters(s)
  BY <1>1 DEF CallGet, Goto, TakenInv, FInv, PromiseTypeOK, Getters, Continuations
<1>3. CountsOK' /\ ReturnInv'
  BY <1>1 DEF TakenInv, CountsOK, ReturnInv
<1>4. ClaimInv'
  <2> SUFFICES ASSUME NEW x \in States
               PROVE  /\ IsFiniteSet(Getters(x))' /\ IsFiniteSet(Continuations(x))'
                      /\ (Claims(x) <= made[x])'
    BY DEF ClaimInv
  <2>1. CASE x # s
    BY <1>1, <1>2, <2>1, SameClaims DEF TakenInv
  <2>2. CASE x = s
    <3>1. IsFiniteSet(Getters(s)) /\ IsFiniteSet(Continuations(s)) /\ Claims(s) <= made[s]
      BY DEF TakenInv, ClaimInv
    <3>2. /\ IsFiniteSet(Getters(s)') /\ Cardinality(Getters(s)') = Cardinality(Getters(s)) + 1
          /\ Cardinality(Getters(s)) \in Nat /\ Cardinality(Continuations(s)) \in Nat
      BY <1>2, <3>1, OneMore, FS_CardinalityType
    <3>3. taken[s] \in Nat /\ futures[s] \in Nat /\ made[s] \in Nat
      BY DEF TakenInv, CountsOK
    <3>4. Claims(s)' <= made'[s]
      BY <1>1, <1>2, <3>1, <3>2, <3>3 DEF Claims
    <3> QED
      BY <1>2, <2>2, <3>1, <3>2, <3>4
  <2> QED
    BY <2>1, <2>2
<1> QED
  BY <1>3, <1>4

\* then() takes the future along too: it is the continuation's.
LEMMA CallThenClaims ==
  ASSUME TakenInv, NEW t \in Threads, NEW s \in States, NEW n \in States, CallThen(t, s, n)
  PROVE  CountsOK' /\ ClaimInv' /\ ReturnInv'
<1>1. /\ UNCHANGED <<taken, made>>
      /\ futures'[s] = futures[s] - 1 /\ futures[s] > 0
      /\ \A x \in States \ {s} : futures'[x] = futures[x]
      /\ futures' \in [States -> Nat]
      /\ promise[n] = "unborn" /\ promise'[n] = "continuation" /\ source'[n] = s
      /\ \A x \in States \ {n} : promise'[x] = promise[x] /\ source'[x] = source[x]
      /\ next'[t] = n /\ \A u \in Threads \ {t} : next'[u] = next[u]
  BY DEF CallThen, Usable, TakenInv, CountsOK, FInv, PromiseTypeOK
<1>2. \A x \in States : Getters(x)' = Getters(x)
  BY DEF CallThen, Goto, TakenInv, FInv, PromiseTypeOK, Getters
<1>3. /\ \A x \in States \ {s} : Continuations(x)' = Continuations(x)
      /\ Continuations(s)' = Continuations(s) \union {n} /\ n \notin Continuations(s)
  BY <1>1 DEF Continuations
<1>4. CountsOK'
  BY <1>1 DEF TakenInv, CountsOK
<1>5. ReturnInv'
  BY <1>1 DEF TakenInv, FInv, PromiseTypeOK, ReturnInv
<1>6. ClaimInv'
  <2> SUFFICES ASSUME NEW x \in States
               PROVE  /\ IsFiniteSet(Getters(x))' /\ IsFiniteSet(Continuations(x))'
                      /\ (Claims(x) <= made[x])'
    BY DEF ClaimInv
  <2>1. CASE x # s
    BY <1>1, <1>2, <1>3, <2>1, SameClaims DEF TakenInv
  <2>2. CASE x = s
    <3>1. IsFiniteSet(Getters(s)) /\ IsFiniteSet(Continuations(s)) /\ Claims(s) <= made[s]
      BY DEF TakenInv, ClaimInv
    <3>2. /\ IsFiniteSet(Continuations(s)')
          /\ Cardinality(Continuations(s)') = Cardinality(Continuations(s)) + 1
          /\ Cardinality(Getters(s)) \in Nat /\ Cardinality(Continuations(s)) \in Nat
      BY <1>3, <3>1, OneMore, FS_CardinalityType
    <3>3. taken[s] \in Nat /\ futures[s] \in Nat /\ made[s] \in Nat
      BY DEF TakenInv, CountsOK
    <3>4. Claims(s)' <= made'[s]
      BY <1>1, <1>2, <3>1, <3>2, <3>3 DEF Claims
    <3> QED
      BY <1>2, <2>2, <3>1, <3>2, <3>4
  <2> QED
    BY <2>1, <2>2
<1> QED
  BY <1>4, <1>5, <1>6

\* A get() returns: the future it took along is spent.
LEMMA WaitReadyClaims ==
  ASSUME TakenInv, NEW t \in Threads, WaitReady(t)
  PROVE  CountsOK' /\ ClaimInv' /\ ReturnInv'
<1>0. PICK s \in States : s = at[t]
  BY DEF WaitReady, TakenInv, FInv, WorkInv
<1>1. UNCHANGED <<promise, made, futures, source, next>>
  BY DEF WaitReady, frame
<1>2. \A x \in States : Continuations(x)' = Continuations(x)
  BY <1>1 DEF Continuations
<1>3. /\ \A x \in States \ {s} : Getters(x)' = Getters(x) /\ taken'[x] = taken[x]
      /\ \/ Getters(s)' = Getters(s) /\ taken'[s] = taken[s]
         \/ Getters(s)' = Getters(s) \ {t} /\ t \in Getters(s) /\ taken'[s] = taken[s] + 1
      /\ taken' \in [States -> Nat]
  <2>0. NoState \notin States
    BY FutureAssumption
  <2>1. /\ pc'[t] = "idle" /\ pc[t] \in {"getLock", "waitLock"}
        /\ \A u \in Threads \ {t} : pc'[u] = pc[u] /\ at'[u] = at[u]
    BY DEF WaitReady, Goto, TakenInv, FInv, PromiseTypeOK
  <2>2. /\ \A x \in States \ {s} : Getters(x)' = Getters(x)
        /\ pc[t] = "waitLock" => Getters(s)' = Getters(s)
        /\ pc[t] = "getLock" => Getters(s)' = Getters(s) \ {t} /\ t \in Getters(s)
    BY <1>0, <2>1 DEF Getters
  <2>3. /\ pc[t] = "waitLock" => taken' = taken
        /\ pc[t] = "getLock" => taken' = [taken EXCEPT ![s] = @ + 1]
    BY <1>0 DEF WaitReady
  <2> QED
    BY <2>1, <2>2, <2>3 DEF TakenInv, CountsOK
<1>4. CountsOK' /\ ReturnInv'
  BY <1>1, <1>3 DEF TakenInv, CountsOK, ReturnInv
<1>5. ClaimInv'
  <2> SUFFICES ASSUME NEW x \in States
               PROVE  /\ IsFiniteSet(Getters(x))' /\ IsFiniteSet(Continuations(x))'
                      /\ (Claims(x) <= made[x])'
    BY DEF ClaimInv
  <2>1. CASE Getters(x)' = Getters(x) /\ taken'[x] = taken[x]
    BY <1>1, <1>2, <2>1, SameClaims DEF TakenInv
  <2>2. CASE x = s /\ Getters(s)' = Getters(s) \ {t} /\ t \in Getters(s) /\ taken'[s] = taken[s] + 1
    <3>1. IsFiniteSet(Getters(s)) /\ IsFiniteSet(Continuations(s)) /\ Claims(s) <= made[s]
      BY <1>1 DEF TakenInv, ClaimInv
    <3>2. /\ IsFiniteSet(Getters(s)') /\ Cardinality(Getters(s)) = Cardinality(Getters(s)') + 1
          /\ Cardinality(Getters(s)') \in Nat /\ Cardinality(Continuations(s)) \in Nat
      BY <2>2, <3>1, OneLess, FS_CardinalityType
    <3>3. taken[s] \in Nat /\ futures[s] \in Nat /\ made[s] \in Nat
      BY <1>1 DEF TakenInv, CountsOK
    <3>4. Claims(s)' <= made'[s]
      BY <1>1, <1>2, <2>2, <3>1, <3>2, <3>3 DEF Claims
    <3> QED
      BY <1>1, <1>2, <2>2, <3>1, <3>2, <3>4
  <2> QED
    BY <1>3, <2>1, <2>2
<1> QED
  BY <1>4, <1>5

\* A handler has run, and got the result or not: its future is spent.
LEMMA RunHandlerClaims ==
  ASSUME TakenInv, NEW t \in Threads, NEW r \in Results, NEW gets \in 0 .. 1,
         RunHandler(t, r, gets)
  PROVE  CountsOK' /\ ClaimInv' /\ ReturnInv'
<1>0. PICK n \in States : n = at[t] /\ Runs(n, t)
  BY DEF RunHandler, TakenInv, FInv, WorkInv, Runs
<1>1. PICK s \in States : s = source[n]
  BY <1>0 DEF TakenInv, FInv, PlaceInv
<1>2. /\ UNCHANGED <<made, futures, source, at>>
      /\ promise[n] = "continuation" /\ promise'[n] = "gone"
      /\ \A m \in States \ {n} : promise'[m] = promise[m]
      /\ taken'[s] = taken[s] + gets
      /\ \A x \in States \ {s} : taken'[x] = taken[x]
      /\ taken' \in [States -> Nat]
      /\ \A u \in Threads : next'[u] = next[u] \/ next'[u] = NoState
  <2>1. promise[n] = "continuation"
    BY <1>0 DEF TakenInv, FInv, PlaceInv
  <2>2. taken' = [taken EXCEPT ![s] = @ + gets] /\ taken \in [States -> Nat]
    BY <1>0, <1>1 DEF RunHandler, TakenInv, CountsOK
  <2>3. \A u \in Threads : next'[u] = next[u] \/ next'[u] = NoState
    BY DEF RunHandler, TakenInv, FInv, PromiseTypeOK
  <2>4. /\ taken'[s] = taken[s] + gets /\ taken' \in [States -> Nat]
        /\ \A x \in States \ {s} : taken'[x] = taken[x]
    BY <2>2
  <2>5. /\ UNCHANGED <<made, futures, source, at>>
        /\ promise'[n] = "gone" /\ \A m \in States \ {n} : promise'[m] = promise[m]
    BY <1>0 DEF RunHandler, TakenInv, FInv, PromiseTypeOK
  <2> QED
    BY <2>1, <2>3, <2>4, <2>5
<1>3. \A x \in States : Getters(x)' = Getters(x)
  BY DEF RunHandler, Goto, TakenInv, FInv, PromiseTypeOK, Getters
<1>4. /\ \A x \in States \ {s} : Continuations(x)' = Continuations(x)
      /\ Continuations(s)' = Continuations(s) \ {n} /\ n \in Continuations(s)
  BY <1>1, <1>2 DEF Continuations
<1>5. CountsOK'
  BY <1>2 DEF TakenInv, CountsOK
<1>6. ReturnInv'
  <2>1. \A u \in Threads : next[u] # NoState => next[u] \in States
    BY DEF TakenInv, FInv, PromiseTypeOK
  <2> QED
    BY <1>2, <2>1 DEF TakenInv, ReturnInv
<1>7. ClaimInv'
  <2> SUFFICES ASSUME NEW x \in States
               PROVE  /\ IsFiniteSet(Getters(x))' /\ IsFiniteSet(Continuations(x))'
                      /\ (Claims(x) <= made[x])'
    BY DEF ClaimInv
  <2>1. CASE x # s
    BY <1>2, <1>3, <1>4, <2>1, SameClaims DEF TakenInv
  <2>2. CASE x = s
    <3>1. IsFiniteSet(Getters(s)) /\ IsFiniteSet(Continuations(s)) /\ Claims(s) <= made[s]
      BY DEF TakenInv, ClaimInv
    <3>2. /\ IsFiniteSet(Continuations(s)')
          /\ Cardinality(Continuations(s)) = Cardinality(Continuations(s)') + 1
          /\ Cardinality(Continuations(s)') \in Nat /\ Cardinality(Getters(s)) \in Nat
      BY <1>4, <3>1, OneLess, FS_CardinalityType
    <3>3. taken[s] \in Nat /\ futures[s] \in Nat /\ made[s] \in Nat
      BY DEF TakenInv, CountsOK
    <3>4. Claims(s)' <= made'[s]
      BY <1>2, <1>3, <3>1, <3>2, <3>3 DEF Claims
    <3> QED
      BY <1>3, <2>2, <3>1, <3>2, <3>4
  <2> QED
    BY <2>1, <2>2
<1> QED
  BY <1>5, <1>6, <1>7

\* then() returns the first future of its state, on which nothing has a claim.
LEMMA ResolvedClaims ==
  ASSUME TakenInv, NEW t \in Threads, Resolved(t)
  PROVE  CountsOK' /\ ClaimInv' /\ ReturnInv'
<1>1. UNCHANGED <<promise, source, taken>>
  BY DEF Resolved, chain
<1>2. \A x \in States : Getters(x)' = Getters(x) /\ Continuations(x)' = Continuations(x)
  BY <1>1, FutureAssumption
  DEF Resolved, Goto, TakenInv, FInv, PromiseTypeOK, Getters, Continuations
<1>3. next'[t] = NoState /\ \A u \in Threads \ {t} : next'[u] = next[u]
  BY DEF Resolved, TakenInv, FInv, PromiseTypeOK
<1>4. CASE next[t] = NoState
  <2>1. UNCHANGED <<made, futures>>
    BY <1>4 DEF Resolved
  <2>2. ClaimInv'
    BY <1>1, <1>2, <2>1, SameClaims DEF TakenInv, ClaimInv
  <2> QED
    BY <1>1, <1>3, <2>1, <2>2 DEF TakenInv, CountsOK, ReturnInv
<1>5. CASE next[t] # NoState
  <2>0. PICK n \in States : n = next[t]
    BY <1>5 DEF TakenInv, FInv, PromiseTypeOK
  <2>1. /\ made'[n] = 1 /\ futures'[n] = 1
        /\ \A x \in States \ {n} : made'[x] = made[x] /\ futures'[x] = futures[x]
        /\ made' \in [States -> Nat] /\ futures' \in [States -> Nat]
    BY <1>5, <2>0 DEF Resolved, TakenInv, CountsOK
  <2>2. made[n] = 0 /\ promise[n] \in {"continuation", "gone"}
    BY <1>5, <2>0 DEF TakenInv, ReturnInv
  <2>3. ClaimInv'
    <3> SUFFICES ASSUME NEW x \in States
                 PROVE  /\ IsFiniteSet(Getters(x))' /\ IsFiniteSet(Continuations(x))'
                        /\ (Claims(x) <= made[x])'
      BY DEF ClaimInv
    <3>1. CASE x # n
      BY <1>1, <1>2, <2>1, <3>1, SameClaims DEF TakenInv
    <3>2. CASE x = n
      <4>1. IsFiniteSet(Getters(n)) /\ IsFiniteSet(Continuations(n)) /\ Claims(n) <= made[n]
        BY DEF TakenInv, ClaimInv
      <4>2. Cardinality(Getters(n)) \in Nat /\ Cardinality(Continuations(n)) \in Nat
        BY <4>1, FS_CardinalityType
      <4>3. taken[n] \in Nat /\ futures[n] \in Nat
        BY DEF TakenInv, CountsOK
      <4>4. /\ taken[n] = 0 /\ Cardinality(Getters(n)) = 0 /\ Cardinality(Continuations(n)) = 0
        BY <2>2, <4>1, <4>2, <4>3 DEF Claims
      <4>5. Claims(n)' <= made'[n]
        BY <1>1, <1>2, <2>1, <4>4 DEF Claims
      <4> QED
        BY <1>2, <3>2, <4>1, <4>5
    <3> QED
      BY <3>1, <3>2
  <2>4. ReturnInv'
    <3>1. \A u \in Threads : next[u] # NoState => next[u] \in States
      BY DEF TakenInv, FInv, PromiseTypeOK
    <3> QED
      BY <1>1, <1>3, <1>5, <2>0, <2>1, <2>2, <3>1 DEF TakenInv, ReturnInv
  <2> QED
    BY <1>1, <2>1, <2>3, <2>4 DEF TakenInv, CountsOK
<1> QED
  BY <1>4, <1>5

\* A continuation that is replaced dies with its future.
LEMMA ThenReplaceClaims ==
  ASSUME TakenInv, NEW t \in Threads, ThenReplace(t)
  PROVE  CountsOK' /\ ClaimInv' /\ ReturnInv'
<1>0. PICK s \in States, h \in States : s = at[t] /\ h = handler[s] /\ Stored(h, s)
  BY DEF ThenReplace, TakenInv, FInv, PromiseTypeOK, WorkInv, Stored
<1>1. /\ UNCHANGED <<made, futures, taken, source, next>>
      /\ promise[h] = "continuation" /\ source[h] = s /\ promise'[h] = "gone"
      /\ \A m \in States \ {h} : promise'[m] = promise[m]
  BY <1>0 DEF ThenReplace, chain, TakenInv, FInv, PromiseTypeOK, PlaceInv
<1>2. \A x \in States : Getters(x)' = Getters(x)
  BY DEF ThenReplace, Goto, TakenInv, FInv, PromiseTypeOK, Getters
<1>3. /\ \A x \in States \ {s} : Continuations(x)' = Continuations(x)
      /\ Continuations(s)' = Continuations(s) \ {h} /\ h \in Continuations(s)
  BY <1>1 DEF Continuations
<1>4. CountsOK' /\ ReturnInv'
  <2>1. \A u \in Threads : next[u] # NoState => next[u] \in States
    BY DEF TakenInv, FInv, PromiseTypeOK
  <2> QED
    BY <1>1, <2>1 DEF TakenInv, CountsOK, ReturnInv
<1>5. ClaimInv'
  <2> SUFFICES ASSUME NEW x \in States
               PROVE  /\ IsFiniteSet(Getters(x))' /\ IsFiniteSet(Continuations(x))'
                      /\ (Claims(x) <= made[x])'
    BY DEF ClaimInv
  <2>1. CASE x # s
    BY <1>1, <1>2, <1>3, <2>1, SameClaims DEF TakenInv
  <2>2. CASE x = s
    <3>1. IsFiniteSet(Getters(s)) /\ IsFiniteSet(Continuations(s)) /\ Claims(s) <= made[s]
      BY DEF TakenInv, ClaimInv
    <3>2. /\ IsFiniteSet(Continuations(s)')
          /\ Cardinality(Continuations(s)) = Cardinality(Continuations(s)') + 1
          /\ Cardinality(Continuations(s)') \in Nat /\ Cardinality(Getters(s)) \in Nat
      BY <1>3, <3>1, OneLess, FS_CardinalityType
    <3>3. taken[s] \in Nat /\ futures[s] \in Nat /\ made[s] \in Nat
      BY DEF TakenInv, CountsOK
    <3>4. Claims(s)' <= made'[s]
      BY <1>1, <1>2, <3>1, <3>2, <3>3 DEF Claims
    <3> QED
      BY <1>2, <2>2, <3>1, <3>2, <3>4
  <2> QED
    BY <2>1, <2>2
<1> QED
  BY <1>4, <1>5

\* Every step keeps the claims within the futures obtained.
LEMMA NextTakenInv == TakenInv /\ [Next]_vars => TakenInv'
<1> SUFFICES ASSUME TakenInv, [Next]_vars PROVE TakenInv'
  OBVIOUS
<1>1. FInv'
  BY NextFInv DEF TakenInv
<1>2. CountsOK' /\ ClaimInv' /\ ReturnInv'
  <2>1. CASE UNCHANGED vars
    <3>1. UNCHANGED <<promise, made, futures, source, taken, pc, at, next>>
      BY <2>1 DEF vars, chain, frame
    <3>2. \A x \in States : Getters(x)' = Getters(x) /\ Continuations(x)' = Continuations(x)
      BY <3>1 DEF Getters, Continuations
    <3>3. ClaimInv'
      BY <3>1, <3>2, SameClaims DEF TakenInv, ClaimInv
    <3> QED
      BY <3>1, <3>3 DEF TakenInv, CountsOK, ReturnInv
  <2>2. CASE Next
    <3>1. PICK t \in Threads : Call(t) \/ Step(t) \/ SpuriousWakeup(t)
      BY <2>2 DEF Next
    <3>2. CASE Call(t)
      BY <3>2, UnclaimedStep, ObtainOrDropStep, CallGetStep, CallThenClaims DEF Call, Results
    <3>3. CASE Step(t)
      BY <3>3, UnclaimedStep, RunHandlerClaims, ResolvedClaims, WaitReadyClaims,
         ThenReplaceClaims DEF Step
    <3>4. CASE SpuriousWakeup(t)
      BY <3>4, UnclaimedStep
    <3> QED
      BY <3>1, <3>2, <3>3, <3>4
  <2> QED
    BY <2>1, <2>2
<1> QED
  BY <1>1, <1>2 DEF TakenInv

\* get(), and the handler of a then(), move the result out of its state: no
\* state is robbed more often than futures were obtained for it, whatever
\* threads share them.
THEOREM ResultsTakenOnce == Spec => []ResultTakenOnce
<1>1. TakenInv => ResultTakenOnce
  <2> SUFFICES ASSUME TakenInv, NEW s \in States PROVE taken[s] <= made[s]
    BY DEF ResultTakenOnce
  <2>1. IsFiniteSet(Getters(s)) /\ IsFiniteSet(Continuations(s)) /\ Claims(s) <= made[s]
    BY DEF TakenInv, ClaimInv
  <2>2. Cardinality(Getters(s)) \in Nat /\ Cardinality(Continuations(s)) \in Nat
    BY <2>1, FS_CardinalityType
  <2>3. taken[s] \in Nat /\ futures[s] \in Nat /\ made[s] \in Nat
    BY DEF TakenInv, CountsOK
  <2> QED
    BY <2>1, <2>2, <2>3 DEF Claims
<1> QED
  BY <1>1, InitTakenInv, NextTakenInv, PTL DEF Spec

-----------------------------------------------------------------------------
(* FuturePromise implements FutureContract.  A state is resolved by one       *)
(* thread, and had no result before; and while the promise of a continuation  *)
(* that was replaced is being broken, the lock of the state it waited for is  *)
(* held, so that no result can arrive there and make it look as if it had run. *)

\* The one thread that resolves a state.
ResolverInv ==
  /\ \A t \in Threads : pc[t] = "update" => result[at[t]] = "none" /\ promise[at[t]] \in {"set", "gone"}
  /\ \A t \in Threads, u \in Threads :
       pc[t] = "update" /\ pc[u] = "update" /\ at[t] = at[u] => t = u
  /\ \A s \in States : promise[s] \in {"unborn", "program", "continuation"} => ~Ready(s)

\* Where a promise comes from.
OriginInv ==
  \A s \in States : /\ promise[s] \in {"unborn", "program", "set"} => source[s] = NoState
                    /\ promise[s] = "continuation" => source[s] \in States

\* A mutex that is held across steps.
LockInv == \A t \in Threads : holding[t] # NoState => mutex[holding[t]] = t

Dropped(n) ==
  promise[n] = "gone" /\ source[n] # NoState /\ ~Ready(n) /\ ~Ready(source[n])
Breaks(t, n) ==
  /\ pc[t] = "update" /\ at[t] = n /\ outcome[t] = "broken"
  /\ holding[t] = source[n]

DroppedInv == \A n \in States : Dropped(n) => \E t \in Threads : Breaks(t, n)

LockTypes ==
  /\ mutex \in [States -> Threads \union {NoThread}]
  /\ holding \in [Threads -> States \union {NoState}]

ContractInv == TakenInv /\ LockTypes /\ ResolverInv /\ OriginInv /\ LockInv /\ DroppedInv

LEMMA InitContractInv == Init => ContractInv
<1> SUFFICES ASSUME Init PROVE ContractInv
  OBVIOUS
<1>1. ResolverInv /\ OriginInv /\ LockInv /\ DroppedInv
  BY FutureAssumption DEF Init, ResolverInv, OriginInv, LockInv, DroppedInv, Dropped, Ready
<1>2. LockTypes
  BY DEF Init, LockTypes
<1> QED
  BY <1>1, <1>2, InitTakenInv DEF ContractInv

\* Calls and steps that neither resolve a promise nor hold a mutex.
LEMMA OtherContractStep ==
  ASSUME ContractInv, NEW t \in Threads,
         \/ \E s \in States : MakePromise(t, s) \/ GetFuture(t, s) \/ DropFuture(t, s)
                              \/ CallWait(t, s) \/ CallGet(t, s)
         \/ Notify(t) \/ WaitReady(t) \/ WaitBlock(t) \/ SpuriousWakeup(t)
         \/ ThenReady(t) \/ ThenStore(t)
  PROVE  LockTypes' /\ ResolverInv' /\ OriginInv' /\ LockInv' /\ DroppedInv'
<1>1. /\ UNCHANGED <<result, source, mutex, holding, outcome>>
      /\ \A s \in States : \/ promise'[s] = promise[s]
                           \/ promise[s] = "unborn" /\ promise'[s] = "program"
      /\ \A u \in Threads : /\ pc'[u] = "update" <=> pc[u] = "update"
                            /\ pc[u] = "update" => at'[u] = at[u]
  <2>1. CASE \E s \in States : MakePromise(t, s) \/ GetFuture(t, s) \/ DropFuture(t, s)
                               \/ CallWait(t, s) \/ CallGet(t, s)
    BY <2>1 DEF MakePromise, GetFuture, DropFuture, CallWait, CallGet, frame, chain, Goto,
       ContractInv, TakenInv, FInv, PromiseTypeOK
  <2>2. CASE Notify(t) \/ WaitReady(t) \/ WaitBlock(t) \/ SpuriousWakeup(t)
    BY <2>2 DEF Notify, WaitReady, WaitBlock, SpuriousWakeup, frame, chain, Goto,
       ContractInv, TakenInv, FInv, PromiseTypeOK
  <2>3. CASE ThenReady(t) \/ ThenStore(t)
    BY <2>3 DEF ThenReady, ThenStore, frame, chain, Goto, ContractInv, TakenInv, FInv, PromiseTypeOK
  <2> QED
    BY <2>1, <2>2, <2>3
<1>2. \A u \in Threads : pc[u] = "update" => at[u] \in States
  BY DEF ContractInv, TakenInv, FInv, WorkInv
<1>3. LockTypes' /\ LockInv'
  BY <1>1 DEF ContractInv, LockTypes, LockInv
<1>4. OriginInv'
  BY <1>1 DEF ContractInv, OriginInv
<1>5. ResolverInv'
  BY <1>1, <1>2 DEF ContractInv, ResolverInv, Ready
<1>6. DroppedInv'
  BY <1>1 DEF ContractInv, DroppedInv, Dropped, Breaks, Ready
<1> QED
  BY <1>3, <1>4, <1>5, <1>6

LEMMA CallThenContract ==
  ASSUME ContractInv, NEW t \in Threads, NEW s \in States, NEW n \in States, CallThen(t, s, n)
  PROVE  LockTypes' /\ ResolverInv' /\ OriginInv' /\ LockInv' /\ DroppedInv'
<1>1. /\ UNCHANGED <<result, mutex, holding, outcome>>
      /\ promise[n] = "unborn" /\ promise'[n] = "continuation" /\ source'[n] = s
      /\ \A m \in States \ {n} : promise'[m] = promise[m] /\ source'[m] = source[m]
      /\ \A u \in Threads : /\ pc'[u] = "update" <=> pc[u] = "update"
                            /\ pc[u] = "update" => at'[u] = at[u]
  BY DEF CallThen, Goto, ContractInv, TakenInv, FInv, PromiseTypeOK
<1>2. \A u \in Threads : pc[u] = "update" => at[u] \in States
  BY DEF ContractInv, TakenInv, FInv, WorkInv
<1>3. LockTypes' /\ LockInv' /\ OriginInv'
  BY <1>1 DEF ContractInv, LockTypes, LockInv, OriginInv
<1>4. ResolverInv'
  BY <1>1, <1>2 DEF ContractInv, ResolverInv, Ready
<1>5. DroppedInv'
  <2> SUFFICES ASSUME NEW m \in States, Dropped(m)' PROVE \E u \in Threads : Breaks(u, m)'
    BY DEF DroppedInv
  <2>1. m # n /\ Dropped(m)
    BY <1>1 DEF Dropped, Ready
  <2> QED
    BY <1>1, <2>1 DEF ContractInv, DroppedInv, Breaks
<1> QED
  BY <1>3, <1>4, <1>5

LEMMA ResolveContract ==
  ASSUME ContractInv, NEW t \in Threads, NEW s \in States, NEW r \in Results, Resolve(t, s, r)
  PROVE  LockTypes' /\ ResolverInv' /\ OriginInv' /\ LockInv' /\ DroppedInv'
<1>1. /\ UNCHANGED <<result, source, mutex, holding>>
      /\ promise[s] = "program" /\ promise'[s] \in {"set", "gone"}
      /\ \A m \in States \ {s} : promise'[m] = promise[m]
      /\ pc[t] = "idle" /\ pc'[t] = "update" /\ at'[t] = s
      /\ \A u \in Threads \ {t} : pc'[u] = pc[u] /\ at'[u] = at[u] /\ outcome'[u] = outcome[u]
  BY DEF Resolve, Goto, chain, ContractInv, TakenInv, FInv, PromiseTypeOK
<1>2. /\ \A u \in Threads : pc[u] = "update" => at[u] \in States /\ at[u] # s
      /\ ~Ready(s) /\ source[s] = NoState
  BY <1>1 DEF ContractInv, TakenInv, FInv, WorkInv, ResolverInv, OriginInv
<1>3. LockTypes' /\ LockInv' /\ OriginInv'
  BY <1>1, <1>2 DEF ContractInv, LockTypes, LockInv, OriginInv
<1>4. ResolverInv'
  BY <1>1, <1>2 DEF ContractInv, ResolverInv, Ready
<1>5. DroppedInv'
  <2> SUFFICES ASSUME NEW m \in States, Dropped(m)' PROVE \E u \in Threads : Breaks(u, m)'
    BY DEF DroppedInv
  <2>1. m # s /\ Dropped(m)
    BY <1>1, <1>2 DEF Dropped, Ready
  <2>2. PICK u \in Threads : Breaks(u, m)
    BY <2>1 DEF ContractInv, DroppedInv
  <2> QED
    BY <1>1, <2>2 DEF Breaks
<1> QED
  BY <1>3, <1>4, <1>5

LEMMA UpdateContract ==
  ASSUME ContractInv, NEW t \in Threads, Update(t)
  PROVE  LockTypes' /\ ResolverInv' /\ OriginInv' /\ LockInv' /\ DroppedInv'
<1>1. PICK s \in States : s = at[t]
  BY DEF Update, ContractInv, TakenInv, FInv, WorkInv
<1>2. /\ UNCHANGED <<promise, source, mutex, holding>>
      /\ result' = [result EXCEPT ![s] = outcome[t]] /\ outcome[t] # "none"
      /\ pc[t] = "update" /\ pc'[t] # "update"
      /\ \A u \in Threads \ {t} : pc'[u] = pc[u] /\ at'[u] = at[u] /\ outcome'[u] = outcome[u]
  BY <1>1 DEF Update, Goto, chain, ContractInv, TakenInv, FInv, PromiseTypeOK, WorkInv, Results
<1>3. /\ Ready(s)' /\ \A m \in States \ {s} : result'[m] = result[m]
      /\ \A m \in States : Ready(m) => Ready(m)'
  BY <1>2 DEF ContractInv, TakenInv, FInv, PromiseTypeOK, Ready
<1>4. /\ promise[s] \in {"set", "gone"}
      /\ \A u \in Threads \ {t} : pc[u] = "update" => at[u] \in States /\ at[u] # s
  BY <1>1, <1>2 DEF ContractInv, TakenInv, FInv, WorkInv, ResolverInv
<1>5. LockTypes' /\ LockInv' /\ OriginInv'
  BY <1>2 DEF ContractInv, LockTypes, LockInv, OriginInv
<1>6. ResolverInv'
  BY <1>2, <1>3, <1>4 DEF ContractInv, ResolverInv, Ready
<1>7. DroppedInv'
  <2> SUFFICES ASSUME NEW m \in States, Dropped(m)' PROVE \E u \in Threads : Breaks(u, m)'
    BY DEF DroppedInv
  <2>1. m # s /\ Dropped(m)
    <3>1. m # s /\ ~Ready(m)
      BY <1>3 DEF Dropped
    <3>2. source[m] \in States /\ ~Ready(source[m])
      BY <1>2, <1>3 DEF Dropped, ContractInv, TakenInv, FInv, PromiseTypeOK
    <3> QED
      BY <1>2, <3>1, <3>2 DEF Dropped
  <2>2. PICK u \in Threads : Breaks(u, m)
    BY <2>1 DEF ContractInv, DroppedInv
  <2>3. u # t
    BY <1>1, <2>1, <2>2 DEF Breaks
  <2> QED
    BY <1>2, <2>2, <2>3 DEF Breaks
<1> QED
  BY <1>5, <1>6, <1>7

LEMMA RunHandlerContract ==
  ASSUME ContractInv, NEW t \in Threads, NEW r \in Results, NEW gets \in 0 .. 1,
         RunHandler(t, r, gets)
  PROVE  LockTypes' /\ ResolverInv' /\ OriginInv' /\ LockInv' /\ DroppedInv'
<1>0. PICK n \in States : n = at[t] /\ Runs(n, t)
  BY DEF RunHandler, ContractInv, TakenInv, FInv, WorkInv, Runs
<1>1. /\ UNCHANGED <<result, source, mutex, holding>>
      /\ promise' = [promise EXCEPT ![n] = "gone"]
      /\ pc[t] = "run" /\ pc'[t] = "update" /\ at' = at
      /\ \A u \in Threads \ {t} : pc'[u] = pc[u] /\ outcome'[u] = outcome[u]
  BY <1>0 DEF RunHandler, Goto, ContractInv, TakenInv, FInv, PromiseTypeOK
<1>2. /\ promise[n] = "continuation" /\ source[n] \in States /\ Ready(source[n]) /\ ~Ready(n)
      /\ \A u \in Threads : pc[u] = "update" => at[u] \in States /\ at[u] # n
  BY <1>0 DEF ContractInv, TakenInv, FInv, WorkInv, PlaceInv, ResolverInv
<1>3. promise'[n] = "gone" /\ \A m \in States \ {n} : promise'[m] = promise[m]
  BY <1>1 DEF ContractInv, TakenInv, FInv, PromiseTypeOK
<1>4. LockTypes' /\ LockInv' /\ OriginInv'
  BY <1>1, <1>3 DEF ContractInv, LockTypes, LockInv, OriginInv
<1>5. ResolverInv'
  BY <1>0, <1>1, <1>2, <1>3 DEF ContractInv, ResolverInv, Ready
<1>6. DroppedInv'
  <2> SUFFICES ASSUME NEW m \in States, Dropped(m)' PROVE \E u \in Threads : Breaks(u, m)'
    BY DEF DroppedInv
  <2>1. m # n /\ Dropped(m)
    BY <1>1, <1>2, <1>3 DEF Dropped, Ready
  <2>2. PICK u \in Threads : Breaks(u, m)
    BY <2>1 DEF ContractInv, DroppedInv
  <2> QED
    BY <1>1, <2>2 DEF Breaks
<1> QED
  BY <1>4, <1>5, <1>6

LEMMA ResolvedContract ==
  ASSUME ContractInv, NEW t \in Threads, Resolved(t)
  PROVE  LockTypes' /\ ResolverInv' /\ OriginInv' /\ LockInv' /\ DroppedInv'
<1>1. /\ UNCHANGED <<promise, result, source, outcome>>
      /\ pc[t] = "resolved" /\ pc'[t] = "idle"
      /\ \A u \in Threads \ {t} : pc'[u] = pc[u] /\ at'[u] = at[u]
  BY DEF Resolved, Goto, chain, ContractInv, TakenInv, FInv, PromiseTypeOK
<1>2. /\ LockTypes' /\ holding'[t] = NoState
      /\ \A u \in Threads \ {t} : holding'[u] = holding[u]
      /\ \A s \in States : s # holding[t] => mutex'[s] = mutex[s]
  <2>1. CASE holding[t] = NoState
    BY <2>1 DEF Resolved, ContractInv, LockTypes
  <2>2. CASE holding[t] # NoState
    <3>1. /\ mutex' = [mutex EXCEPT ![holding[t]] = NoThread]
          /\ holding' = [holding EXCEPT ![t] = NoState]
      BY <2>2 DEF Resolved
    <3> QED
      BY <3>1 DEF ContractInv, LockTypes
  <2> QED
    BY <2>1, <2>2
<1>3. LockInv'
  <2> SUFFICES ASSUME NEW u \in Threads, holding'[u] # NoState PROVE mutex'[holding'[u]] = u
    BY DEF LockInv
  <2>1. u # t /\ holding'[u] = holding[u] /\ holding[u] \in States /\ mutex[holding[u]] = u
    BY <1>2 DEF ContractInv, LockInv, LockTypes
  <2>2. holding[u] # holding[t]
    BY <2>1 DEF ContractInv, LockInv
  <2> QED
    BY <1>2, <2>1, <2>2
<1>4. OriginInv' /\ ResolverInv'
  BY <1>1 DEF ContractInv, OriginInv, ResolverInv, Ready
<1>5. DroppedInv'
  <2> SUFFICES ASSUME NEW m \in States, Dropped(m)' PROVE \E u \in Threads : Breaks(u, m)'
    BY DEF DroppedInv
  <2>1. Dropped(m)
    BY <1>1 DEF Dropped, Ready
  <2>2. PICK u \in Threads : Breaks(u, m)
    BY <2>1 DEF ContractInv, DroppedInv
  <2> QED
    BY <1>1, <1>2, <2>2 DEF Breaks
<1> QED
  BY <1>2, <1>3, <1>4, <1>5

LEMMA ThenReplaceContract ==
  ASSUME ContractInv, NEW t \in Threads, ThenReplace(t)
  PROVE  LockTypes' /\ ResolverInv' /\ OriginInv' /\ LockInv' /\ DroppedInv'
<1>0. PICK s \in States, h \in States : s = at[t] /\ h = handler[s] /\ Stored(h, s)
  BY DEF ThenReplace, ContractInv, TakenInv, FInv, PromiseTypeOK, WorkInv, Stored
<1>1. /\ UNCHANGED <<result, source>>
      /\ promise' = [promise EXCEPT ![h] = "gone"]
      /\ mutex[s] = NoThread /\ mutex' = [mutex EXCEPT ![s] = t]
      /\ holding' = [holding EXCEPT ![t] = s]
      /\ pc[t] = "thenLock" /\ pc'[t] = "update" /\ at'[t] = h /\ outcome'[t] = "broken"
      /\ \A u \in Threads \ {t} : pc'[u] = pc[u] /\ at'[u] = at[u] /\ outcome'[u] = outcome[u]
  BY <1>0 DEF ThenReplace, Goto, chain, ContractInv, TakenInv, FInv, PromiseTypeOK
<1>2. /\ promise[h] = "continuation" /\ source[h] = s /\ ~Ready(h)
      /\ \A u \in Threads : pc[u] = "update" => at[u] \in States /\ at[u] # h
  BY <1>0 DEF ContractInv, TakenInv, FInv, WorkInv, PlaceInv, ResolverInv
<1>3. promise'[h] = "gone" /\ \A m \in States \ {h} : promise'[m] = promise[m]
  BY <1>1 DEF ContractInv, TakenInv, FInv, PromiseTypeOK
<1>4. LockTypes' /\ LockInv'
  <2>1. \A u \in Threads : holding[u] # s
    BY <1>1, FutureAssumption DEF ContractInv, LockInv
  <2> QED
    BY <1>1, <2>1 DEF ContractInv, LockTypes, LockInv
<1>5. OriginInv'
  BY <1>1, <1>3 DEF ContractInv, OriginInv
<1>6. ResolverInv'
  BY <1>1, <1>2, <1>3 DEF ContractInv, ResolverInv, Ready
<1>7. DroppedInv'
  <2> SUFFICES ASSUME NEW m \in States, Dropped(m)' PROVE \E u \in Threads : Breaks(u, m)'
    BY DEF DroppedInv
  <2>1. CASE m = h
    <3>1. holding'[t] = source'[h]
      BY <1>1, <1>2 DEF ContractInv, LockTypes
    <3> QED
      BY <1>1, <2>1, <3>1 DEF Breaks
  <2>2. CASE m # h
    <3>1. Dropped(m)
      BY <1>1, <1>3, <2>2 DEF Dropped, Ready
    <3>2. PICK u \in Threads : Breaks(u, m)
      BY <3>1 DEF ContractInv, DroppedInv
    <3> QED
      BY <1>1, <3>2 DEF Breaks, ContractInv, LockTypes
  <2> QED
    BY <2>1, <2>2
<1> QED
  BY <1>4, <1>5, <1>6, <1>7

LEMMA NextContractInv == ContractInv /\ [Next]_vars => ContractInv'
<1> SUFFICES ASSUME ContractInv, [Next]_vars PROVE ContractInv'
  OBVIOUS
<1>1. TakenInv'
  BY NextTakenInv DEF ContractInv
<1>2. LockTypes' /\ ResolverInv' /\ OriginInv' /\ LockInv' /\ DroppedInv'
  <2>1. CASE UNCHANGED vars
    BY <2>1 DEF vars, chain, frame, ContractInv, LockTypes, ResolverInv, OriginInv, LockInv,
       DroppedInv, Dropped, Breaks, Ready
  <2>2. CASE Next
    <3>1. PICK t \in Threads : Call(t) \/ Step(t) \/ SpuriousWakeup(t)
      BY <2>2 DEF Next
    <3>2. CASE Call(t)
      BY <3>2, OtherContractStep, CallThenContract, ResolveContract DEF Call
    <3>3. CASE Step(t)
      BY <3>3, OtherContractStep, UpdateContract, RunHandlerContract, ResolvedContract,
         ThenReplaceContract DEF Step
    <3>4. CASE SpuriousWakeup(t)
      BY <3>4, OtherContractStep
    <3> QED
      BY <3>1, <3>2, <3>3, <3>4
  <2> QED
    BY <2>1, <2>2
<1> QED
  BY <1>1, <1>2 DEF ContractInv

-----------------------------------------------------------------------------

FateMap == [s \in States |-> FateOf(s)]
ContractStep == Contract!Next \/ UNCHANGED <<result, source, FateMap>>

\* A fate depends on whether the promise is unborn or a continuation's.
LEMMA SameFates ==
  ASSUME UNCHANGED <<result, source>>,
         \A s \in States : /\ promise'[s] = "unborn" <=> promise[s] = "unborn"
                           /\ source[s] # NoState =>
                                (promise'[s] = "continuation" <=> promise[s] = "continuation")
  PROVE  ContractStep
<1>1. \A s \in States : FateOf(s)' = FateOf(s)
  BY DEF FateOf, Ready
<1>2. FateMap' = FateMap
  BY <1>1 DEF FateMap
<1> QED
  BY <1>2 DEF ContractStep

\* One fate changes.
LEMMA OneFate ==
  ASSUME NEW n \in States, \A s \in States \ {n} : FateOf(s)' = FateOf(s)
  PROVE  FateMap' = [FateMap EXCEPT ![n] = FateOf(n)']
  BY DEF FateMap

LEMMA MakeImplements ==
  ASSUME ContractInv, NEW t \in Threads, NEW s \in States, MakePromise(t, s)
  PROVE  ContractStep
<1>1. /\ UNCHANGED <<result, source>> /\ promise[s] = "unborn" /\ promise'[s] = "program"
      /\ \A m \in States \ {s} : promise'[m] = promise[m]
      /\ source[s] = NoState /\ ~Ready(s)
  BY DEF MakePromise, chain, ContractInv, TakenInv, FInv, PromiseTypeOK, OriginInv, ResolverInv
<1>2. FateOf(s) = "none" /\ FateOf(s)' = "made"
  BY <1>1 DEF FateOf, Ready
<1>3. \A m \in States \ {s} : FateOf(m)' = FateOf(m)
  BY <1>1 DEF FateOf, Ready
<1>4. FateMap' = [FateMap EXCEPT ![s] = "made"]
  BY <1>2, <1>3, OneFate
<1>5. FateMap[s] = "none"
  BY <1>2 DEF FateMap
<1>6. Contract!Make(s)
  BY <1>1, <1>4, <1>5 DEF Contract!Make, FateMap
<1> QED
  BY <1>6 DEF ContractStep, Contract!Next

LEMMA ThenImplements ==
  ASSUME ContractInv, NEW t \in Threads, NEW s \in States, NEW n \in States, CallThen(t, s, n)
  PROVE  ContractStep
<1>1. /\ UNCHANGED result /\ source' = [source EXCEPT ![n] = s]
      /\ promise[n] = "unborn" /\ promise'[n] = "continuation" /\ source'[n] = s
      /\ \A m \in States \ {n} : promise'[m] = promise[m] /\ source'[m] = source[m]
      /\ futures[s] > 0 /\ ~Ready(n) /\ s # NoState
  BY FutureAssumption
     DEF CallThen, Usable, ContractInv, TakenInv, FInv, PromiseTypeOK, ResolverInv
<1>2. promise[s] # "unborn"
  <2>1. IsFiniteSet(Getters(s)) /\ IsFiniteSet(Continuations(s)) /\ Claims(s) <= made[s]
    BY DEF ContractInv, TakenInv, ClaimInv
  <2>2. Cardinality(Getters(s)) \in Nat /\ Cardinality(Continuations(s)) \in Nat
    BY <2>1, FS_CardinalityType
  <2>3. taken[s] \in Nat /\ futures[s] \in Nat /\ made[s] \in Nat
    BY DEF ContractInv, TakenInv, CountsOK
  <2>4. made[s] > 0
    BY <1>1, <2>1, <2>2, <2>3 DEF Claims
  <2> QED
    BY <2>4 DEF ContractInv, TakenInv, ReturnInv
<1>3. FateOf(n) = "none" /\ FateOf(n)' = "waits" /\ FateOf(s) # "none"
  BY <1>1, <1>2 DEF FateOf, Ready
<1>4. \A m \in States \ {n} : FateOf(m)' = FateOf(m)
  BY <1>1 DEF FateOf, Ready
<1>5. FateMap' = [FateMap EXCEPT ![n] = "waits"]
  BY <1>3, <1>4, OneFate
<1>6. FateMap[n] = "none" /\ FateMap[s] # "none"
  BY <1>3 DEF FateMap
<1>7. Contract!Then(s, n)
  BY <1>1, <1>5, <1>6 DEF Contract!Then, FateMap
<1> QED
  BY <1>7 DEF ContractStep, Contract!Next

LEMMA UpdateImplements ==
  ASSUME ContractInv, NEW t \in Threads, Update(t)
  PROVE  ContractStep
<1>1. PICK s \in States : s = at[t]
  BY DEF Update, ContractInv, TakenInv, FInv, WorkInv
<1>2. /\ UNCHANGED <<promise, source>> /\ mutex[s] = NoThread
      /\ result' = [result EXCEPT ![s] = outcome[t]] /\ outcome[t] \in Results /\ outcome[t] # "none"
      /\ pc[t] = "update" /\ result[s] = "none" /\ promise[s] \in {"set", "gone"}
  BY <1>1 DEF Update, chain, ContractInv, TakenInv, FInv, WorkInv, Results, ResolverInv
<1>3. /\ ~Ready(s) /\ Ready(s)' /\ \A m \in States \ {s} : Ready(m)' <=> Ready(m)
  BY <1>2 DEF ContractInv, TakenInv, FInv, PromiseTypeOK, Ready
<1>4. FateOf(s)' = "over" /\ FateOf(s) \in {"made", "run", "dropped"}
  BY <1>2, <1>3 DEF FateOf
<1>5. FateOf(s) = "dropped" => outcome[t] = "broken"
  <2> SUFFICES ASSUME FateOf(s) = "dropped" PROVE outcome[t] = "broken"
    OBVIOUS
  <2>1. Dropped(s)
    BY <1>2 DEF FateOf, Dropped, ContractInv, OriginInv
  <2>2. PICK u \in Threads : Breaks(u, s)
    BY <2>1 DEF ContractInv, DroppedInv
  <2>3. u = t
    BY <1>1, <1>2, <2>2 DEF Breaks, ContractInv, ResolverInv
  <2> QED
    BY <2>2, <2>3 DEF Breaks
<1>6. ASSUME NEW m \in States \ {s} PROVE FateOf(m)' = FateOf(m)
  <2>1. CASE source[m] # s
    <3>1. source[m] # NoState => (Ready(source[m])' <=> Ready(source[m]))
      BY <1>2, <1>3, <2>1 DEF ContractInv, TakenInv, FInv, PromiseTypeOK
    <3> QED
      BY <1>2, <1>3, <3>1 DEF FateOf
  <2>2. CASE source[m] = s
    <3>1. promise[m] \notin {"unborn", "continuation"} /\ ~Ready(m) => FALSE
      <4> SUFFICES ASSUME promise[m] \notin {"unborn", "continuation"}, ~Ready(m) PROVE FALSE
        OBVIOUS
      <4>1. Dropped(m)
        BY <1>3, <2>2, FutureAssumption
           DEF Dropped, ContractInv, OriginInv, TakenInv, FInv, PromiseTypeOK
      <4>2. PICK u \in Threads : Breaks(u, m)
        BY <4>1 DEF ContractInv, DroppedInv
      <4>3. mutex[s] = u
        BY <2>2, <4>2, FutureAssumption DEF Breaks, ContractInv, LockInv
      <4> QED
        BY <1>2, <4>3, FutureAssumption
    <3> QED
      BY <1>2, <1>3, <3>1 DEF FateOf
  <2> QED
    BY <2>1, <2>2
<1>7. FateMap' = [FateMap EXCEPT ![s] = "over"]
  BY <1>4, <1>6, OneFate
<1>8. FateMap[s] = FateOf(s)
  BY DEF FateMap
<1>9. Contract!Resolve(s, outcome[t])
  BY <1>2, <1>4, <1>5, <1>7, <1>8 DEF Contract!Resolve, FateMap
<1> QED
  BY <1>2, <1>9 DEF ContractStep, Contract!Next

LEMMA RunImplements ==
  ASSUME ContractInv, NEW t \in Threads, NEW r \in Results, NEW gets \in 0 .. 1,
         RunHandler(t, r, gets)
  PROVE  ContractStep
<1>1. PICK n \in States : n = at[t] /\ Runs(n, t)
  BY DEF RunHandler, ContractInv, TakenInv, FInv, WorkInv, Runs
<1>2. /\ UNCHANGED <<result, source>>
      /\ promise[n] = "continuation" /\ source[n] \in States /\ Ready(source[n]) /\ ~Ready(n)
      /\ promise'[n] = "gone" /\ \A m \in States \ {n} : promise'[m] = promise[m]
  BY <1>1 DEF RunHandler, ContractInv, TakenInv, FInv, PromiseTypeOK, PlaceInv, ResolverInv
<1>3. source[n] # NoState
  BY <1>2, FutureAssumption
<1>4. FateOf(n) = "waits" /\ FateOf(n)' = "run"
  BY <1>2, <1>3 DEF FateOf, Ready
<1>5. \A m \in States \ {n} : FateOf(m)' = FateOf(m)
  BY <1>2 DEF FateOf, Ready
<1>6. FateMap' = [FateMap EXCEPT ![n] = "run"] /\ FateMap[n] = "waits"
  BY <1>4, <1>5, OneFate DEF FateMap
<1>7. Contract!Run(n)
  BY <1>2, <1>6 DEF Contract!Run, FateMap, Ready
<1> QED
  BY <1>7 DEF ContractStep, Contract!Next

LEMMA ReplaceImplements ==
  ASSUME ContractInv, NEW t \in Threads, ThenReplace(t)
  PROVE  ContractStep
<1>1. PICK s \in States, h \in States, n \in States :
        s = at[t] /\ h = handler[s] /\ n = next[t] /\ Stored(h, s) /\ Comes(n, t)
  BY DEF ThenReplace, ContractInv, TakenInv, FInv, PromiseTypeOK, WorkInv, Stored, Comes
<1>2. /\ UNCHANGED <<result, source>> /\ ~Ready(s) /\ h # n
      /\ promise[h] = "continuation" /\ source[h] = s /\ ~Ready(h)
      /\ promise[n] = "continuation" /\ source[n] = s /\ ~Ready(n)
      /\ promise'[h] = "gone" /\ \A m \in States \ {h} : promise'[m] = promise[m]
  <2>1. h # n
    BY <1>1 DEF ContractInv, TakenInv, FInv, OnceInv
  <2> QED
    BY <1>1, <2>1 DEF ThenReplace, chain, ContractInv, TakenInv, FInv, PromiseTypeOK, PlaceInv,
       ResolverInv
<1>3. s # NoState
  BY FutureAssumption
<1>4. FateOf(h) = "waits" /\ FateOf(h)' = "dropped" /\ FateOf(n) = "waits"
  BY <1>2, <1>3 DEF FateOf, Ready
<1>5. \A m \in States \ {h} : FateOf(m)' = FateOf(m)
  BY <1>2 DEF FateOf, Ready
<1>6. /\ FateMap' = [FateMap EXCEPT ![h] = "dropped"]
      /\ FateMap[h] = "waits" /\ FateMap[n] = "waits"
  BY <1>4, <1>5, OneFate DEF FateMap
<1>7. Contract!Replace(h, n)
  BY <1>2, <1>6 DEF Contract!Replace, FateMap, Ready
<1> QED
  BY <1>7 DEF ContractStep, Contract!Next

\* Every step is a step of the contract, or invisible.
LEMMA NextKeepsContract == ContractInv /\ [Next]_vars => ContractStep
<1> SUFFICES ASSUME ContractInv, [Next]_vars PROVE ContractStep
  OBVIOUS
<1>1. CASE UNCHANGED vars
  BY <1>1, SameFates DEF vars, chain
<1>2. ASSUME NEW t \in Threads, NEW s \in States,
             GetFuture(t, s) \/ DropFuture(t, s) \/ CallWait(t, s) \/ CallGet(t, s)
      PROVE  ContractStep
  BY <1>2, SameFates DEF GetFuture, DropFuture, CallWait, CallGet, chain
<1>3. ASSUME NEW t \in Threads, NEW s \in States, NEW r \in Results, Resolve(t, s, r)
      PROVE  ContractStep
  <2>1. /\ UNCHANGED <<result, source>> /\ source[s] = NoState
        /\ promise[s] = "program" /\ promise'[s] \in {"set", "gone"}
        /\ \A m \in States \ {s} : promise'[m] = promise[m]
    BY <1>3 DEF Resolve, chain, ContractInv, OriginInv, TakenInv, FInv, PromiseTypeOK
  <2> QED
    BY <2>1, SameFates
<1>4. ASSUME NEW t \in Threads,
             \/ Notify(t) \/ Resolved(t) \/ WaitReady(t) \/ WaitBlock(t)
             \/ ThenReady(t) \/ ThenStore(t) \/ SpuriousWakeup(t)
      PROVE  ContractStep
  BY <1>4, SameFates DEF Notify, Resolved, WaitReady, WaitBlock, ThenReady, ThenStore,
     SpuriousWakeup, chain
<1>5. CASE Next
  BY <1>2, <1>3, <1>4, <1>5, MakeImplements, ThenImplements, UpdateImplements, RunImplements,
     ReplaceImplements DEF Next, Call, Step
<1> QED
  BY <1>1, <1>5

\* At first nothing is promised.
LEMMA InitKeepsContract == Init => Contract!Init
<1> SUFFICES ASSUME Init PROVE Contract!Init
  OBVIOUS
<1>1. \A s \in States : FateOf(s) = "none"
  BY DEF Init, FateOf
<1> QED
  BY <1>1 DEF Init, Contract!Init

\* Future.hpp, with its exchanges of pointers, its locks and the continuations
\* that run inside them, is to its callers an atomic promise: set once, its
\* continuation run once and after that, or replaced by another and broken.
THEOREM FuturesKeepContract == Spec => KeepsContract
<1>1. ContractStep => [Contract!Next]_(Contract!contractVars)
  BY DEF ContractStep, Contract!contractVars, FateMap
<1> QED
  BY <1>1, InitContractInv, NextContractInv, InitKeepsContract, NextKeepsContract, PTL
     DEF Spec, KeepsContract, Contract!Spec
=============================================================================
