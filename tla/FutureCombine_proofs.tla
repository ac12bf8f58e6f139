------------------------ MODULE FutureCombine_proofs ------------------------
(***************************************************************************)
(* whenAll() and whenAny() resolve their promise at most once, never too   *)
(* early and, unless a continuation is taken from them, always: for any    *)
(* finite number of inputs that the counter can count.  The argument is    *)
(* that the counter is a function of the number of continuations that have *)
(* decremented it, the wrapped values of whenAny() included, and that this *)
(* function is zero for one number only.                                   *)
(* The second part is about the consumers of a SharedFuture, on a future   *)
(* of any kind and on the combined one.                                    *)
(***************************************************************************)
EXTENDS FutureComposition, FiniteSetTheorems, TLAPS

\* The continuations that have decremented the counter.
Counted == ended \union firing
Count == Cardinality(Counted)

\* What the counter holds after n decrements.
CounterAfter(any, n) ==
  IF any
    THEN IF n = 0 THEN 1 ELSE IF n = 1 THEN 0 ELSE CounterMod + 1 - n
    ELSE Cardinality(Inputs) - n

\* The n-th decrement, or an earlier one, reached zero.
Triggered(any, n) == IF any THEN n > 0 ELSE n = Cardinality(Inputs)

\* A continuation goes from stored to running to counted, and counts once.
StageInv ==
  /\ running \intersect Counted = {}
  /\ ended \intersect firing = {}
  /\ running \union Counted \subseteq (hooked \intersect ready) \ dropped
  /\ dropped \subseteq hooked
  /\ combiner = "start" => hooked = {} /\ combined = "unset"
  /\ combiner = "returned" => hooked = Inputs
  /\ combined = "broken" =>
       combiner = "returned" /\ hooked \ (ended \union dropped) = {}
  /\ Inputs = {} /\ combiner # "start" => combined = "set" /\ combiner = "returned"

CountInv == combiner # "start" => counter = CounterAfter(waitsForAny, Count)

\* The decrement that reaches zero fires, no other does, and nobody else sets
\* the promise.
FireInv ==
  /\ Inputs # {} =>
       (Triggered(waitsForAny, Count) <=> firing # {} \/ combined = "set")
  /\ firing # {} => combined # "set"
  /\ \A f, g \in firing : f = g

\* A promise that breaks has lost a continuation.
BrokenInv == combined = "broken" => dropped # {}

IInv == TypeOK /\ StageInv /\ CountInv /\ FireInv /\ BrokenInv

-----------------------------------------------------------------------------

\* Sets of inputs can be counted, and their sizes fit the counter.
LEMMA CountFacts ==
  ASSUME NEW C \in SUBSET Inputs
  PROVE  /\ Cardinality(C) \in Nat /\ Cardinality(Inputs) \in Nat
         /\ Cardinality(C) <= Cardinality(Inputs)
         /\ Cardinality(Inputs) < CounterMod
         /\ Cardinality(C) = Cardinality(Inputs) => C = Inputs
         /\ Cardinality(C) = 0 <=> C = {}
<1> USE CombineAssumption
<1>1. IsFiniteSet(C)
  BY FS_Subset
<1> QED
  BY <1>1, FS_Subset, FS_CardinalityType, FS_EmptySet

\* One more decrement moves the counter one place along CounterAfter, and hits
\* zero exactly when it is the first to trigger.
LEMMA DecrementFacts ==
  ASSUME NEW any \in BOOLEAN, NEW n \in Nat, n < Cardinality(Inputs)
  PROVE  /\ Decremented(CounterAfter(any, n)) = CounterAfter(any, n + 1)
         /\ CounterAfter(any, n + 1) = 0
              <=> Triggered(any, n + 1) /\ ~Triggered(any, n)
         /\ Triggered(any, n) => Triggered(any, n + 1)
         /\ CounterAfter(any, n + 1) \in 0 .. CounterMod - 1
<1>1. Cardinality(Inputs) \in Nat /\ Cardinality(Inputs) < CounterMod
  BY CountFacts
<1>2. CASE any
  BY <1>1, <1>2, CombineAssumption DEF Decremented, CounterAfter, Triggered
<1>3. CASE ~any
  BY <1>1, <1>3, CombineAssumption DEF Decremented, CounterAfter, Triggered
<1> QED
  BY <1>2, <1>3

\* Once all inputs are counted, the promise has been triggered.
LEMMA EverythingCountedTriggers ==
  ASSUME NEW any \in BOOLEAN, Inputs # {} PROVE Triggered(any, Cardinality(Inputs))
BY CountFacts DEF Triggered

\* Nothing is hooked, counted or set in the initial state.
LEMMA InitIInv == Init => IInv
<1> SUFFICES ASSUME Init PROVE IInv
  OBVIOUS
<1>1. Count = 0
  BY FS_EmptySet DEF Init, Count, Counted
<1>2. TypeOK /\ StageInv /\ CountInv /\ BrokenInv
  BY CombineAssumption
     DEF Init, TypeOK, StageInv, CountInv, BrokenInv, Counted
<1>3. Inputs # {} => ~Triggered(waitsForAny, 0)
  BY CountFacts DEF Triggered
<1>4. FireInv
  BY <1>1, <1>3 DEF Init, FireInv
<1> QED
  BY <1>2, <1>4 DEF IInv

\* combine() sets up the counter; with no inputs it resolves the promise.
LEMMA BeginStep == ASSUME IInv, Begin PROVE IInv'
<1> USE DEF IInv, Begin, progress
<1>1. Counted = {} /\ Count = 0 /\ firing = {} /\ running = {}
  BY FS_EmptySet DEF StageInv, Count, Counted
<1>2. Counted' = Counted /\ Count' = Count
  BY DEF Counted, Count
<1>3. Cardinality(Inputs) \in Nat /\ Cardinality(Inputs) < CounterMod
      /\ (Inputs # {} => Cardinality(Inputs) # 0)
  BY CountFacts
<1>4. TypeOK'
  BY <1>3, CombineAssumption DEF TypeOK
<1>5. StageInv' /\ BrokenInv'
  BY <1>1, <1>2, <1>3 DEF TypeOK, StageInv, BrokenInv, Counted
<1>6. CountInv'
  <2>1. counter' = CounterAfter(waitsForAny, 0)
    BY <1>3 DEF CounterAfter
  <2> QED
    BY <1>1, <1>2, <2>1 DEF CountInv
<1>7. FireInv'
  BY <1>1, <1>2, <1>3 DEF StageInv, FireInv, Triggered
<1> QED
  BY <1>4, <1>5, <1>6, <1>7

\* then() stores a continuation or starts it; none is counted yet.
LEMMA HookStep == ASSUME IInv, NEW f \in Inputs, Hook(f) PROVE IInv'
<1> USE DEF IInv, Hook, call
<1>1. Counted' = Counted /\ Count' = Count
  BY DEF Counted, Count
<1>2. f \notin Counted /\ f \notin dropped
  BY DEF StageInv, TypeOK
<1>3. TypeOK' /\ BrokenInv'
  BY DEF TypeOK, BrokenInv
<1>4. StageInv' /\ CountInv' /\ FireInv'
  BY <1>1, <1>2 DEF TypeOK, StageInv, CountInv, FireInv, Counted
<1> QED
  BY <1>3, <1>4

\* combine() returns when every input is hooked; the promise cannot break then
\* unless a continuation was taken away, for the last decrement has fired.
LEMMA ReturnStep == ASSUME IInv, Return PROVE IInv'
<1> USE DEF IInv, Return, progress
<1>1. Counted' = Counted /\ Count' = Count
  BY DEF Counted, Count
<1>2. TypeOK'
  BY DEF TypeOK
<1>3. CountInv'
  BY <1>1 DEF CountInv
<1>4. CASE hooked \ (ended \union dropped) = {} /\ combined = "unset"
  <2>1. firing = {}
    BY <1>4 DEF StageInv, Counted
  <2>2. Inputs # {} /\ ~Triggered(waitsForAny, Count)
    BY <1>4, <2>1 DEF StageInv, FireInv
  <2>3. dropped # {}
    BY <1>4, <2>1, <2>2, EverythingCountedTriggers
       DEF TypeOK, StageInv, Counted, Count
  <2> QED
    BY <1>1, <1>2, <1>3, <1>4, <2>1, <2>2, <2>3
       DEF StageInv, FireInv, BrokenInv, Counted
<1>5. CASE ~(hooked \ (ended \union dropped) = {} /\ combined = "unset")
  BY <1>1, <1>2, <1>3, <1>5 DEF StageInv, FireInv, BrokenInv, Counted
<1> QED
  BY <1>4, <1>5

\* A result arrives; a stored continuation starts.
LEMMA ResolveInputStep == ASSUME IInv, NEW f \in Inputs, ResolveInput(f) PROVE IInv'
<1> USE DEF IInv, ResolveInput, call
<1>1. Counted' = Counted /\ Count' = Count
  BY DEF Counted, Count
<1>2. f \notin Counted
  BY DEF StageInv
<1>3. TypeOK' /\ BrokenInv' /\ CountInv' /\ FireInv'
  BY <1>1 DEF TypeOK, BrokenInv, CountInv, FireInv
<1>4. StageInv'
  BY <1>1, <1>2 DEF TypeOK, StageInv
<1> QED
  BY <1>3, <1>4

\* A continuation is destroyed, and the promise may break for it.
LEMMA DropContinuationStep ==
  ASSUME IInv, NEW f \in Inputs, DropContinuation(f)
  PROVE  IInv'
<1> USE DEF IInv, DropContinuation, call
<1>1. Counted' = Counted /\ Count' = Count
  BY DEF Counted, Count
<1>2. f \notin Counted /\ f \notin running
  BY DEF StageInv
<1>3. TypeOK' /\ BrokenInv' /\ CountInv'
  BY <1>1 DEF TypeOK, BrokenInv, CountInv, AfterOwners
<1>4. StageInv' /\ FireInv'
  BY <1>1, <1>2 DEF TypeOK, StageInv, FireInv, AfterOwners, Counted
<1> QED
  BY <1>3, <1>4

\* One continuation decrements: Count grows by one, and this one fires exactly
\* if it is the first to trigger.
LEMMA DecrementStep == ASSUME IInv, NEW f \in Inputs, Decrement(f) PROVE IInv'
<1> USE DEF IInv, Decrement, call
<1>1. f \notin Counted /\ f \in hooked /\ f \in ready /\ f \notin dropped
      /\ combiner # "start"
  BY DEF StageInv
<1>2. Counted \in SUBSET Inputs /\ Counted' = Counted \union {f}
  BY DEF TypeOK, Counted
<1>3. Count \in Nat /\ Count' = Count + 1 /\ Count < Cardinality(Inputs)
  <2>1. IsFiniteSet(Counted)
    BY <1>2, CombineAssumption, FS_Subset
  <2>2. Count' = Count + 1
    BY <1>1, <1>2, <2>1, FS_AddElement DEF Count
  <2>3. Counted # Inputs
    BY <1>1
  <2> QED
    BY <1>2, <2>2, <2>3, CountFacts DEF Count
<1>4. /\ counter' = CounterAfter(waitsForAny, Count')
      /\ counter' = 0 <=>
           Triggered(waitsForAny, Count') /\ ~Triggered(waitsForAny, Count)
      /\ Triggered(waitsForAny, Count) => Triggered(waitsForAny, Count')
      /\ counter' \in 0 .. CounterMod - 1
  BY <1>1, <1>3, DecrementFacts DEF CountInv, TypeOK
<1>5. TypeOK'
  BY <1>4 DEF TypeOK, AfterOwners
<1>6. CountInv'
  BY <1>4 DEF CountInv
<1>7. CASE counter' = 0
  <2>1. combined = "unset" /\ firing = {}
    BY <1>1, <1>4, <1>7 DEF StageInv, FireInv, TypeOK, Counted
  <2>2. StageInv'
    BY <1>1, <1>2, <1>7, <2>1 DEF TypeOK, StageInv, Counted
  <2>3. FireInv'
    BY <1>4, <1>7, <2>1 DEF FireInv
  <2> QED
    BY <1>5, <1>6, <1>7, <2>2, <2>3 DEF BrokenInv
<1>8. CASE counter' # 0
  <2>1. StageInv'
    BY <1>1, <1>2, <1>8 DEF TypeOK, StageInv, Counted, AfterOwners
  <2>2. FireInv'
    BY <1>4, <1>8 DEF FireInv, AfterOwners
  <2>3. ASSUME combined' = "broken", combined # "broken" PROVE dropped # {}
    <3>1. firing = {} /\ combined = "unset" /\ hooked \ (ended' \union dropped) = {}
          /\ hooked = Inputs
      BY <1>8, <2>3 DEF AfterOwners, StageInv, Counted
    <3>2. ~Triggered(waitsForAny, Count')
      BY <1>1, <1>4, <1>8, <3>1 DEF FireInv
    <3>3. SUFFICES ASSUME dropped = {} PROVE FALSE
      OBVIOUS
    <3>4. Counted' = Inputs
      BY <1>2, <1>8, <3>1, <3>3 DEF Counted
    <3> QED
      BY <1>1, <3>2, <3>4, EverythingCountedTriggers DEF TypeOK, Count
  <2>4. BrokenInv'
    BY <1>8, <2>3 DEF BrokenInv
  <2> QED
    BY <1>5, <1>6, <2>1, <2>2, <2>4
<1> QED
  BY <1>7, <1>8

\* The continuation that saw zero resolves the promise.
LEMMA FireStep == ASSUME IInv, NEW f \in Inputs, Fire(f) PROVE IInv'
<1> USE DEF IInv, Fire, call
<1>1. Counted' = Counted /\ Count' = Count
  BY DEF Counted, Count
<1>2. firing' = {} /\ Inputs # {} /\ Triggered(waitsForAny, Count)
  BY DEF FireInv
<1>3. TypeOK' /\ BrokenInv' /\ CountInv' /\ FireInv'
  BY <1>1, <1>2 DEF TypeOK, BrokenInv, CountInv, FireInv
<1>4. StageInv'
  BY <1>1, <1>2 DEF TypeOK, StageInv, Counted
<1> QED
  BY <1>3, <1>4

\* IInv holds in every reachable state.
THEOREM Invariance == Spec => []IInv
<1>1. IInv /\ [Next]_vars => IInv'
  <2> SUFFICES ASSUME IInv, [Next]_vars PROVE IInv'
    OBVIOUS
  <2>1. CASE UNCHANGED vars
    BY <2>1 DEF IInv, vars, progress, call, TypeOK, StageInv, CountInv, FireInv,
                BrokenInv, Count, Counted
  <2>2. CASE Next
    BY <2>2, BeginStep, ReturnStep, HookStep, ResolveInputStep,
       DropContinuationStep, DecrementStep, FireStep DEF Next, Continuation
  <2> QED
    BY <2>1, <2>2
<1> QED
  BY <1>1, InitIInv, PTL DEF Spec

\* However many continuations run at the same time, one of them at most
\* resolves the promise, and finds it unresolved.
THEOREM CombinedSetOnce == Spec => []FiresOnce
<1>1. IInv => FiresOnce
  BY DEF IInv, TypeOK, StageInv, FireInv, FiresOnce, Counted
<1> QED
  BY <1>1, Invariance, PTL

\* whenAll() waits for every input, whenAny() for one.
THEOREM CombinedNotTooEarly == Spec => []ResolvedNotTooEarly
<1>1. ASSUME IInv, combined = "set", Inputs # {}
      PROVE  IF waitsForAny THEN ready # {} ELSE ready = Inputs
  <2>1. /\ Triggered(waitsForAny, Count)
        /\ Counted \subseteq ready /\ Counted \in SUBSET Inputs
    BY <1>1 DEF IInv, TypeOK, StageInv, FireInv, Counted
  <2>2. waitsForAny => Counted # {}
    BY <2>1, CountFacts DEF Triggered, Count
  <2>3. ~waitsForAny => Counted = Inputs
    BY <2>1, CountFacts DEF Triggered, Count
  <2> QED
    BY <1>1, <2>1, <2>2, <2>3 DEF IInv, TypeOK
<1>2. IInv => ResolvedNotTooEarly
  BY <1>1 DEF ResolvedNotTooEarly
<1> QED
  BY <1>2, Invariance, PTL

\* Only a continuation that is taken away breaks the combined promise.
THEOREM CombinedNeverBroken == Spec => []NeverBroken
<1>1. IInv => NeverBroken
  BY DEF IInv, BrokenInv, NeverBroken
<1> QED
  BY <1>1, Invariance, PTL

-----------------------------------------------------------------------------
(* The consumers of a SharedFuture, alone and on the combined future. *)

\* The continuation stores the result before it takes the queue, and no handle
\* is queued behind it.
QueueInv ==
  /\ storedValue \in {"none", "value", "exception"}
  /\ continuation = "waiting" => storedValue = "none" /\ toCall = {}
  /\ continuation # "waiting" => storedValue # "none" /\ coroutineHandles = {}

\* Where a coroutine is tells how often it can have been resumed.
ConsumerInv ==
  /\ pc \in [Consumers -> {"new", "notReady", "suspended", "resumed", "finished"}]
  /\ resumptions \in [Consumers -> 0 .. 1]
  /\ saw \in [Consumers -> {"none", "value", "exception"}]
  /\ \A c \in Consumers :
       /\ pc[c] \in {"new", "notReady", "suspended"} => resumptions[c] = 0
       /\ c \in coroutineHandles \union toCall => pc[c] = "suspended"
       /\ pc[c] = "resumed" => storedValue # "none"
       /\ pc[c] = "finished" => saw[c] = storedValue /\ saw[c] # "none"

SharedInv == QueueInv /\ ConsumerInv

\* Nobody has asked yet.
LEMMA InitSharedInv == Shared!Init => SharedInv
BY DEF Shared!Init, SharedInv, QueueInv, ConsumerInv

\* The result is stored and the queue taken in one critical section.
LEMMA PublishStep ==
  ASSUME SharedInv, NEW r \in {"value", "exception"}, Shared!Publish(r)
  PROVE  SharedInv'
BY DEF Shared!Publish, SharedInv, QueueInv, ConsumerInv

\* A handle that is resumed has left the queue.
LEMMA ContinueStep ==
  ASSUME SharedInv, Shared!Continue
  PROVE  SharedInv'
<1>1. CASE Shared!EndOfCalls
  BY <1>1 DEF Shared!EndOfCalls, SharedInv, QueueInv, ConsumerInv
<1>2. ASSUME NEW c \in Consumers, Shared!ResumeNext(c) PROVE SharedInv'
  BY <1>2 DEF Shared!ResumeNext, Shared!Resume, Shared!Goto, SharedInv, QueueInv, ConsumerInv
<1> QED
  BY <1>1, <1>2 DEF Shared!Continue

\* await_ready() and await_suspend() each test the result; a handle is queued
\* under the mutex only while there is none.
LEMMA ConsumerStep ==
  ASSUME SharedInv, NEW c \in Consumers, Shared!AwaitReady(c) \/ Shared!Consume(c)
  PROVE  SharedInv'
<1>1. CASE Shared!AwaitReady(c)
  BY <1>1 DEF Shared!AwaitReady, Shared!Goto, SharedInv, QueueInv, ConsumerInv
<1>2. CASE Shared!AwaitSuspend(c)
  BY <1>2 DEF Shared!AwaitSuspend, Shared!Resume, Shared!Goto, SharedInv, QueueInv, ConsumerInv
<1>3. CASE Shared!AwaitResume(c)
  BY <1>3 DEF Shared!AwaitResume, Shared!Goto, SharedInv, QueueInv, ConsumerInv
<1> QED
  BY <1>1, <1>2, <1>3 DEF Shared!Consume

\* A SharedFuture on any future: the consumers agree.
THEOREM SharedConsumersAgree == Shared!Spec => []ConsumersAgree
<1>1. SharedInv /\ [Shared!Next]_(Shared!vars) => SharedInv'
  <2> SUFFICES ASSUME SharedInv, [Shared!Next]_(Shared!vars) PROVE SharedInv'
    OBVIOUS
  <2>1. CASE UNCHANGED Shared!vars
    BY <2>1 DEF Shared!vars, SharedInv, QueueInv, ConsumerInv
  <2>2. CASE Shared!Next
    BY <2>2, PublishStep, ContinueStep, ConsumerStep DEF Shared!Next
  <2> QED
    BY <2>1, <2>2
<1>2. SharedInv => ConsumersAgree
  BY DEF SharedInv, QueueInv, ConsumerInv, ConsumersAgree, Shared!ConsumersAgree
<1> QED
  BY <1>1, <1>2, InitSharedInv, PTL DEF Shared!Spec

\* Put on the future of whenAll() or whenAny(), a SharedFuture is one still, and
\* combine() is what it is alone: what is proved of each holds of both together.
THEOREM CompositionRefinesParts == ComposedSpec => Spec /\ Shared!Spec
<1>1. ComposedInit => Init /\ Shared!Init
  BY DEF ComposedInit
<1>2. [ComposedNext]_allVars => [Next]_vars /\ [Shared!Next]_(Shared!vars)
  <2> SUFFICES ASSUME [ComposedNext]_allVars
               PROVE  [Next]_vars /\ [Shared!Next]_(Shared!vars)
    OBVIOUS
  <2>1. CASE UNCHANGED allVars
    BY <2>1 DEF allVars, sharedVars, Shared!vars
  <2>2. CASE Next /\ UNCHANGED sharedVars
    BY <2>2 DEF sharedVars, Shared!vars
  <2>3. CASE SharedNext /\ UNCHANGED vars
    <3>1. CombinedResult \in {"value", "exception"}
      BY DEF CombinedResult
    <3> QED
      BY <2>3, <3>1 DEF SharedNext, Publish, Await, Shared!Next
  <2> QED
    BY <2>1, <2>2, <2>3 DEF ComposedNext
<1> QED
  BY <1>1, <1>2, PTL DEF ComposedSpec, Spec, Shared!Spec

\* Every coroutine that awaits the combined future is resumed at most once and
\* reads the same result as the others.
THEOREM ComposedConsumersAgree == ComposedSpec => []ConsumersAgree
  BY CompositionRefinesParts, SharedConsumersAgree, PTL
=============================================================================
