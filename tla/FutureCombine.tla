---------------------------- MODULE FutureCombine ----------------------------
(***************************************************************************)
(* djinni::combine(), and whenAll() and whenAny() made of it               *)
(* (support-lib/cpp/Future.hpp).                                           *)
(*                                                                         *)
(* One thread visits the input futures and calls then() on each; the       *)
(* inputs are resolved by other threads meanwhile, before or after their   *)
(* turn comes.  Every continuation decrements a shared counter, and the    *)
(* one that reaches zero resolves the combined promise.  The promise lives *)
(* in a Context shared by the continuations; when the last owner lets go,  *)
(* an unresolved promise is broken.                                        *)
(***************************************************************************)
EXTENDS Integers, FiniteSets

CONSTANTS
  Inputs,     \* the futures given to combine()
  CounterMod  \* 2^w, for the width w of std::size_t

ASSUME CombineAssumption ==
  /\ IsFiniteSet(Inputs)
  /\ CounterMod \in Nat
  /\ Cardinality(Inputs) < CounterMod
  /\ 1 < CounterMod

VARIABLES
  ready,     \* the inputs that have their result
  hooked,    \* the inputs combine() has called then() on
  running,   \* continuations called, but yet to decrement
  firing,    \* continuations that saw zero and are about to call setValue()
  ended,     \* continuations that have returned and are gone
  dropped,   \* continuations destroyed without a call
  inline,    \* the continuation that runs inside combine() itself, if any
  counter,   \* Context::counter
  combined,  \* Context::promise: "unset", "set", "broken"
  combiner,  \* the caller of combine(): "start", "loop", "returned"
  waitsForAny \* TRUE: whenAny(), which counts from 1; FALSE: whenAll()

progress == <<ready, hooked, running, firing, ended, dropped, inline>>
call == <<combiner, waitsForAny>>
vars == <<progress, counter, combined, call>>

Init ==
  /\ ready = {} /\ hooked = {} /\ running = {} /\ firing = {}
  /\ ended = {} /\ dropped = {} /\ inline = {}
  /\ counter = 0
  /\ combined = "unset"
  /\ combiner = "start"
  /\ waitsForAny \in BOOLEAN

\* std::atomic<size_t>: unsigned, so decrementing zero wraps.
Decremented(n) == IF n = 0 THEN CounterMod - 1 ELSE n - 1

\* ~Context: an unresolved promise breaks with its last owner.
AfterOwners(owners) ==
  IF owners = {} /\ combiner = "returned" /\ combined = "unset"
    THEN "broken" ELSE combined

-----------------------------------------------------------------------------
(* combine() *)

\* (Mutant of Begin.)  The loop counts itself as an owner and never pays back.
BeginCountsLoop ==
  /\ combiner = "start"
  /\ counter' = (IF waitsForAny THEN 1 ELSE Cardinality(Inputs)) + 1
  /\ combined' = IF Inputs = {} THEN "set" ELSE combined
  /\ combiner' = IF Inputs = {} THEN "returned" ELSE "loop"
  /\ UNCHANGED <<progress, waitsForAny>>

Begin ==
  /\ combiner = "start"
  /\ counter' = IF waitsForAny THEN 1 ELSE Cardinality(Inputs)
  /\ combined' = IF Inputs = {} THEN "set" ELSE combined
  /\ combiner' = IF Inputs = {} THEN "returned" ELSE "loop"
  /\ UNCHANGED <<progress, waitsForAny>>

\* (Mutants of Hook.)  Run the continuation without looking at the result.
HookRunsUnready(f) ==
  /\ combiner = "loop"
  /\ inline = {}
  /\ f \notin hooked
  /\ hooked' = hooked \union {f}
  /\ running' = running \union {f}
  /\ inline' = {f}
  /\ UNCHANGED <<ready, firing, ended, dropped, counter, combined, call>>

\* Always store it.
HookStoresAlways(f) ==
  /\ combiner = "loop"
  /\ inline = {}
  /\ f \notin hooked
  /\ hooked' = hooked \union {f}
  /\ UNCHANGED <<ready, running, inline, firing, ended, dropped, counter,
                 combined, call>>

\* f.then(): store the continuation, or run it at once on a ready input.
Hook(f) ==
  /\ combiner = "loop"
  /\ inline = {}
  /\ f \notin hooked
  /\ hooked' = hooked \union {f}
  /\ IF f \in ready
       THEN running' = running \union {f} /\ inline' = {f}
       ELSE UNCHANGED <<running, inline>>
  /\ UNCHANGED <<ready, firing, ended, dropped, counter, combined, call>>

Return ==
  /\ combiner = "loop"
  /\ inline = {}
  /\ hooked = Inputs
  /\ combiner' = "returned"
  /\ combined' = IF hooked \ (ended \union dropped) = {} /\ combined = "unset"
                   THEN "broken" ELSE combined
  /\ UNCHANGED <<progress, counter, waitsForAny>>

-----------------------------------------------------------------------------
(* The inputs and their continuations *)

\* The promise of f is resolved; a stored continuation runs on that thread.
ResolveInput(f) ==
  /\ f \notin ready
  /\ ready' = ready \union {f}
  /\ running' = IF f \in hooked \ dropped THEN running \union {f} ELSE running
  /\ UNCHANGED <<hooked, firing, ended, dropped, inline, counter,
                 combined, call>>

\* Another future of the same promise takes the place of the continuation.
DropContinuation(f) ==
  /\ f \in hooked \ (ready \union dropped)
  /\ dropped' = dropped \union {f}
  /\ combined' = AfterOwners(hooked \ (ended \union dropped'))
  /\ UNCHANGED <<ready, hooked, running, firing, ended, inline, counter, call>>

\* (Mutants of Decrement.)  Resolve on any count below the first.
DecrementFiresEarly(f) ==
  /\ f \in running
  /\ running' = running \ {f}
  /\ counter' = Decremented(counter)
  /\ firing' = firing \union {f}
  /\ UNCHANGED <<ready, hooked, ended, dropped, inline, combined, call>>

\* Saturate at zero instead of wrapping.
DecrementSaturates(f) ==
  /\ f \in running
  /\ running' = running \ {f}
  /\ counter' = IF counter = 0 THEN 0 ELSE counter - 1
  /\ IF counter' = 0
       THEN firing' = firing \union {f} /\ UNCHANGED <<ended, inline, combined>>
       ELSE /\ ended' = ended \union {f}
            /\ inline' = inline \ {f}
            /\ combined' = AfterOwners(hooked \ (ended' \union dropped))
            /\ UNCHANGED firing
  /\ UNCHANGED <<ready, hooked, dropped, call>>

\* --(context->counter) == 0
Decrement(f) ==
  /\ f \in running
  /\ running' = running \ {f}
  /\ counter' = Decremented(counter)
  /\ IF counter' = 0
       THEN firing' = firing \union {f} /\ UNCHANGED <<ended, inline, combined>>
       ELSE /\ ended' = ended \union {f}
            /\ inline' = inline \ {f}
            /\ combined' = AfterOwners(hooked \ (ended' \union dropped))
            /\ UNCHANGED firing
  /\ UNCHANGED <<ready, hooked, dropped, call>>

\* context->promise.setValue()
Fire(f) ==
  /\ f \in firing
  /\ firing' = firing \ {f}
  /\ ended' = ended \union {f}
  /\ inline' = inline \ {f}
  /\ combined' = "set"
  /\ UNCHANGED <<ready, hooked, running, dropped, counter, call>>

-----------------------------------------------------------------------------

Continuation(f) == Decrement(f) \/ Fire(f)

Next ==
  \/ Begin \/ Return
  \/ \E f \in Inputs : Hook(f) \/ ResolveInput(f) \/ DropContinuation(f)
                         \/ Continuation(f)

Spec == Init /\ [][Next]_vars

-----------------------------------------------------------------------------
(* Properties *)

TypeOK ==
  /\ ready \subseteq Inputs /\ hooked \subseteq Inputs
  /\ running \subseteq Inputs /\ firing \subseteq Inputs
  /\ ended \subseteq Inputs /\ dropped \subseteq Inputs
  /\ inline \subseteq Inputs
  /\ counter \in 0 .. CounterMod - 1
  /\ combined \in {"unset", "set", "broken"}
  /\ combiner \in {"start", "loop", "returned"}
  /\ waitsForAny \in BOOLEAN

\* setValue() "can only be called once" (Future.hpp:185): whatever continuations
\* run at the same time, on whichever threads, one of them at most reaches it,
\* and finds the promise unresolved, also when the counter of whenAny() wraps.
FiresOnce ==
  /\ firing # {} => combined = "unset"
  /\ \A f, g \in firing : f = g

\* whenAll() resolves after its last input, whenAny() after its first.
ResolvedNotTooEarly ==
  combined = "set" /\ Inputs # {} =>
    IF waitsForAny THEN ready # {} ELSE ready = Inputs

\* As long as no continuation is taken away, the combined promise never breaks.
NeverBroken == dropped = {} => combined # "broken"
=============================================================================
