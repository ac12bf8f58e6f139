----------------------------- MODULE FutureBridge -----------------------------
(***************************************************************************)
(* Futures that cross a language boundary any number of times in a row     *)
(* (the FutureAdaptor of each platform).                                   *)
(*                                                                         *)
(* Stage k of the chain puts a continuation on the future of state k - 1   *)
(* that resolves a promise of state k, in the other language.  One thread  *)
(* builds the stages while another resolves state 0, so a continuation is  *)
(* called by whichever of the two comes second, or by the thread that a    *)
(* platform posts it to; continuations called inline nest.  The promise is *)
(* a heap object: a C++ Promise, or a holder that refers to a foreign one. *)
(*                                                                         *)
(* How a platform continues a future is a record per language, for the way *)
(* its futures call a continuation, and one per adaptor that puts such a   *)
(* continuation on a future.                                               *)
(* stored, ready: when the promise is resolved with a continuation stored, *)
(* and when one is put on a ready future, the continuation is called there *)
(* ("inline") or left to another thread ("posted").                        *)
(***************************************************************************)
EXTENDS Naturals, Sequences

\* C++, C (a C++ future inside), Java and Objective-C: setValue() and
\* setException() call the stored continuation themselves, then() calls a
\* ready one, both once the lock has been released.
CppFuture == [stored |-> "inline", ready |-> "inline"]
CFuture == [stored |-> "inline", ready |-> "inline"]
JavaFuture == [stored |-> "inline", ready |-> "inline"]
ObjcFuture == [stored |-> "inline", ready |-> "inline"]

\* Fulfilment starts each subscription on a global queue; subscribe() calls it.
SwiftFuture == [stored |-> "posted", ready |-> "inline"]

\* A JavaScript promise leaves its reactions to the event loop.
JsPromise == [stored |-> "posted", ready |-> "posted"]

ValdiPromise == [stored |-> "inline", ready |-> "inline"]

\* An adaptor, by what can differ:
\*   on         the futures it continues
\*   hops       the continuation passes itself on to the main thread
\*   ignores    with a void result it never looks for an error
\*   forwards   the errors it passes on; from others its continuation returns
\*              without a word
\*   gives      the kind of error it produces
\*   converts   its conversion of the value may fail, and it reports that
\*   selfFrees  the code that sets the promise frees it, not the destructor of
\*              the continuation
\*   late       it asks the promise for its future at the end
Errors == {"std", "own"}  \* a std::exception; the Swift layer's own ErrorValue

Adaptor(on) ==
  [on |-> on, hops |-> FALSE, ignores |-> FALSE, forwards |-> Errors, gives |-> "std",
   converts |-> TRUE, selfFrees |-> FALSE, late |-> FALSE]

CFromCpp == Adaptor(CppFuture)
CToCpp == [Adaptor(CFuture) EXCEPT !.late = TRUE]

\* SetResult<Void>::setJavaResult() does not call get().
JavaFromCpp == [Adaptor(CppFuture) EXCEPT !.ignores = TRUE]
JavaToCpp == [Adaptor(JavaFuture) EXCEPT !.converts = FALSE, !.selfFrees = TRUE]

\* FutureAdaptor<Void> leaves the future it is called with alone.
ObjcFromCpp == [Adaptor(CppFuture) EXCEPT !.ignores = TRUE]
ObjcToCpp == [Adaptor(ObjcFuture) EXCEPT !.ignores = TRUE]

\* (Mutant of WasmFromCpp.)  The catch clause resolves.
WasmFromCppIgnoring == [Adaptor(CppFuture) EXCEPT !.hops = TRUE, !.ignores = TRUE, !.selfFrees = TRUE]

\* The CppResolveHandler deletes itself on the main thread.
WasmFromCpp == [Adaptor(CppFuture) EXCEPT !.hops = TRUE, !.selfFrees = TRUE]
WasmToCpp == [Adaptor(JsPromise) EXCEPT !.selfFrees = TRUE]

\* getFutureResult(Future<void>&) does not call get(); only an ErrorValue is
\* caught; the callback takes over the reference to the PromiseHolder.
SwiftFromCpp ==
  [Adaptor(CppFuture) EXCEPT !.ignores = TRUE, !.forwards = {"own"}, !.gives = "own",
                             !.converts = FALSE, !.selfFrees = TRUE]
\* FutureMarshaller.toCpp: from the Swift future to a SwiftFutureHolder ...
SwiftToHolder == [Adaptor(SwiftFuture) EXCEPT !.gives = "own", !.converts = FALSE]
\* ... and FutureAdaptor::toCpp() from the future of the holder to a typed one.
SwiftHolderToCpp == [Adaptor(CppFuture) EXCEPT !.gives = "own", !.converts = FALSE]

ValdiFromCpp == [Adaptor(CppFuture) EXCEPT !.ignores = TRUE]
ValdiToCpp == [Adaptor(ValdiPromise) EXCEPT !.converts = FALSE]

\* What a future goes through from C++ to the platform and back.
RoundTrip ==
  [c |-> <<CFromCpp, CToCpp>>,
   java |-> <<JavaFromCpp, JavaToCpp>>,
   objc |-> <<ObjcFromCpp, ObjcToCpp>>,
   wasm |-> <<WasmFromCpp, WasmToCpp>>,
   swift |-> <<SwiftFromCpp, SwiftToHolder, SwiftHolderToCpp>>,
   valdi |-> <<ValdiFromCpp, ValdiToCpp>>]

Platforms == DOMAIN RoundTrip

-----------------------------------------------------------------------------
CONSTANTS
  Cases,       \* [platform, isVoid: the result type is void, error: the kind of
               \* exception state 0 may be resolved with]
  Length,      \* bound: how many stages the program builds
  Translator,  \* the thread that builds the stages
  Resolver,    \* the thread that resolves state 0
  Loop,        \* the platform's event loop, or queue
  NoThread

ASSUME BridgeAssumption ==
  /\ Cases \subseteq [platform : Platforms, isVoid : BOOLEAN, error : Errors]
  /\ Length \in Nat \ {0}
  /\ Translator # Resolver /\ Loop \notin {Translator, Resolver}
  /\ NoThread \notin {Translator, Resolver, Loop}

Stages == 1 .. Length

VARIABLES
  case,      \* the member of Cases at hand
  start,     \* the language of state 0: its place in the round trip
  result,    \* of each state: "none", "value", or an error
  cont,      \* the continuation of each stage: "none"; "stored"; "posted";
             \* "called"; "refused": get() or the conversion threw; "nesting": it
             \* runs the next one; "returning"; "gone": returned and destroyed
  runner,    \* the thread that called it
  threw,     \* its conversion of the value failed
  promise,   \* the promise object of each stage: "none", "live", "freed"
  future,    \* the future of each state: "none", "obtained", "dangling"
  stage,     \* the stage the Translator builds, and how far it is
  building

built == <<case, start, future, stage, building>>
bridgeVars == <<built, result, cont, runner, threw, promise>>

Cycle == RoundTrip[case.platform]
Of(k) == Cycle[((k + start - 1) % Len(Cycle)) + 1]

Failed(k) == result[k] \in Errors
IgnoresError(k) == case.isVoid /\ Of(k).ignores

BridgeInit ==
  /\ case \in Cases
  /\ start \in {n \in 0 .. 2 : n < Len(RoundTrip[case.platform])}
  /\ result = [k \in 0 .. Length |-> "none"]
  /\ cont = [k \in Stages |-> "none"]
  /\ runner = [k \in Stages |-> NoThread]
  /\ threw = [k \in Stages |-> FALSE]
  /\ promise = [k \in Stages |-> "none"]
  /\ future = [k \in 0 .. Length |-> IF k = 0 THEN "obtained" ELSE "none"]
  /\ stage = 1
  /\ building = "idle"

-----------------------------------------------------------------------------
(* Building a stage *)

MakePromise ==
  /\ building = "idle"
  /\ stage <= Length
  /\ future[stage - 1] = "obtained"
  /\ promise' = [promise EXCEPT ![stage] = "live"]
  /\ future' = [future EXCEPT ![stage] = IF Of(stage).late THEN @ ELSE "obtained"]
  /\ building' = "made"
  /\ UNCHANGED <<case, start, stage, result, cont, runner, threw>>

\* How the continuation of stage k is called, on a future that is ready
\* ("ready") or becomes so ("stored").
Mode(k, when) == IF Of(k).hops THEN "posted" ELSE Of(k).on[when]

\* (Mutant of Register.)  Store the continuation without looking.
RegisterUnchecked ==
  /\ building = "made"
  /\ cont' = [cont EXCEPT ![stage] = "stored"]
  /\ building' = "registered"
  /\ UNCHANGED <<case, start, future, stage, result, runner, threw, promise>>

\* then(): store the continuation or, on a ready future, call or post it now.
Register ==
  /\ building = "made"
  /\ LET inline == result[stage - 1] # "none" /\ Mode(stage, "ready") = "inline" IN
     /\ cont' = [cont EXCEPT ![stage] =
          IF result[stage - 1] = "none" THEN "stored" ELSE IF inline THEN "called" ELSE "posted"]
     /\ runner' = [runner EXCEPT ![stage] = IF inline THEN Translator ELSE @]
  /\ building' = "registered"
  /\ UNCHANGED <<case, start, future, stage, result, threw, promise>>

\* The adaptor returns its future; a late one asks the promise for it, whether
\* or not that exists still.
ReturnFuture ==
  /\ building = "registered"
  /\ runner[stage] = Translator => cont[stage] = "gone"
  /\ future' = [future EXCEPT ![stage] =
       IF Of(stage).late /\ promise[stage] # "live" THEN "dangling" ELSE "obtained"]
  /\ stage' = stage + 1
  /\ building' = "idle"
  /\ UNCHANGED <<case, start, result, cont, runner, threw, promise>>

-----------------------------------------------------------------------------
(* Resolving *)

Running == {"called", "refused", "nesting", "returning"}

\* State k receives its result, on thread t, which calls the continuation
\* stored there or posts it.
Update(k, r, t) ==
  LET next == k < Length /\ cont[k + 1] = "stored"
      nests == next /\ Mode(k + 1, "stored") = "inline"
  IN /\ result' = [result EXCEPT ![k] = r]
     /\ cont' = [j \in Stages |->
          IF j = k THEN IF nests THEN "nesting" ELSE "returning"
          ELSE IF j = k + 1 /\ next THEN IF nests THEN "called" ELSE "posted"
          ELSE cont[j]]
     /\ runner' = [j \in Stages |-> IF j = k + 1 /\ nests THEN t ELSE runner[j]]

\* The program resolves state 0; a JavaScript promise only on its event loop.
ResolveSource(r) ==
  /\ result[0] = "none"
  /\ Update(0, r, IF Of(1).on = JsPromise THEN Loop ELSE Resolver)
  /\ UNCHANGED <<built, threw, promise>>

\* An event loop calls what is posted to it one at a time; Swift's global
\* queues are concurrent.
Deliver(k) ==
  /\ cont[k] = "posted"
  /\ case.platform = "swift" \/ \A j \in Stages : runner[j] = Loop => cont[j] \notin Running
  /\ cont' = [cont EXCEPT ![k] = "called"]
  /\ runner' = [runner EXCEPT ![k] = Loop]
  /\ UNCHANGED <<built, result, threw, promise>>

\* The value is converted, and the promise of the stage set to it.
PassValue(k) ==
  /\ cont[k] = "called"
  /\ result[k - 1] = "value" \/ IgnoresError(k)
  /\ Update(k, "value", runner[k])
  /\ UNCHANGED <<built, threw, promise>>

\* (Mutant of Refuse.)  Swallow the exception of a conversion.
RefuseSilently(k) ==
  /\ cont[k] = "called"
  /\ threw' = [threw EXCEPT ![k] = result[k - 1] = "value"]
  /\ cont' = [cont EXCEPT ![k] = "returning"]
  /\ UNCHANGED <<built, result, runner, promise>>

\* get() throws what the future holds, or the conversion throws.  An error that
\* no catch clause of the adaptor is for ends the continuation: then() keeps it
\* for a future nobody has.
Refuse(k) ==
  /\ cont[k] = "called"
  /\ \/ Failed(k - 1) /\ ~IgnoresError(k)
     \/ result[k - 1] = "value" /\ Of(k).converts /\ ~case.isVoid
  /\ threw' = [threw EXCEPT ![k] = result[k - 1] = "value"]
  /\ cont' = [cont EXCEPT ![k] =
       IF Failed(k - 1) /\ result[k - 1] \notin Of(k).forwards THEN "returning" ELSE "refused"]
  /\ UNCHANGED <<built, result, runner, promise>>

\* The promise is rejected.
PassError(k) ==
  /\ cont[k] = "refused"
  /\ Update(k, Of(k).gives, runner[k])
  /\ UNCHANGED <<built, threw, promise>>

\* Continuation k is over; the one it was nested in returns next.
Returned(k) ==
  [j \in Stages |->
     IF j = k THEN "gone"
     ELSE IF j = k - 1 /\ cont[j] = "nesting" THEN "returning" ELSE cont[j]]

\* (Mutant of Finish.)  The promise has no owner.
FinishWithoutFreeing(k) ==
  /\ cont[k] = "returning"
  /\ cont' = Returned(k)
  /\ UNCHANGED <<built, result, runner, threw, promise>>

\* The continuation returns and is destroyed; the promise goes with it, or is
\* freed by the code that has set it.
Finish(k) ==
  /\ cont[k] = "returning"
  /\ promise' = [promise EXCEPT ![k] =
       IF Of(k).selfFrees /\ result[k] = "none" THEN @ ELSE "freed"]
  /\ cont' = Returned(k)
  /\ UNCHANGED <<built, result, runner, threw>>

-----------------------------------------------------------------------------

Translate == Register \/ ReturnFuture
StageRuns(k) == Deliver(k) \/ PassValue(k) \/ Refuse(k) \/ PassError(k) \/ Finish(k)

BridgeNext ==
  \/ MakePromise \/ Translate
  \/ \E r \in {"value", case.error} : ResolveSource(r)
  \/ \E k \in Stages : StageRuns(k)

BridgeSpec == BridgeInit /\ [][BridgeNext]_bridgeVars

\* Every thread finishes the calls it is in, and an event loop serves what is
\* posted to it; the program need not resolve state 0 nor build another stage.
BridgeFairness == WF_bridgeVars(Translate) /\ \A k \in Stages : WF_bridgeVars(StageRuns(k))

BridgeFairSpec == BridgeSpec /\ BridgeFairness

-----------------------------------------------------------------------------
(* Properties *)

\* However often a result changes language, on whichever thread, a value stays a
\* value unless a conversion fails, and an exception never turns into a value.
OutcomeFaithful ==
  \A k \in Stages :
    /\ result[k] = "value" => result[k - 1] = "value"
    /\ Failed(k) => Failed(k - 1) \/ threw[k]

\* A continuation uses a promise that exists, and frees it resolved: the chain
\* does not break.
FreedOnlyOnceSet ==
  \A k \in Stages :
    /\ cont[k] \in Running => promise[k] = "live"
    /\ promise[k] = "freed" => result[k] # "none"

\* Once state 0 has its result, every stage that has been built has one too, and
\* its promise has been freed.
ChainSettles ==
  \A k \in Stages :
    result[0] # "none" /\ cont[k] # "none" ~> result[k] # "none" /\ promise[k] = "freed"

\* Sets of cases for the instances.
CaseOf(platforms, voids, errors) == [platform : platforms, isVoid : voids, error : errors]

\* The cases in which no adaptor drops an error, and two in which one does.
WorkingCases ==
  CaseOf({"c", "wasm"}, BOOLEAN, {"std"})
    \union CaseOf({"java", "objc", "valdi"}, {FALSE}, {"std"})
    \union CaseOf({"swift"}, {FALSE}, {"own"})
SwiftCases == CaseOf({"swift"}, BOOLEAN, {"std"})
CCases == CaseOf({"c"}, {FALSE}, {"std"})

\* swift/DJFuture.swift:137-139: the continuation of an adaptor "forwards the
\* C++ future's result or error"; so a stage that is over has passed on an error.
ErrorForwarded == \A k \in Stages : cont[k] = "gone" /\ Failed(k - 1) => Failed(k)

\* "allow calling getFuture() after setValue()" (Future.hpp:215): an adaptor
\* returns the future of its promise also if that has been resolved meanwhile.
FutureOfLivePromise == \A k \in Stages : future[k] # "dangling"
=============================================================================
