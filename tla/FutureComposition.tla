-------------------------- MODULE FutureComposition --------------------------
(***************************************************************************)
(* A SharedFuture made of the future that whenAll() or whenAny() returns:  *)
(* several coroutines await the same set of input futures.                 *)
(*                                                                         *)
(* FutureCombine gives the inputs and the combined promise, SharedFuture   *)
(* the consumers.  They meet in the continuation that the constructor of   *)
(* SharedFuture puts on the combined future, which runs once the combined  *)
(* promise is set or broken and the constructor has been called.           *)
(***************************************************************************)
EXTENDS FutureCombine

CONSTANTS Consumers

VARIABLES storedValue, coroutineHandles, toCall, continuation, pc, resumptions, saw

sharedVars == <<storedValue, coroutineHandles, toCall, continuation, pc,
                resumptions, saw>>
allVars == <<vars, sharedVars>>

Shared == INSTANCE SharedFuture

ComposedInit == Init /\ Shared!Init

\* What futureResult.get() returns or throws once the combined future is ready.
CombinedResult == IF combined = "set" THEN "value" ELSE "exception"

Publish ==
  /\ combiner = "returned"
  /\ combined # "unset"
  /\ Shared!Publish(CombinedResult)

\* The coroutines that await the SharedFuture need one to await.
Await(c) == combiner = "returned" /\ Shared!AwaitReady(c)

SharedNext ==
  \/ Publish
  \/ Shared!Continue
  \/ \E c \in Consumers : Await(c) \/ Shared!Consume(c)

ComposedNext ==
  \/ Next /\ UNCHANGED sharedVars
  \/ SharedNext /\ UNCHANGED vars

ComposedSpec == ComposedInit /\ [][ComposedNext]_allVars

\* combine() and the continuations, once called, run on, and threads run the
\* coroutines they entered; nothing is assumed of the program that resolves the
\* inputs or awaits the SharedFuture.
ComposedFairness ==
  /\ WF_allVars((Begin \/ Return \/ \E f \in Inputs : Hook(f)) /\ UNCHANGED sharedVars)
  /\ \A f \in Inputs : WF_allVars(Continuation(f) /\ UNCHANGED sharedVars)
  /\ WF_allVars(Publish /\ UNCHANGED vars)
  /\ WF_allVars(Shared!Continue /\ UNCHANGED vars)
  /\ \A c \in Consumers : WF_allVars(Shared!Consume(c) /\ UNCHANGED vars)

ComposedFairSpec == ComposedSpec /\ ComposedFairness

-----------------------------------------------------------------------------
(* Properties *)

\* await_suspend() against the continuation: every coroutine is resumed at most
\* once, and all of them read the same result, without the mutex.
ConsumersAgree == Shared!ConsumersAgree

EnoughReady == IF waitsForAny THEN ready # {} ELSE ready = Inputs

\* From one end to the other: when the inputs that count are resolved and none
\* of the continuations is lost, everyone who found the future unready obtains
\* the value, whichever of combine(), the constructor, the resolving threads
\* and await_suspend() comes first.  A combination broken by lost continuations
\* still lets its consumers go: they see the exception.
ConsumersServed ==
  \A c \in Consumers :
    /\ pc[c] = "notReady" /\ EnoughReady
         ~> (pc[c] = "finished" /\ saw[c] = "value") \/ dropped # {}
    /\ pc[c] = "notReady" /\ combined = "broken"
         ~> pc[c] = "finished" /\ saw[c] = "exception"
=============================================================================
