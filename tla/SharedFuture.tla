---------------------------- MODULE SharedFuture ----------------------------
(***************************************************************************)
(* djinni::SharedFuture (support-lib/cpp/SharedFuture.hpp): one result,    *)
(* many consumers.                                                         *)
(*                                                                         *)
(* Each get(), wait(), then(), thenShared() and toFuture() is a coroutine  *)
(* that awaits the shared state.  It asks await_ready() first and, if the  *)
(* answer is no, await_suspend(), which looks again under the mutex before *)
(* it queues the coroutine's handle.  The continuation on the wrapped      *)
(* Future stores the result, takes the queue and resumes every coroutine   *)
(* in it, outside the mutex, on the thread that resolved the promise.      *)
(***************************************************************************)
EXTENDS Naturals

CONSTANTS Consumers  \* the coroutines that await the shared future

VARIABLES
  storedValue,       \* SharedStates::storedValue: "none", "value", "exception"
  coroutineHandles,  \* SharedStates::coroutineHandles
  toCall,            \* the handles the continuation took and has yet to resume
  continuation,      \* the continuation on the Future: "waiting", "calling",
                     \* "done"
  pc,                \* of each consumer: "new", "notReady", "suspended",
                     \* "resumed", "finished"
  resumptions,       \* how often the coroutine has been resumed
  saw                \* the result the coroutine read

vars == <<storedValue, coroutineHandles, toCall, continuation, pc, resumptions,
          saw>>

Init ==
  /\ storedValue = "none"
  /\ coroutineHandles = {}
  /\ toCall = {}
  /\ continuation = "waiting"
  /\ pc = [c \in Consumers |-> "new"]
  /\ resumptions = [c \in Consumers |-> 0]
  /\ saw = [c \in Consumers |-> "none"]

Goto(c, label) == pc' = [pc EXCEPT ![c] = label]

Resume(c) ==
  /\ resumptions' = [resumptions EXCEPT ![c] = @ + 1]
  /\ Goto(c, "resumed")

-----------------------------------------------------------------------------

\* await_ready(): a stored result is used without suspending.
AwaitReady(c) ==
  /\ pc[c] = "new"
  /\ Goto(c, IF storedValue = "none" THEN "notReady" ELSE "resumed")
  /\ UNCHANGED <<storedValue, coroutineHandles, toCall, continuation,
                 resumptions, saw>>

\* (Mutants of AwaitSuspend.)  Trust the answer of await_ready().
AwaitSuspendUnchecked(c) ==
  /\ pc[c] = "notReady"
  /\ coroutineHandles' = coroutineHandles \union {c}
  /\ Goto(c, "suspended")
  /\ UNCHANGED <<storedValue, toCall, continuation, resumptions, saw>>

\* Queue the handle in any case, and resume it as well when the result is in.
AwaitSuspendTwice(c) ==
  /\ pc[c] = "notReady"
  /\ IF storedValue = "none"
       THEN /\ toCall' = toCall
            /\ coroutineHandles' = coroutineHandles \union {c}
            /\ Goto(c, "suspended")
            /\ UNCHANGED resumptions
       ELSE Resume(c) /\ toCall' = toCall \union {c} /\ UNCHANGED coroutineHandles
  /\ UNCHANGED <<storedValue, continuation, saw>>

\* await_suspend(): queue the handle, or resume at once if the result came in
\* the meantime.
AwaitSuspend(c) ==
  /\ pc[c] = "notReady"
  /\ IF storedValue = "none"
       THEN /\ coroutineHandles' = coroutineHandles \union {c}
            /\ Goto(c, "suspended")
            /\ UNCHANGED resumptions
       ELSE Resume(c) /\ UNCHANGED coroutineHandles
  /\ UNCHANGED <<storedValue, toCall, continuation, saw>>

\* await_resume() reads the result without the mutex, and the rest of the
\* coroutine (a transform, the end of a wait()) runs.
AwaitResume(c) ==
  /\ pc[c] = "resumed"
  /\ saw' = [saw EXCEPT ![c] = storedValue]
  /\ Goto(c, "finished")
  /\ UNCHANGED <<storedValue, coroutineHandles, toCall, continuation,
                 resumptions>>

\* (Mutants of Publish.)  Take the queue first, store the result afterwards.
PublishTakesQueueFirst(r) ==
  \/ /\ continuation = "waiting"
     /\ toCall' = coroutineHandles
     /\ coroutineHandles' = {}
     /\ continuation' = "calling"
     /\ UNCHANGED <<storedValue, pc, resumptions, saw>>
  \/ /\ continuation # "waiting"
     /\ storedValue = "none"
     /\ storedValue' = r
     /\ UNCHANGED <<coroutineHandles, toCall, continuation, pc, resumptions, saw>>

\* The wrapped future has its result: store it and take the queue.
Publish(r) ==
  /\ continuation = "waiting"
  /\ storedValue' = r
  /\ toCall' = coroutineHandles
  /\ coroutineHandles' = {}
  /\ continuation' = "calling"
  /\ UNCHANGED <<pc, resumptions, saw>>

\* for (auto& handle : toCall) handle();
ResumeNext(c) ==
  /\ continuation = "calling"
  /\ c \in toCall
  /\ toCall' = toCall \ {c}
  /\ Resume(c)
  /\ UNCHANGED <<storedValue, coroutineHandles, continuation, saw>>

EndOfCalls ==
  /\ continuation = "calling"
  /\ toCall = {}
  /\ continuation' = "done"
  /\ UNCHANGED <<storedValue, coroutineHandles, toCall, pc, resumptions, saw>>

-----------------------------------------------------------------------------

Consume(c) == AwaitSuspend(c) \/ AwaitResume(c)
Continue == EndOfCalls \/ \E c \in Consumers : ResumeNext(c)

Next ==
  \/ \E r \in {"value", "exception"} : Publish(r)
  \/ Continue
  \/ \E c \in Consumers : AwaitReady(c) \/ Consume(c)

Spec == Init /\ [][Next]_vars

-----------------------------------------------------------------------------
(* Properties *)

\* A coroutine is resumed at most once, by the continuation or by its own
\* await_suspend(), however the two race: a queued handle is a suspended one.
\* All of them read one and the same result, although none locks the mutex to
\* do so.
ConsumersAgree ==
  \A c \in Consumers :
    /\ resumptions[c] <= 1
    /\ c \in coroutineHandles \union toCall => pc[c] = "suspended"
    /\ pc[c] = "finished" => saw[c] = storedValue /\ saw[c] # "none"
=============================================================================
