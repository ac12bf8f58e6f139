------------------------------ MODULE CObjects ------------------------------
(***************************************************************************)
(* The reference-counted objects of the C API (support-lib/cpp/            *)
(* djinni_c.cpp, djinni_c_types.cpp, Outcome_c.cpp).                       *)
(*                                                                         *)
(* A program owns an object through handles: it retains and releases them, *)
(* and may pass one to another thread.  Arrays, keyval arrays and outcomes *)
(* own what their slots refer to.  The last release deletes the object,    *)
(* and a container's destructor releases its slots in turn, so one release *)
(* can set off a cascade.  Each increment and decrement of Object::_ref is *)
(* atomic and is one step here; what a thread has left to do in a call is  *)
(* its todo list, deepest destructor first.                                *)
(***************************************************************************)
EXTENDS Integers, Sequences, FiniteSets, Functions, TLC

CONSTANTS
  Threads,
  Objects,     \* addresses; reused once freed
  EmptyArray,  \* the kEmptyArray of djinni_array_new(0)
  NumSlots,    \* the length of the other arrays
  NoObject,    \* nullptr
  MaxHandles   \* bound: how many handles a thread owns

ASSUME ObjectsAssumption ==
  /\ EmptyArray \notin Objects
  /\ NoObject \notin Objects \union {EmptyArray}
  /\ IsFiniteSet(Threads) /\ IsFiniteSet(Objects)
  /\ NumSlots \in Nat \ {0}
  /\ MaxHandles \in Nat \ {0}

All == Objects \union {EmptyArray}
Slots == 1 .. NumSlots  \* an outcome uses the first one

VARIABLES
  kind,     \* "free", "leaf" (string, binary, number), "array", "outcome"
  refCount, \* Object::_ref
  slot,     \* what each slot of an array, or of an outcome, refers to
  handles,  \* how many handles each thread owns to each object
  todo      \* the steps of the call each thread is in

vars == <<kind, refCount, slot, handles, todo>>

Init ==
  /\ kind = [o \in All |-> IF o = EmptyArray THEN "array" ELSE "free"]
  /\ refCount = [o \in All |-> IF o = EmptyArray THEN 1 ELSE 0]
  /\ slot = [o \in All |-> [i \in Slots |-> NoObject]]
  /\ handles = [t \in Threads |-> [o \in All |-> 0]]
  /\ todo = [t \in Threads |-> <<>>]

Idle(t) == todo[t] = <<>>
Owns(t, o) == handles[t][o] > 0

\* Object::retain(): null is ignored.
Retained(count, o) == IF o = NoObject THEN count ELSE [count EXCEPT ![o] = @ + 1]

ReleaseOf(o) == IF o = NoObject THEN <<>> ELSE <<[op |-> "release", obj |-> o]>>

HandlesOf(t) == FoldFunction(+, 0, handles[t])

TakeHandle(t, o) ==
  /\ HandlesOf(t) < MaxHandles
  /\ handles' = [handles EXCEPT ![t][o] = @ + 1]

-----------------------------------------------------------------------------
(* The calls of the API *)

New(t, o, k) ==
  /\ Idle(t)
  /\ kind[o] = "free"
  /\ kind' = [kind EXCEPT ![o] = k]
  /\ refCount' = [refCount EXCEPT ![o] = 1]
  /\ slot' = [slot EXCEPT ![o] = [i \in Slots |-> NoObject]]
  /\ TakeHandle(t, o)
  /\ UNCHANGED todo

\* (Mutant of NewEmptyArray.)  Hand out the static reference itself.
NewEmptyArrayUnretained(t) ==
  /\ Idle(t)
  /\ TakeHandle(t, EmptyArray)
  /\ UNCHANGED <<kind, refCount, slot, todo>>

\* djinni_array_new(0) shares one array, of which a static keeps a reference.
NewEmptyArray(t) ==
  /\ Idle(t)
  /\ TakeHandle(t, EmptyArray)
  /\ refCount' = Retained(refCount, EmptyArray)
  /\ UNCHANGED <<kind, slot, todo>>

\* djinni_outcome_make_success() and _make_error() retain the value.
NewOutcome(t, o, v) ==
  /\ Idle(t)
  /\ kind[o] = "free"
  /\ v # NoObject => Owns(t, v)
  /\ kind' = [kind EXCEPT ![o] = "outcome"]
  /\ refCount' = Retained([refCount EXCEPT ![o] = 1], v)
  /\ slot' = [slot EXCEPT ![o] = [i \in Slots |-> IF i = 1 THEN v ELSE NoObject]]
  /\ TakeHandle(t, o)
  /\ UNCHANGED todo

Retain(t, o) ==
  /\ Idle(t)
  /\ Owns(t, o)
  /\ TakeHandle(t, o)
  /\ refCount' = Retained(refCount, o)
  /\ UNCHANGED <<kind, slot, todo>>

Release(t, o) ==
  /\ Idle(t)
  /\ Owns(t, o)
  /\ handles' = [handles EXCEPT ![t][o] = @ - 1]
  /\ todo' = [todo EXCEPT ![t] = ReleaseOf(o)]
  /\ UNCHANGED <<kind, refCount, slot>>

\* A program uses one array from one thread at a time.
Unshared(t, a) ==
  \A u \in Threads \ {t} : \A n \in DOMAIN todo[u] :
    ~(todo[u][n].op = "store" /\ todo[u][n].obj = a)

\* djinni_array_get_value(), keyval and outcome getters: +1 for the caller.
Get(t, a, i) ==
  LET v == slot[a][i] IN
  /\ Idle(t)
  /\ Owns(t, a)
  /\ kind[a] \in {"array", "outcome"}
  /\ Unshared(t, a)
  /\ v # NoObject
  /\ TakeHandle(t, v)
  /\ refCount' = Retained(refCount, v)
  /\ UNCHANGED <<kind, slot, todo>>

\* (Mutants of Set.)  Store without retaining.
SetUnretained(t, a, i, v) ==
  /\ Idle(t)
  /\ Owns(t, a)
  /\ kind[a] = "array" /\ a # EmptyArray
  /\ Unshared(t, a)
  /\ v # NoObject => Owns(t, v)
  /\ todo' = [todo EXCEPT ![t] =
       ReleaseOf(slot[a][i])
         \o <<[op |-> "store", obj |-> a, index |-> i, value |-> v]>>]
  /\ UNCHANGED <<kind, refCount, slot, handles>>

\* Overwrite the old element without releasing it.
SetWithoutRelease(t, a, i, v) ==
  /\ Idle(t)
  /\ Owns(t, a)
  /\ kind[a] = "array" /\ a # EmptyArray
  /\ Unshared(t, a)
  /\ v # NoObject => Owns(t, v)
  /\ refCount' = Retained(refCount, v)
  /\ todo' = [todo EXCEPT ![t] =
       <<[op |-> "store", obj |-> a, index |-> i, value |-> v]>>]
  /\ UNCHANGED <<kind, slot, handles>>

\* setObjectAtIndex(): retain the new element, release the old one, store.
Set(t, a, i, v) ==
  /\ Idle(t)
  /\ Owns(t, a)
  /\ kind[a] = "array" /\ a # EmptyArray
  /\ Unshared(t, a)
  /\ v # NoObject => Owns(t, v)
  /\ refCount' = Retained(refCount, v)
  /\ todo' = [todo EXCEPT ![t] =
       ReleaseOf(slot[a][i])
         \o <<[op |-> "store", obj |-> a, index |-> i, value |-> v]>>]
  /\ UNCHANGED <<kind, slot, handles>>

\* The program hands a reference over to another thread.
PassOn(t, u, o) ==
  /\ Idle(t)
  /\ Owns(t, o)
  /\ HandlesOf(u) < MaxHandles
  /\ handles' = [handles EXCEPT ![t][o] = @ - 1, ![u][o] = @ + 1]
  /\ UNCHANGED <<kind, refCount, slot, todo>>

-----------------------------------------------------------------------------
(* What a call has left to do *)

\* ~ObjectArray, ~Outcome: release each slot; then the memory is freed.
Destructor(o) ==
  (IF kind[o] = "leaf" THEN <<>>
   ELSE [i \in Slots |-> [op |-> "release", obj |-> slot[o][i]]])
    \o <<[op |-> "delete", obj |-> o]>>

\* (Mutants of ReleaseStep.)  Decrement first, test the count for zero later.
ReleaseStepTestsLater(t) ==
  LET step == Head(todo[t]) IN
  /\ ~Idle(t)
  /\ \/ /\ step.op = "release" /\ step.obj = NoObject
        /\ todo' = [todo EXCEPT ![t] = Tail(@)]
        /\ UNCHANGED refCount
     \/ /\ step.op = "release" /\ step.obj # NoObject
        /\ refCount' = [refCount EXCEPT ![step.obj] = @ - 1]
        /\ todo' = [todo EXCEPT ![t] = <<[op |-> "test", obj |-> step.obj]>> \o Tail(@)]
     \/ /\ step.op = "test"
        /\ todo' = [todo EXCEPT ![t] =
             (IF refCount[step.obj] = 0 THEN Destructor(step.obj) ELSE <<>>) \o Tail(@)]
        /\ UNCHANGED refCount
  /\ UNCHANGED <<kind, slot, handles>>

\* Delete containers without their destructor.
ReleaseStepLeaksSlots(t) ==
  LET step == Head(todo[t]) IN
  /\ ~Idle(t)
  /\ step.op = "release"
  /\ refCount' = [refCount EXCEPT ![step.obj] = @ - 1]
  /\ todo' = [todo EXCEPT ![t] =
       (IF refCount'[step.obj] = 0 THEN <<[op |-> "delete", obj |-> step.obj]>> ELSE <<>>)
         \o Tail(@)]
  /\ UNCHANGED <<kind, slot, handles>>

\* onRelease(): if (--_ref == 0) delete this.  A null slot is ignored.
ReleaseStep(t) ==
  LET step == Head(todo[t]) IN
  /\ ~Idle(t)
  /\ step.op = "release"
  /\ IF step.obj = NoObject
       THEN UNCHANGED refCount /\ todo' = [todo EXCEPT ![t] = Tail(@)]
       ELSE /\ refCount' = [refCount EXCEPT ![step.obj] = @ - 1]
            /\ todo' = [todo EXCEPT ![t] =
                 (IF refCount'[step.obj] = 0 THEN Destructor(step.obj) ELSE <<>>) \o Tail(@)]
  /\ UNCHANGED <<kind, slot, handles>>

DeleteStep(t) ==
  LET step == Head(todo[t]) IN
  /\ ~Idle(t)
  /\ step.op = "delete"
  /\ kind' = [kind EXCEPT ![step.obj] = "free"]
  /\ todo' = [todo EXCEPT ![t] = Tail(@)]
  /\ UNCHANGED <<refCount, slot, handles>>

StoreStep(t) ==
  LET step == Head(todo[t]) IN
  /\ ~Idle(t)
  /\ step.op = "store"
  /\ slot' = [slot EXCEPT ![step.obj][step.index] = step.value]
  /\ todo' = [todo EXCEPT ![t] = Tail(@)]
  /\ UNCHANGED <<kind, refCount, handles>>

-----------------------------------------------------------------------------

Step(t) == ReleaseStep(t) \/ DeleteStep(t) \/ StoreStep(t)

Call(t) ==
  \/ NewEmptyArray(t)
  \/ \E o \in Objects : \E k \in {"leaf", "array"} : New(t, o, k)
  \/ \E o \in Objects, v \in All \union {NoObject} : NewOutcome(t, o, v)
  \/ \E o \in All : Retain(t, o) \/ Release(t, o)
  \/ \E a \in All, i \in Slots : Get(t, a, i)
  \/ \E a \in All, i \in Slots, v \in All \union {NoObject} : Set(t, a, i, v)
  \/ \E u \in Threads \ {t}, o \in All : PassOn(t, u, o)

Next == \E t \in Threads : Call(t) \/ Step(t)

Spec == Init /\ [][Next]_vars

-----------------------------------------------------------------------------
(* Properties *)

Allocated(o) == kind[o] # "free"

\* What is left to do, by where it is, and each step of it.
Places == UNION {{t} \X DOMAIN todo[t] : t \in Threads}
StepAt(p) == todo[p[1]][p[2]]

Pending(op, o) == {p \in Places : StepAt(p).op = op /\ StepAt(p).obj = o}

\* The destructor of o has begun.
Dying(o) == Pending("delete", o) # {}

\* A slot owns what it refers to, except while it is being replaced and once
\* the destructor of its container has taken over.
OwningSlots(o) ==
  {s \in All \X Slots :
     /\ Allocated(s[1]) /\ ~Dying(s[1])
     /\ slot[s[1]][s[2]] = o
     /\ \A p \in Pending("store", s[1]) : StepAt(p).index # s[2]}

Owners(o) ==
  ({"handle"} \X UNION {{t} \X (1 .. handles[t][o]) : t \in Threads})
    \union ({"slot"} \X OwningSlots(o))
    \union ({"release"} \X Pending("release", o))
    \union ({"store"} \X {p \in Places : StepAt(p).op = "store" /\ StepAt(p).value = o})
    \union ({"static"} \X IF o = EmptyArray THEN {1} ELSE {})

\* Object::_ref counts the owners of the object, whatever calls and cascades of
\* destructors are under way in other threads.
RefCountExact == \A o \in All : Allocated(o) => refCount[o] = Cardinality(Owners(o))

\* What a program can reach - through a handle, through the slots of a container
\* it can reach, or as the array all empty arrays share - has not been freed and
\* is not being destroyed.
NothingDangles ==
  \A o \in All :
    (\E t \in Threads : Owns(t, o)) \/ OwningSlots(o) # {} \/ o = EmptyArray =>
      Allocated(o) /\ ~Dying(o)

\* Between calls, an object nobody owns has been freed.
NoLeak ==
  (\A t \in Threads : Idle(t)) => \A o \in All : Allocated(o) => Owners(o) # {}

-----------------------------------------------------------------------------

\* For TLC: threads, and addresses, are interchangeable.
Symmetry == Permutations(Threads) \union Permutations(Objects)
=============================================================================
