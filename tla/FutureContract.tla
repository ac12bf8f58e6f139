---------------------------- MODULE FutureContract ----------------------------
(***************************************************************************)
(* What promises and futures promise: a promise is resolved once; what     *)
(* then() makes of it is resolved after its continuation has run, which    *)
(* happens once, and when the result is there; only a further then(), on   *)
(* another future of a promise without result, can put an end to a         *)
(* continuation unrun, and what it was to resolve is broken.               *)
(***************************************************************************)
CONSTANTS Promises, NoPromise, Results, NoResult, Broken

VARIABLES
  value,   \* the result of each promise, or NoResult
  source,  \* the promise whose then() made this one, or NoPromise
  fate     \* "none"; "made" by the program; its continuation "waits", has been
           \* "run" or "dropped"; "over": resolved

contractVars == <<value, source, fate>>

Init ==
  /\ value = [p \in Promises |-> NoResult]
  /\ source = [p \in Promises |-> NoPromise]
  /\ fate = [p \in Promises |-> "none"]

Make(p) ==
  /\ fate[p] = "none"
  /\ fate' = [fate EXCEPT ![p] = "made"]
  /\ UNCHANGED <<value, source>>

Then(p, next) ==
  /\ fate[p] # "none" /\ fate[next] = "none"
  /\ fate' = [fate EXCEPT ![next] = "waits"]
  /\ source' = [source EXCEPT ![next] = p]
  /\ UNCHANGED value

Run(p) ==
  /\ fate[p] = "waits" /\ value[source[p]] # NoResult
  /\ fate' = [fate EXCEPT ![p] = "run"]
  /\ UNCHANGED <<value, source>>

Replace(p, by) ==
  /\ p # by /\ fate[p] = "waits" /\ fate[by] = "waits"
  /\ source[p] = source[by] /\ value[source[p]] = NoResult
  /\ fate' = [fate EXCEPT ![p] = "dropped"]
  /\ UNCHANGED <<value, source>>

Resolve(p, r) ==
  /\ fate[p] \in {"made", "run", "dropped"} /\ value[p] = NoResult
  /\ fate[p] = "dropped" => r = Broken
  /\ value' = [value EXCEPT ![p] = r]
  /\ fate' = [fate EXCEPT ![p] = "over"]
  /\ UNCHANGED source

Next ==
  \E p \in Promises :
    \/ Make(p) \/ Run(p)
    \/ \E q \in Promises : Then(p, q) \/ Replace(p, q)
    \/ \E r \in Results : Resolve(p, r)

Spec == Init /\ [][Next]_contractVars
==============================================================================
