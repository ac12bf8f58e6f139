---------------------------- MODULE ProxyRegistry ----------------------------
(***************************************************************************)
(* What a proxy cache promises: at any time an impl has at most one proxy, *)
(* a caller that asks for the proxy of an impl receives that one, or a new *)
(* one if the impl has none, and a proxy that somebody holds is not        *)
(* replaced.                                                               *)
(***************************************************************************)
CONSTANTS Actors, Keys, Proxies, NoProxy

VARIABLES
  live,  \* the one proxy an impl has at the moment, or NoProxy
  held   \* the proxies each actor holds a strong reference to

registryVars == <<live, held>>

Init ==
  /\ live = [k \in Keys |-> NoProxy]
  /\ held = [t \in Actors |-> {}]

Share(t, k) ==
  /\ live[k] # NoProxy
  /\ held' = [held EXCEPT ![t] = @ \union {live[k]}]
  /\ UNCHANGED live

Create(t, k, p) ==
  /\ live[k] = NoProxy
  /\ \A j \in Keys : live[j] # p
  /\ live' = [live EXCEPT ![k] = p]
  /\ held' = [held EXCEPT ![t] = @ \union {p}]

Release(t, p) ==
  /\ p \in held[t]
  /\ held' = [held EXCEPT ![t] = @ \ {p}]
  /\ UNCHANGED live

\* The last strong reference goes, and the proxy dies with it.
ReleaseLast(t, k) ==
  /\ live[k] \in held[t]
  /\ \A u \in Actors \ {t} : live[k] \notin held[u]
  /\ held' = [held EXCEPT ![t] = @ \ {live[k]}]
  /\ live' = [live EXCEPT ![k] = NoProxy]

\* A proxy nobody holds is collected.
Retire(k) ==
  /\ live[k] # NoProxy
  /\ \A t \in Actors : live[k] \notin held[t]
  /\ live' = [live EXCEPT ![k] = NoProxy]
  /\ UNCHANGED held

Next ==
  \/ \E t \in Actors, k \in Keys : Share(t, k) \/ ReleaseLast(t, k)
  \/ \E t \in Actors, k \in Keys, p \in Proxies : Create(t, k, p)
  \/ \E t \in Actors, p \in Proxies : Release(t, p)
  \/ \E k \in Keys : Retire(k)

Spec == Init /\ [][Next]_registryVars
==============================================================================
