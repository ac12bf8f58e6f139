---------------------------- MODULE MCFutureFlows ----------------------------
(***************************************************************************)
(* The two ways a result flows on from a future, side by side: combine()   *)
(* and the SharedFuture (FutureComposition), and the adaptors that take it *)
(* from one language to the next (FutureBridge).  A behaviour is one of    *)
(* the former or of the latter, and the other part stays as it begins.     *)
(***************************************************************************)
EXTENDS FutureComposition, FutureBridge

VARIABLE flow

flowVars == <<flow, allVars, bridgeVars>>

\* The part that stays behind has one initial state.
FlowInit ==
  /\ flow \in {"composition", "bridge"}
  /\ ComposedInit
  /\ flow = "bridge" => waitsForAny = FALSE
  /\ BridgeInit
  /\ flow = "composition" => case = (CHOOSE c \in Cases : TRUE) /\ start = 0

Composing(A) == flow = "composition" /\ A /\ UNCHANGED <<flow, bridgeVars>>
Bridging(A) == flow = "bridge" /\ A /\ UNCHANGED <<flow, allVars>>

FlowNext == Composing(ComposedNext) \/ Bridging(BridgeNext)

\* ComposedFairness and the Fairness of the bridge, each where its part runs.
FlowFairness ==
  /\ WF_flowVars(Composing((Begin \/ Return \/ \E f \in Inputs : Hook(f)) /\ UNCHANGED sharedVars))
  /\ \A f \in Inputs : WF_flowVars(Composing(Continuation(f) /\ UNCHANGED sharedVars))
  /\ WF_flowVars(Composing(Publish /\ UNCHANGED vars))
  /\ WF_flowVars(Composing(Shared!Continue /\ UNCHANGED vars))
  /\ \A c \in Consumers : WF_flowVars(Composing(Shared!Consume(c) /\ UNCHANGED vars))
  /\ WF_flowVars(Bridging(Translate))
  /\ \A k \in 1 .. Length : WF_flowVars(Bridging(StageRuns(k)))

FlowSpec == FlowInit /\ [][FlowNext]_flowVars /\ FlowFairness
=============================================================================
