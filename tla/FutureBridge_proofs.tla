-------------------------- MODULE FutureBridge_proofs --------------------------
(***************************************************************************)
(* A result that crosses languages any number of times: for every length   *)
(* of the chain, and every case in which the adaptors of the platform look *)
(* for an error and forward each kind that can come up.  (FutureBridge has *)
(* the runs for the cases in which they do not.)  The invariant gives what *)
(* the place of a continuation tells of the results before and after it,   *)
(* and of its promise.                                                     *)
(***************************************************************************)
EXTENDS FutureBridge, TLAPS

AdaptorsOf(p) == {RoundTrip[p][i] : i \in DOMAIN RoundTrip[p]}

\* The errors a chain of the case can carry, and a case whose adaptors forward
\* them all.
ErrorsOf(c) == {c.error} \union {a.gives : a \in AdaptorsOf(c.platform)}
Forwards(c) ==
  \A a \in AdaptorsOf(c.platform) :
    ErrorsOf(c) \subseteq a.forwards /\ ~(c.isVoid /\ a.ignores)

\* Which cases these are.
Works(c) ==
  /\ c.isVoid => c.platform \in {"c", "wasm"}
  /\ c.platform = "swift" => c.error = "own"

\* The hypothesis of the theorems: the program stays with these cases.
WorkingBridge == \A c \in Cases : Works(c)

BridgeTypeOK ==
  /\ case \in Cases
  /\ start \in {n \in 0 .. 2 : n < Len(RoundTrip[case.platform])}
  /\ result \in [0 .. Length -> {"none", "value"} \union ErrorsOf(case)]
  /\ cont \in [Stages -> {"none", "stored", "posted", "gone"} \union Running]
  /\ threw \in [Stages -> BOOLEAN]
  /\ promise \in [Stages -> {"none", "live", "freed"}]
  /\ stage \in 1 .. Length + 1
  /\ building \in {"idle", "made", "registered"}
  /\ building # "idle" => stage \in Stages

\* What is built of a stage.
BuiltInv ==
  \A k \in Stages :
    /\ stage < k \/ (stage = k /\ building # "registered") => cont[k] = "none"
    /\ stage < k \/ (stage = k /\ building = "idle") => promise[k] = "none"
    /\ stage = k /\ building = "made" => promise[k] = "live"

\* A continuation starts when the state before has its result, and is past its
\* promise when its own state has one.
ContInv ==
  \A k \in Stages :
    /\ cont[k] \notin {"none", "stored"} => result[k - 1] # "none"
    /\ result[k] # "none" <=> cont[k] \in {"nesting", "returning", "gone"}
    /\ cont[k] = "refused" => Failed(k - 1) \/ threw[k]
    /\ cont[k] \in {"stored", "posted"} \union Running => promise[k] = "live"
    /\ promise[k] = "freed" => cont[k] = "gone"

BridgeInv == BridgeTypeOK /\ BuiltInv /\ ContInv /\ OutcomeFaithful

-----------------------------------------------------------------------------

\* The cases that work are those in which no adaptor drops an error.
LEMMA WorkingCasesForward ==
  ASSUME WorkingBridge, NEW c \in Cases
  PROVE  Forwards(c) /\ ErrorsOf(c) \subseteq Errors
<1>1. c.platform \in Platforms /\ c.isVoid \in BOOLEAN /\ c.error \in Errors
  BY BridgeAssumption DEF WorkingBridge
<1>2. c.platform \in {"c", "java", "objc", "wasm", "swift", "valdi"}
  BY <1>1 DEF Platforms, RoundTrip
<1>3. /\ \A a \in {CFromCpp, CToCpp, WasmFromCpp, WasmToCpp} :
           a.forwards = Errors /\ a.gives \in Errors /\ ~a.ignores
      /\ \A a \in {JavaFromCpp, JavaToCpp, ObjcFromCpp, ObjcToCpp, ValdiFromCpp, ValdiToCpp} :
           a.forwards = Errors /\ a.gives \in Errors
      /\ \A a \in {SwiftFromCpp, SwiftToHolder, SwiftHolderToCpp} :
           "own" \in a.forwards /\ a.gives = "own"
  BY DEF Errors, Adaptor, CFromCpp, CToCpp, JavaFromCpp, JavaToCpp, ObjcFromCpp, ObjcToCpp,
     WasmFromCpp, WasmToCpp, ValdiFromCpp, ValdiToCpp, SwiftFromCpp, SwiftToHolder, SwiftHolderToCpp
<1>4. /\ AdaptorsOf("c") = {CFromCpp, CToCpp} /\ AdaptorsOf("wasm") = {WasmFromCpp, WasmToCpp}
      /\ AdaptorsOf("java") = {JavaFromCpp, JavaToCpp}
      /\ AdaptorsOf("objc") = {ObjcFromCpp, ObjcToCpp}
      /\ AdaptorsOf("valdi") = {ValdiFromCpp, ValdiToCpp}
      /\ AdaptorsOf("swift") = {SwiftFromCpp, SwiftToHolder, SwiftHolderToCpp}
  <2>1. /\ RoundTrip["c"] = <<CFromCpp, CToCpp>> /\ RoundTrip["wasm"] = <<WasmFromCpp, WasmToCpp>>
        /\ RoundTrip["java"] = <<JavaFromCpp, JavaToCpp>>
        /\ RoundTrip["objc"] = <<ObjcFromCpp, ObjcToCpp>>
        /\ RoundTrip["valdi"] = <<ValdiFromCpp, ValdiToCpp>>
        /\ RoundTrip["swift"] = <<SwiftFromCpp, SwiftToHolder, SwiftHolderToCpp>>
    BY DEF RoundTrip
  <2>2. \A x, y : {<<x, y>>[i] : i \in DOMAIN <<x, y>>} = {x, y}
    OBVIOUS
  <2>3. \A x, y, z : {<<x, y, z>>[i] : i \in DOMAIN <<x, y, z>>} = {x, y, z}
    OBVIOUS
  <2> QED
    BY <2>1, <2>2, <2>3 DEF AdaptorsOf
<1>5. CASE c.platform = "swift"
  BY <1>1, <1>3, <1>4, <1>5 DEF WorkingBridge, Works, Forwards, ErrorsOf, Errors
<1>6. CASE c.platform # "swift"
  <2>1. \A a \in AdaptorsOf(c.platform) :
          a.forwards = Errors /\ a.gives \in Errors /\ ~(c.isVoid /\ a.ignores)
    BY <1>1, <1>2, <1>3, <1>4, <1>6 DEF WorkingBridge, Works
  <2> QED
    BY <1>1, <2>1 DEF Forwards, ErrorsOf
<1> QED
  BY <1>5, <1>6

\* The adaptors of a chain are taken from the round trip in turn.
LEMMA AdaptorOfStage ==
  ASSUME WorkingBridge, BridgeTypeOK, NEW k \in Stages
  PROVE  Of(k) \in AdaptorsOf(case.platform)
<1>1. Len(Cycle) \in {2, 3} /\ DOMAIN Cycle = 1 .. Len(Cycle)
  <2>1. case.platform \in {"c", "java", "objc", "wasm", "swift", "valdi"}
    BY BridgeAssumption DEF WorkingBridge, BridgeTypeOK, Platforms, RoundTrip
  <2> QED
    BY <2>1 DEF Cycle, RoundTrip
<1>2. k \in Nat /\ k >= 1 /\ start \in Nat
  BY BridgeAssumption DEF WorkingBridge, Stages, BridgeTypeOK
<1>3. ((k + start - 1) % Len(Cycle)) + 1 \in DOMAIN Cycle
  BY <1>1, <1>2
<1> QED
  BY <1>3 DEF Of, AdaptorsOf, Cycle

\* So every error of a chain is forwarded, and none ignored.
LEMMA ErrorsOfStage ==
  ASSUME WorkingBridge, BridgeTypeOK, NEW k \in Stages
  PROVE  /\ Failed(k - 1) => result[k - 1] \in Of(k).forwards
         /\ ~IgnoresError(k)
         /\ Of(k).gives \in ErrorsOf(case)
         /\ ErrorsOf(case) \subseteq Errors
         /\ k - 1 \in 0 .. Length /\ k \in 0 .. Length /\ k \in Nat
         /\ "value" \notin Errors /\ "none" \notin Errors
<1>1. Forwards(case) /\ ErrorsOf(case) \subseteq Errors
  BY WorkingCasesForward DEF BridgeTypeOK
<1>2. Of(k) \in AdaptorsOf(case.platform)
  BY AdaptorOfStage
<1>3. k - 1 \in 0 .. Length /\ k \in 0 .. Length /\ k \in Nat
  BY BridgeAssumption DEF WorkingBridge, Stages
<1>4. "value" \notin Errors /\ "none" \notin Errors
  BY DEF Errors
<1>5. Failed(k - 1) => result[k - 1] \in ErrorsOf(case)
  BY <1>3, <1>4 DEF BridgeTypeOK, Failed
<1> QED
  BY <1>1, <1>2, <1>3, <1>4, <1>5 DEF Forwards, ErrorsOf, IgnoresError

\* Nothing is built in the initial state.
LEMMA InitBridgeInv == ASSUME WorkingBridge, BridgeInit PROVE BridgeInv
<1>1. Length \in Nat \ {0} /\ \A k \in Stages : k >= 1 /\ k \in Nat /\ k - 1 \in 0 .. Length /\ k \in 0 .. Length
  BY BridgeAssumption DEF WorkingBridge, Stages
<1> QED
  BY <1>1 DEF BridgeInit, BridgeInv, BridgeTypeOK, BuiltInv, ContInv, OutcomeFaithful, Failed, Errors, Running

-----------------------------------------------------------------------------
(* Building a stage *)

\* The promise of the next stage comes to life.
LEMMA MakePromiseStep ==
  ASSUME WorkingBridge, BridgeInv, MakePromise
  PROVE  BridgeInv'
<1>1. stage \in Stages /\ \A k \in Stages : k \in Nat
  BY BridgeAssumption DEF WorkingBridge, BridgeInv, BridgeTypeOK, MakePromise, Stages
<1>2. BridgeTypeOK'
  BY <1>1 DEF BridgeInv, BridgeTypeOK, MakePromise
<1>3. BuiltInv' /\ ContInv'
  BY <1>1 DEF BridgeInv, BridgeTypeOK, BuiltInv, ContInv, MakePromise, Failed, Running
<1>4. OutcomeFaithful'
  BY DEF BridgeInv, OutcomeFaithful, MakePromise, Failed
<1> QED
  BY <1>2, <1>3, <1>4 DEF BridgeInv

\* Its continuation is stored, called or posted.
LEMMA RegisterStep ==
  ASSUME WorkingBridge, BridgeInv, Register
  PROVE  BridgeInv'
<1>1. stage \in Stages /\ \A k \in Stages : k \in Nat
  <2>1. \A k \in Stages : k \in Nat
    BY BridgeAssumption DEF WorkingBridge, Stages
  <2> QED
    BY <2>1, BridgeAssumption DEF WorkingBridge, BridgeInv, BridgeTypeOK, BuiltInv, Register, Stages
<1>2. /\ cont[stage] = "none" /\ promise[stage] = "live"
      /\ \/ cont'[stage] = "stored"
         \/ cont'[stage] \in {"called", "posted"} /\ result[stage - 1] # "none"
      /\ \A k \in Stages \ {stage} : cont'[k] = cont[k]
      /\ cont' \in [Stages -> {"none", "stored", "posted", "gone"} \union Running]
      /\ building' = "registered" /\ UNCHANGED <<case, start, stage, result, threw, promise>>
  BY <1>1 DEF BridgeInv, BridgeTypeOK, BuiltInv, Register, Running
<1>3. BridgeTypeOK'
  BY <1>2 DEF BridgeInv, BridgeTypeOK
<1>4. BuiltInv' /\ ContInv'
  BY <1>1, <1>2 DEF BridgeInv, BuiltInv, ContInv, Failed, Running
<1>5. OutcomeFaithful'
  BY <1>2 DEF BridgeInv, OutcomeFaithful, Failed
<1> QED
  BY <1>3, <1>4, <1>5 DEF BridgeInv

\* The stage is built; the next has nothing yet.
LEMMA ReturnFutureStep ==
  ASSUME WorkingBridge, BridgeInv, ReturnFuture
  PROVE  BridgeInv'
<1>1. stage \in Nat /\ \A k \in Stages : k \in Nat
  BY BridgeAssumption DEF WorkingBridge, BridgeInv, BridgeTypeOK, Stages
<1>2. BuiltInv' /\ ContInv' /\ OutcomeFaithful'
  BY <1>1 DEF BridgeInv, BuiltInv, ContInv, OutcomeFaithful, ReturnFuture, Failed, Running
<1>3. stage' \in 1 .. Length + 1
  BY BridgeAssumption DEF WorkingBridge, Stages, ReturnFuture, BridgeInv, BridgeTypeOK
<1>4. BridgeTypeOK'
  BY <1>3 DEF BridgeInv, BridgeTypeOK, ReturnFuture
<1> QED
  BY <1>2, <1>4 DEF BridgeInv

-----------------------------------------------------------------------------
(* Resolving *)

\* A state that has none receives a result that follows from the one before.
LEMMA UpdateStep ==
  ASSUME WorkingBridge, BridgeInv, NEW k \in 0 .. Length, NEW r, NEW t,
         r \in {"value"} \union ErrorsOf(case), ErrorsOf(case) \subseteq Errors,
         result[k] = "none", Update(k, r, t),
         UNCHANGED <<case, start, stage, building, threw, promise>>,
         k \in Stages => /\ cont[k] \in {"called", "refused"}
                         /\ r = "value" => result[k - 1] = "value"
                         /\ r \in Errors => Failed(k - 1) \/ threw[k]
  PROVE  BridgeInv'
<1>1. /\ Length \in Nat /\ k \in Nat
      /\ \A j \in Stages : j \in Nat /\ j >= 1 /\ j \in 0 .. Length /\ j - 1 \in 0 .. Length
      /\ k + 1 \in Stages <=> k < Length
      /\ r # "none"
  BY BridgeAssumption DEF WorkingBridge, Stages, Errors
<1>2. /\ result' = [result EXCEPT ![k] = r] /\ result'[k] = r
      /\ \A j \in 0 .. Length : j # k => result'[j] = result[j]
      /\ result' \in [0 .. Length -> {"none", "value"} \union ErrorsOf(case)]
  BY DEF Update, BridgeInv, BridgeTypeOK
<1>3. \A j \in Stages :
        /\ j = k => cont'[j] \in {"nesting", "returning"}
        /\ j = k + 1 /\ cont[j] = "stored" => cont'[j] \in {"called", "posted"}
        /\ j # k /\ ~(j = k + 1 /\ cont[j] = "stored") => cont'[j] = cont[j]
  BY <1>1 DEF Update
<1>4. \A j \in Stages : j = k + 1 => cont[j] \in {"none", "stored"} /\ result[j] = "none"
  BY <1>1 DEF BridgeInv, ContInv
<1>5. cont' \in [Stages -> {"none", "stored", "posted", "gone"} \union Running]
  BY <1>3 DEF BridgeInv, BridgeTypeOK, Update, Running
<1>6. BridgeTypeOK'
  BY <1>2, <1>5 DEF BridgeInv, BridgeTypeOK
<1>7. BuiltInv'
  BY <1>1, <1>3 DEF BridgeInv, BuiltInv
<1>8. \A j \in Stages : j # k + 1 => result'[j - 1] = result[j - 1]
  BY <1>1, <1>2
<1>9. ContInv'
  <2> SUFFICES ASSUME NEW j \in Stages
               PROVE  /\ cont'[j] \notin {"none", "stored"} => result'[j - 1] # "none"
                      /\ result'[j] # "none" <=> cont'[j] \in {"nesting", "returning", "gone"}
                      /\ cont'[j] = "refused" => Failed(j - 1)' \/ threw'[j]
                      /\ cont'[j] \in {"stored", "posted"} \union Running => promise'[j] = "live"
                      /\ promise'[j] = "freed" => cont'[j] = "gone"
    BY DEF ContInv
  <2>1. CASE j = k
    BY <1>1, <1>2, <1>3, <1>8, <2>1 DEF BridgeInv, ContInv, Running
  <2>2. CASE j = k + 1
    <3>1. result'[j - 1] = r /\ result'[j] = "none" /\ j # k
      BY <1>1, <1>2, <1>4, <2>2
    <3> QED
      BY <1>1, <1>3, <1>4, <2>2, <3>1 DEF BridgeInv, ContInv, Running
  <2>3. CASE j # k /\ j # k + 1
    BY <1>1, <1>2, <1>3, <1>8, <2>3 DEF BridgeInv, ContInv, Failed
  <2> QED
    BY <2>1, <2>2, <2>3
<1>10. OutcomeFaithful'
  <2> SUFFICES ASSUME NEW j \in Stages
               PROVE  /\ result'[j] = "value" => result'[j - 1] = "value"
                      /\ Failed(j)' => Failed(j - 1)' \/ threw'[j]
    BY DEF OutcomeFaithful
  <2>1. CASE j = k
    BY <1>1, <1>2, <1>8, <2>1 DEF Failed
  <2>2. CASE j = k + 1
    BY <1>1, <1>2, <1>4, <2>2 DEF Failed, Errors
  <2>3. CASE j # k /\ j # k + 1
    BY <1>1, <1>2, <1>8, <2>3 DEF BridgeInv, OutcomeFaithful, Failed
  <2> QED
    BY <2>1, <2>2, <2>3
<1> QED
  BY <1>6, <1>7, <1>9, <1>10 DEF BridgeInv

\* State 0 has no stage to disagree with.
LEMMA ResolveSourceStep ==
  ASSUME WorkingBridge, BridgeInv, NEW r \in {"value", case.error}, ResolveSource(r)
  PROVE  BridgeInv'
<1>1. ErrorsOf(case) \subseteq Errors
  BY WorkingCasesForward DEF BridgeInv, BridgeTypeOK
<1>2. r \in {"value"} \union ErrorsOf(case)
  BY DEF ErrorsOf
<1>3. 0 \in 0 .. Length /\ 0 \notin Stages
  BY BridgeAssumption DEF WorkingBridge, Stages
<1>4. PICK t : Update(0, r, t)
  BY DEF ResolveSource
<1> QED
  BY <1>1, <1>2, <1>3, <1>4, UpdateStep DEF ResolveSource, built

\* A value follows from a value, as no adaptor ignores an error.
LEMMA PassValueStep ==
  ASSUME WorkingBridge, BridgeInv, NEW k \in Stages, PassValue(k)
  PROVE  BridgeInv'
<1>1. /\ ErrorsOf(case) \subseteq Errors /\ k \in 0 .. Length
      /\ ~IgnoresError(k) /\ "value" \notin Errors
  BY ErrorsOfStage DEF BridgeInv
<1>2. result[k] = "none"
  BY DEF BridgeInv, ContInv, PassValue
<1> QED
  BY <1>1, <1>2, UpdateStep DEF PassValue, built

\* An error follows from an error or from a conversion that failed.
LEMMA PassErrorStep ==
  ASSUME WorkingBridge, BridgeInv, NEW k \in Stages, PassError(k)
  PROVE  BridgeInv'
<1>1. /\ ErrorsOf(case) \subseteq Errors /\ k \in 0 .. Length
      /\ Of(k).gives \in ErrorsOf(case) /\ "value" \notin Errors
  BY ErrorsOfStage DEF BridgeInv
<1>2. result[k] = "none" /\ (Failed(k - 1) \/ threw[k])
  BY DEF BridgeInv, ContInv, PassError
<1> QED
  BY <1>1, <1>2, UpdateStep DEF PassError, built

\* Steps of a continuation that resolve nothing.
LEMMA DeliverStep ==
  ASSUME WorkingBridge, BridgeInv, NEW k \in Stages, Deliver(k)
  PROVE  BridgeInv'
<1>1. BridgeTypeOK' /\ BuiltInv' /\ ContInv' /\ OutcomeFaithful'
  BY DEF Deliver, built, BridgeInv, BridgeTypeOK, BuiltInv, ContInv, OutcomeFaithful, Failed, Running
<1> QED
  BY <1>1 DEF BridgeInv

\* Every error that comes up is one the adaptor forwards.
LEMMA RefuseStep ==
  ASSUME WorkingBridge, BridgeInv, NEW k \in Stages, Refuse(k)
  PROVE  BridgeInv'
<1>1. Failed(k - 1) => result[k - 1] \in Of(k).forwards
  BY ErrorsOfStage DEF BridgeInv
<1>2. /\ cont' = [cont EXCEPT ![k] = "refused"]
      /\ threw' = [threw EXCEPT ![k] = result[k - 1] = "value"]
      /\ Failed(k - 1) \/ result[k - 1] = "value"
      /\ cont[k] = "called"
      /\ UNCHANGED <<built, result, promise>>
  BY <1>1 DEF Refuse
<1>3. BridgeTypeOK' /\ BuiltInv' /\ ContInv'
  BY <1>2 DEF built, BridgeInv, BridgeTypeOK, BuiltInv, ContInv, Failed, Running
<1>4. OutcomeFaithful'
  BY <1>2, ErrorsOfStage DEF BridgeInv, BridgeTypeOK, ContInv, OutcomeFaithful, Failed
<1> QED
  BY <1>3, <1>4 DEF BridgeInv

\* A continuation that returns has resolved its promise, which dies with it.
LEMMA FinishStep ==
  ASSUME WorkingBridge, BridgeInv, NEW k \in Stages, Finish(k)
  PROVE  BridgeInv'
<1>1. cont[k] = "returning" /\ result[k] # "none" /\ promise[k] = "live"
  BY DEF BridgeInv, ContInv, Finish, Running
<1>2. /\ promise' = [promise EXCEPT ![k] = "freed"]
      /\ \A j \in Stages :
           /\ j = k => cont'[j] = "gone"
           /\ j # k => \/ cont'[j] = cont[j]
                       \/ cont[j] = "nesting" /\ cont'[j] = "returning"
      /\ cont' = Returned(k) /\ UNCHANGED <<built, result, threw>>
  BY <1>1 DEF Finish, Returned
<1>3. cont' \in [Stages -> {"none", "stored", "posted", "gone"} \union Running]
  BY <1>2 DEF Returned, BridgeInv, BridgeTypeOK, Running
<1>4. BridgeTypeOK' /\ BuiltInv'
  BY <1>1, <1>2, <1>3 DEF built, BridgeInv, BridgeTypeOK, BuiltInv
<1>5. ContInv'
  BY <1>1, <1>2 DEF BridgeInv, BridgeTypeOK, ContInv, Failed, Running
<1>6. OutcomeFaithful'
  BY <1>2 DEF BridgeInv, OutcomeFaithful, Failed
<1> QED
  BY <1>4, <1>5, <1>6 DEF BridgeInv

-----------------------------------------------------------------------------

\* The inductive invariant holds in every behaviour.
THEOREM BridgeInvariance == ASSUME WorkingBridge PROVE BridgeSpec => []BridgeInv
<1>1. BridgeInit => BridgeInv
  BY InitBridgeInv
<1>2. BridgeInv /\ [BridgeNext]_bridgeVars => BridgeInv'
  <2> SUFFICES ASSUME BridgeInv, [BridgeNext]_bridgeVars PROVE BridgeInv'
    OBVIOUS
  <2>1. CASE UNCHANGED bridgeVars
    BY <2>1 DEF bridgeVars, built, BridgeInv, BridgeTypeOK, BuiltInv, ContInv, OutcomeFaithful, Failed
  <2>2. CASE MakePromise \/ Translate
    BY <2>2, MakePromiseStep, RegisterStep, ReturnFutureStep DEF Translate
  <2>3. CASE \E r \in {"value", case.error} : ResolveSource(r)
    BY <2>3, ResolveSourceStep
  <2>4. ASSUME NEW k \in Stages, StageRuns(k) PROVE BridgeInv'
    BY <2>4, DeliverStep, PassValueStep, RefuseStep, PassErrorStep, FinishStep DEF StageRuns
  <2> QED
    BY <2>1, <2>2, <2>3, <2>4 DEF BridgeNext
<1> QED
  BY <1>1, <1>2, PTL DEF BridgeSpec

\* A value stays a value and an exception an exception, however often they
\* change language, as long as no adaptor drops an error.
THEOREM OutcomesStayFaithful == ASSUME WorkingBridge PROVE BridgeSpec => []OutcomeFaithful
<1>1. BridgeInv => OutcomeFaithful
  BY DEF BridgeInv
<1> QED
  BY <1>1, BridgeInvariance, PTL

\* The promise object of every stage lives as long as its continuation, and is
\* freed resolved.
THEOREM PromisesFreedOnceSet == ASSUME WorkingBridge PROVE BridgeSpec => []FreedOnlyOnceSet
<1>1. BridgeInv => FreedOnlyOnceSet
  BY DEF BridgeInv, ContInv, FreedOnlyOnceSet
<1> QED
  BY <1>1, BridgeInvariance, PTL
=============================================================================
