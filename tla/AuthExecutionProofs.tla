------------------------ MODULE AuthExecutionProofs ------------------------
(* Theorems about AuthExecution, for every value of its constants. *)
EXTENDS AuthExecution, FiniteSetTheorems, TLAPS

\* A request between the choice of a credential and the end of its recording.
Holding == {"claim", "call", "upstream", "mark", "markState", "markMeta",
            "okState", "okMeta"}

\* What the properties rest on.  A request that holds a credential holds a real
\* one, a position in the order is positive and points to a provider inside a
\* pass, a success is never mistaken for an error, and the credential that a
\* call is about to use has not been used in this pass.
Local ==
  \A r \in Request :
    /\ pc[r] \in Holding => auth[r] \in Auth
    /\ pc[r] = "provider" => idx[r] >= 1
    /\ pc[r] \in Holding \cup {"pick"} => Current(r) \in Provider
    /\ answer[r] = "ok" => pc[r] \in {"okState", "okMeta"}
    /\ pc[r] = "claim" => auth[r] \notin tried[r]
    /\ \A a \in Auth : a \notin tried[r] => calls[r][a] = 0
    /\ pc[r] = "call" => auth[r] \in tried[r] /\ calls[r][auth[r]] = 0

IndInv == TypeOK /\ Local /\ OneCallPerAuth /\ ActiveNeverUnder

-----------------------------------------------------------------------------
(* The breaker's operations keep it a breaker                              *)

LEMMA NewBreakerType == NewBreaker \in Breaker
BY DEF NewBreaker, Breaker, BreakerStates

LEMMA BreakerFields ==
  ASSUME NEW b \in Breaker
  PROVE  /\ b.state \in BreakerStates
         /\ b.gen \in Nat /\ b.gen + 1 \in Nat
         /\ b.requests \in Nat /\ b.requests + 1 \in Nat
         /\ b.failures \in Nat /\ b.failures + 1 \in Nat
         /\ b.consecFailures \in Nat /\ b.consecFailures + 1 \in Nat
         /\ b.consecSuccesses \in Nat /\ b.consecSuccesses + 1 \in Nat
BY DEF Breaker

LEMMA NewGenerationType ==
  ASSUME NEW b \in Breaker, NEW t \in BreakerStates
  PROVE  NewGeneration(b, t) \in Breaker
BY BreakerFields DEF NewGeneration, NewBreaker, Breaker

LEMMA BreakerOps ==
  ASSUME NEW b \in Breaker, NEW g, NEW s \in BOOLEAN
  PROVE  /\ CountRequest(b) \in Breaker
         /\ Report(b, g, s) \in Breaker
         /\ ClockExpired(b) \in Breaker
<1>1. {"closed", "open", "half"} = BreakerStates
  BY DEF BreakerStates
<1>2. CountRequest(b) \in Breaker
  BY BreakerFields DEF CountRequest, Breaker
<1>3. OnSuccess(b) \in Breaker
  <2> DEFINE c == [b EXCEPT !.consecSuccesses = @ + 1, !.consecFailures = 0]
  <2>1. c \in Breaker
    BY BreakerFields DEF Breaker
  <2>2. NewGeneration(b, "closed") \in Breaker
    BY <1>1, NewGenerationType
  <2> QED
    BY <2>1, <2>2 DEF OnSuccess
<1>4. OnFailure(b) \in Breaker
  <2> DEFINE c == [b EXCEPT !.failures = @ + 1, !.consecFailures = @ + 1, !.consecSuccesses = 0]
  <2>1. c \in Breaker
    BY BreakerFields DEF Breaker
  <2>2. NewGeneration(b, "open") \in Breaker
    BY <1>1, NewGenerationType
  <2> QED
    BY <2>1, <2>2 DEF OnFailure
<1>5. Report(b, g, s) \in Breaker
  BY <1>3, <1>4 DEF Report
<1>6. ClockExpired(b) \in Breaker
  <2>1. NewGeneration(b, "closed") \in Breaker /\ NewGeneration(b, "half") \in Breaker
    BY <1>1, NewGenerationType
  <2> QED
    BY <2>1 DEF ClockExpired
<1> QED
  BY <1>2, <1>5, <1>6

LEMMA OrderingType ==
  ASSUME NEW S \in SUBSET Provider, NEW f \in Orderings(S)
  PROVE  f \in Seq(Provider)
<1>1. Cardinality(S) \in Nat
  BY ExecutionAssumption, FS_Subset, FS_CardinalityType
<1> QED
  BY <1>1 DEF Orderings

LEMMA OrderType ==
  ASSUME NEW o \in SelectProviders
  PROVE  o \in Seq(Provider)
BY OrderingType DEF SelectProviders

-----------------------------------------------------------------------------
(* The requests that load a credential                                     *)

LEMMA InFlightFinite ==
  ASSUME NEW a \in Auth
  PROVE  /\ IsFiniteSet(InFlight(a)) /\ Cardinality(InFlight(a)) \in Nat
         /\ IsFiniteSet(InFlight(a)') /\ Cardinality(InFlight(a)') \in Nat
<1>1. InFlight(a) \in SUBSET Request /\ InFlight(a)' \in SUBSET Request
  BY DEF InFlight
<1> QED
  BY <1>1, ExecutionAssumption, FS_Subset, FS_CardinalityType

\* A step that leaves the counters alone and adds no request keeps the bound.
LEMMA FewerInFlight ==
  ASSUME ActiveNeverUnder, TypeOK, active' = active,
         \A a \in Auth : InFlight(a)' \subseteq InFlight(a)
  PROVE  ActiveNeverUnder'
<1> SUFFICES ASSUME NEW a \in Auth
             PROVE  Cardinality(InFlight(a))' <= active[a]'
  BY DEF ActiveNeverUnder
<1>1. Cardinality(InFlight(a)') <= Cardinality(InFlight(a))
  BY InFlightFinite, FS_Subset
<1>2. Cardinality(InFlight(a)) <= active[a] /\ active[a] \in Nat
  BY DEF ActiveNeverUnder, TypeOK
<1> QED
  BY <1>1, <1>2, InFlightFinite

-----------------------------------------------------------------------------

\* executeWithProvider returning with an error keeps everything in order.
LEMMA Leaving ==
  ASSUME TypeOK, Local, OneCallPerAuth,
         NEW r \in Request, NEW e \in PassError, LeaveProvider(r, e), order' = order
  PROVE  /\ /\ pc' \in [Request -> Steps]
            /\ idx' \in [Request -> Nat]
            /\ tried' \in [Request -> SUBSET Auth]
            /\ auth' \in [Request -> Auth \cup {NoAuth}]
            /\ answer' \in [Request -> {"none"} \cup Outcome \cup Refusal]
            /\ err' \in [Request -> PassError]
            /\ calls' \in [Request -> [Auth -> Nat]]
         /\ Local'
         /\ OneCallPerAuth'
         /\ \A a \in Auth : InFlight(a)' \subseteq InFlight(a)
<1>1. /\ pc' = [pc EXCEPT ![r] = "provider"]
      /\ idx' = [idx EXCEPT ![r] = @ + 1]
      /\ tried' = [tried EXCEPT ![r] = {}]
      /\ auth' = [auth EXCEPT ![r] = NoAuth]
      /\ answer' = [answer EXCEPT ![r] = "none"]
      /\ err' = [err EXCEPT ![r] = e]
      /\ calls' = [calls EXCEPT ![r] = NoCalls]
  BY DEF LeaveProvider, ForgetPass, Fail, Goto
<1>2. NoCalls \in [Auth -> Nat] /\ \A a \in Auth : NoCalls[a] = 0
  BY DEF NoCalls
<1>3. idx[r] \in Nat
  BY DEF TypeOK
<1>4. \A q \in Request \ {r} :
        /\ pc'[q] = pc[q] /\ idx'[q] = idx[q] /\ tried'[q] = tried[q]
        /\ auth'[q] = auth[q] /\ answer'[q] = answer[q] /\ calls'[q] = calls[q]
        /\ order'[q] = order[q]
  BY <1>1 DEF TypeOK
<1>5. /\ pc'[r] = "provider" /\ idx'[r] >= 1 /\ tried'[r] = {}
      /\ answer'[r] = "none" /\ calls'[r] = NoCalls
  BY <1>1, <1>3 DEF TypeOK
<1>6. /\ pc' \in [Request -> Steps]
      /\ idx' \in [Request -> Nat]
      /\ tried' \in [Request -> SUBSET Auth]
      /\ auth' \in [Request -> Auth \cup {NoAuth}]
  BY <1>1, <1>3 DEF TypeOK, Steps
<1>7. /\ answer' \in [Request -> {"none"} \cup Outcome \cup Refusal]
      /\ err' \in [Request -> PassError]
      /\ calls' \in [Request -> [Auth -> Nat]]
  BY <1>1, <1>2 DEF TypeOK
<1>8. Local'
  BY <1>2, <1>4, <1>5 DEF Local, Holding, Current
<1>9. OneCallPerAuth'
  BY <1>2, <1>4, <1>5 DEF OneCallPerAuth
<1>10. \A a \in Auth : InFlight(a)' \subseteq InFlight(a)
  BY <1>4, <1>5 DEF InFlight
<1> QED
  BY <1>6, <1>7, <1>8, <1>9, <1>10

LEMMA InitInv == Init => IndInv
<1> SUFFICES ASSUME Init PROVE IndInv
  OBVIOUS
<1>1. TypeOK
  <2>1. /\ breaker \in [Provider -> Breaker]
        /\ order \in [Request -> Seq(Provider)]
        /\ attempt \in [Request -> 0..RequestRetry]
    BY NewBreakerType, ExecutionAssumption DEF Init
  <2>2. /\ active \in [Auth -> Nat]
        /\ blocked \in [Auth -> BOOLEAN]
        /\ metaStatus \in [Auth -> {"active", "error", "disabled"}]
        /\ disabled \in [Auth -> BOOLEAN]
        /\ legacyDisabled \in [Auth -> BOOLEAN]
        /\ pc \in [Request -> Steps]
    BY DEF Init, Steps
  <2>3. /\ idx \in [Request -> Nat]
        /\ tried \in [Request -> SUBSET Auth]
        /\ auth \in [Request -> Auth \cup {NoAuth}]
        /\ gen \in [Request -> Nat]
        /\ calls \in [Request -> [Auth -> Nat]]
    BY DEF Init, NoCalls
  <2>4. /\ answer \in [Request -> {"none"} \cup Outcome \cup Refusal]
        /\ err \in [Request -> PassError]
    BY DEF Init, PassError
  <2> QED
    BY <2>1, <2>2, <2>3, <2>4 DEF TypeOK
<1>2. Local /\ OneCallPerAuth
  BY DEF Init, Local, OneCallPerAuth, Holding, NoCalls
<1>3. ActiveNeverUnder
  <2> SUFFICES ASSUME NEW a \in Auth PROVE Cardinality(InFlight(a)) <= active[a]
    BY DEF ActiveNeverUnder
  <2>1. InFlight(a) = {}
    BY DEF Init, InFlight
  <2> QED
    BY <2>1, FS_EmptySet DEF Init
<1> QED
  BY <1>1, <1>2, <1>3 DEF IndInv

LEMMA StepInv == IndInv /\ [Next]_vars => IndInv'
<1> SUFFICES ASSUME IndInv, [Next]_vars PROVE IndInv'
  OBVIOUS
<1>t. TypeOK /\ Local /\ OneCallPerAuth /\ ActiveNeverUnder
  BY DEF IndInv
<1> USE DEF Goto, Fail, shared, local
<1>1. ASSUME NEW r \in Request, Begin(r) PROVE IndInv'
  <2>1. TypeOK'
    BY <1>t, <1>1, OrderType DEF TypeOK, Begin, Steps
  <2>2. Local' /\ OneCallPerAuth'
    BY <1>t, <1>1 DEF TypeOK, Local, OneCallPerAuth, Begin, Holding, Current
  <2>3. \A a \in Auth : InFlight(a)' \subseteq InFlight(a)
    BY <1>t, <1>1 DEF TypeOK, Begin, InFlight
  <2>4. ActiveNeverUnder'
    BY <1>t, <1>1, <2>3, FewerInFlight DEF Begin
  <2> QED
    BY <2>1, <2>2, <2>4 DEF IndInv
<1>2. ASSUME NEW r \in Request, EnterProvider(r) PROVE IndInv'
  <2>1. /\ pc[r] = "provider"
        /\ UNCHANGED <<breaker, active, blocked, metaStatus, disabled,
                       legacyDisabled, order, gen, attempt>>
    BY <1>2 DEF EnterProvider
  <2>2. CASE LeaveProvider(r, "circuit_open")
    <3>1. "circuit_open" \in PassError
      BY DEF PassError
    <3> QED
      BY <1>t, <2>1, <2>2, <3>1, Leaving, FewerInFlight DEF IndInv, TypeOK
  <2>3. CASE ~LeaveProvider(r, "circuit_open")
    <3>1. /\ pc' \in {[pc EXCEPT ![r] = "decide"], [pc EXCEPT ![r] = "pick"]}
          /\ pc'[r] = "pick" => idx[r] <= Len(order[r])
          /\ UNCHANGED <<idx, tried, auth, answer, err, calls>>
      BY <1>t, <1>2, <2>3 DEF EnterProvider, TypeOK
    <3>2. pc'[r] = "pick" => Current(r) \in Provider
      BY <1>t, <2>1, <3>1 DEF Local, TypeOK, Current
    <3>3. TypeOK'
      BY <1>t, <2>1, <3>1 DEF TypeOK, Steps
    <3>4. Local' /\ OneCallPerAuth'
      BY <1>t, <2>1, <3>1, <3>2 DEF TypeOK, Local, OneCallPerAuth, Holding, Current
    <3>5. \A a \in Auth : InFlight(a)' \subseteq InFlight(a)
      BY <1>t, <2>1, <3>1 DEF TypeOK, InFlight
    <3> QED
      BY <1>t, <2>1, <3>3, <3>4, <3>5, FewerInFlight DEF IndInv
  <2> QED
    BY <2>2, <2>3
<1>3. ASSUME NEW r \in Request, Pick(r) PROVE IndInv'
  <2>1. /\ pc[r] = "pick" /\ Current(r) \in Provider
        /\ UNCHANGED <<breaker, active, blocked, metaStatus, disabled,
                       legacyDisabled, order, gen, attempt>>
    BY <1>t, <1>3 DEF Pick, Local
  <2>2. ASSUME NEW e \in {answer[r], "cooldown", "unavailable"},
               answer[r] = "none" => e # "none", LeaveProvider(r, e)
        PROVE  IndInv'
    <3>1. e \in PassError
      <4>1. answer[r] \in {"none"} \cup Outcome \cup Refusal /\ answer[r] # "ok"
        BY <1>t, <2>1 DEF TypeOK, Local
      <4> QED
        BY <2>2, <4>1 DEF PassError
    <3> QED
      BY <1>t, <2>1, <2>2, <3>1, Leaving, FewerInFlight DEF IndInv, TypeOK
  <2>3. ASSUME NEW a \in Auth \ tried[r], auth' = [auth EXCEPT ![r] = a],
               pc' = [pc EXCEPT ![r] = "claim"],
               UNCHANGED <<idx, tried, answer, err, calls>>
        PROVE  IndInv'
    <3>1. TypeOK'
      BY <1>t, <2>1, <2>3 DEF TypeOK, Steps
    <3>2. Local' /\ OneCallPerAuth'
      BY <1>t, <2>1, <2>3 DEF TypeOK, Local, OneCallPerAuth, Holding, Current
    <3>3. \A c \in Auth : InFlight(c)' \subseteq InFlight(c)
      BY <1>t, <2>1, <2>3 DEF TypeOK, InFlight
    <3> QED
      BY <1>t, <2>1, <3>1, <3>2, <3>3, FewerInFlight DEF IndInv
  <2>4. \/ \E e \in {answer[r], "cooldown", "unavailable"} :
             (answer[r] = "none" => e # "none") /\ LeaveProvider(r, e)
        \/ \E a \in Auth \ tried[r] :
             /\ auth' = [auth EXCEPT ![r] = a]
             /\ pc' = [pc EXCEPT ![r] = "claim"]
             /\ UNCHANGED <<idx, tried, answer, err, calls>>
    BY <1>3, Zenon DEF Pick
  <2> QED
    BY <2>2, <2>3, <2>4
<1>4. ASSUME NEW r \in Request, Claim(r) PROVE IndInv'
  <2>0. auth[r] \in Auth /\ Current(r) \in Provider
    BY <1>t, <1>4 DEF Local, Claim, Holding
  <2>1. TypeOK'
    BY <1>t, <1>4, <2>0 DEF TypeOK, Claim, Steps
  <2>2. Local' /\ OneCallPerAuth'
    BY <1>t, <1>4, <2>0 DEF TypeOK, Local, OneCallPerAuth, Claim, Holding, Current
  <2>3. ActiveNeverUnder'
    <3> SUFFICES ASSUME NEW a \in Auth
                 PROVE  Cardinality(InFlight(a))' <= active[a]'
      BY DEF ActiveNeverUnder
    <3>1. Cardinality(InFlight(a)) <= active[a] /\ active[a] \in Nat
      BY <1>t DEF ActiveNeverUnder, TypeOK
    <3>2. CASE a = auth[r]
      <4>1. InFlight(a)' = InFlight(a) \cup {r} /\ r \notin InFlight(a)
        BY <1>t, <1>4, <3>2 DEF TypeOK, Claim, InFlight
      <4>2. Cardinality(InFlight(a)') = Cardinality(InFlight(a)) + 1
        BY <4>1, InFlightFinite, FS_AddElement
      <4>3. active[a]' = active[a] + 1
        BY <1>t, <1>4, <3>2 DEF TypeOK, Claim
      <4> QED
        BY <3>1, <4>2, <4>3, InFlightFinite
    <3>3. CASE a # auth[r]
      <4>1. InFlight(a)' = InFlight(a) /\ active[a]' = active[a]
        BY <1>t, <1>4, <3>3 DEF TypeOK, Claim, InFlight
      <4> QED
        BY <3>1, <4>1
    <3> QED
      BY <3>2, <3>3
  <2> QED
    BY <2>1, <2>2, <2>3 DEF IndInv
<1>5. ASSUME NEW r \in Request, StartCall(r) PROVE IndInv'
  <2>1. /\ auth[r] \in Auth /\ Current(r) \in Provider
        /\ pc[r] = "call" /\ calls[r][auth[r]] = 0
    BY <1>t, <1>5 DEF Local, StartCall, Holding
  <2>2. UNCHANGED <<active, blocked, metaStatus, disabled, legacyDisabled, order,
                    idx, tried, auth, err, attempt>>
    BY <1>5 DEF StartCall
  <2>3. breaker[Current(r)] \in Breaker
    BY <1>t, <2>1 DEF TypeOK
  <2>4. CASE Admits(breaker[Current(r)])
    <3>1. /\ breaker' = [breaker EXCEPT ![Current(r)] = CountRequest(breaker[Current(r)])]
          /\ gen' = [gen EXCEPT ![r] = breaker[Current(r)].gen]
          /\ calls' = [calls EXCEPT ![r][auth[r]] = @ + 1]
          /\ pc' = [pc EXCEPT ![r] = "upstream"]
          /\ answer' = answer
      BY <1>5, <2>4 DEF StartCall
    <3>2. /\ breaker' \in [Provider -> Breaker]
          /\ breaker[Current(r)].gen \in Nat
      BY <1>t, <2>3, <3>1, BreakerOps DEF TypeOK, Breaker
    <3>3. calls' \in [Request -> [Auth -> Nat]]
      BY <1>t, <2>1, <3>1 DEF TypeOK
    <3>4. TypeOK'
      BY <1>t, <2>2, <3>1, <3>2, <3>3 DEF TypeOK, Steps
    <3>5. /\ \A a \in Auth : calls'[r][a] = IF a = auth[r] THEN 1 ELSE calls[r][a]
          /\ \A q \in Request \ {r} : calls'[q] = calls[q]
      BY <1>t, <2>1, <3>1 DEF TypeOK
    <3>6. auth[r] \in tried[r]
      BY <1>t, <2>1 DEF Local
    <3>7. Local' /\ OneCallPerAuth'
      BY <1>t, <2>1, <2>2, <3>1, <3>5, <3>6 DEF TypeOK, Local, OneCallPerAuth, Holding, Current
    <3>8. \A a \in Auth : InFlight(a)' \subseteq InFlight(a)
      BY <1>t, <2>1, <2>2, <3>1 DEF TypeOK, InFlight
    <3> QED
      BY <1>t, <2>2, <3>4, <3>7, <3>8, FewerInFlight DEF IndInv
  <2>5. CASE ~Admits(breaker[Current(r)])
    <3>1. /\ \E e \in Refusal : answer' = [answer EXCEPT ![r] = e]
          /\ pc' = [pc EXCEPT ![r] = "mark"]
          /\ UNCHANGED <<breaker, gen, calls>>
      BY <1>5, <2>5 DEF StartCall, Refusal
    <3>2. TypeOK'
      BY <1>t, <2>2, <3>1 DEF TypeOK, Steps
    <3>3. Local' /\ OneCallPerAuth'
      BY <1>t, <2>1, <2>2, <3>1 DEF TypeOK, Local, OneCallPerAuth, Holding, Current, Refusal
    <3>4. \A a \in Auth : InFlight(a)' \subseteq InFlight(a)
      BY <1>t, <2>1, <2>2, <3>1 DEF TypeOK, InFlight
    <3> QED
      BY <1>t, <2>2, <3>2, <3>3, <3>4, FewerInFlight DEF IndInv
  <2> QED
    BY <2>4, <2>5
<1>6. ASSUME NEW r \in Request, Return(r) PROVE IndInv'
  <2>0. auth[r] \in Auth /\ Current(r) \in Provider
    BY <1>t, <1>6 DEF Local, Return, Holding
  <2>1. PICK o \in Answers :
          /\ Settle(r, o)
          /\ CASE o = "canceled" -> LeaveProvider(r, "canceled")
               [] o = "notready" -> /\ Goto(r, "pick")
                                    /\ auth' = [auth EXCEPT ![r] = NoAuth]
                                    /\ UNCHANGED <<idx, tried, answer, err, calls>>
               [] OTHER -> /\ answer' = [answer EXCEPT ![r] = o]
                           /\ Goto(r, IF o = "ok" THEN "okState" ELSE "mark")
                           /\ UNCHANGED <<idx, tried, auth, err, calls>>
    BY <1>6 DEF Return
  <2>2. o \in Outcome
    BY ExecutionAssumption
  <2>3. breaker' \in [Provider -> Breaker]
    <3>1. Report(breaker[Current(r)], gen[r], IsSuccessful(o)) \in Breaker
      <4>1. breaker[Current(r)] \in Breaker
        BY <1>t, <2>0 DEF TypeOK
      <4>2. IsSuccessful(o) \in BOOLEAN
        BY DEF IsSuccessful
      <4> QED
        BY <4>1, <4>2, BreakerOps
    <3> QED
      BY <1>t, <2>1, <3>1 DEF TypeOK, Settle
  <2>4. /\ UNCHANGED <<active, blocked, metaStatus, disabled, legacyDisabled, order, attempt>>
        /\ gen' = [gen EXCEPT ![r] = 0]
        /\ pc[r] = "upstream"
    BY <1>6 DEF Return
  <2>5. CASE o = "canceled"
    <3>1. "canceled" \in PassError
      BY DEF PassError, Outcome
    <3>2. LeaveProvider(r, "canceled")
      BY <2>1, <2>5
    <3>3. gen' \in [Request -> Nat]
      BY <1>t, <2>4 DEF TypeOK
    <3> QED
      BY <1>t, <2>3, <2>4, <3>1, <3>2, <3>3, Leaving, FewerInFlight DEF IndInv, TypeOK
  <2>6. CASE o = "notready"
    <3>1. TypeOK'
      BY <1>t, <2>1, <2>3, <2>4, <2>6 DEF TypeOK, Steps, NoAuth
    <3>2. Local' /\ OneCallPerAuth'
      BY <1>t, <2>0, <2>1, <2>4, <2>6 DEF TypeOK, Local, OneCallPerAuth, Holding, Current
    <3>3. \A a \in Auth : InFlight(a)' \subseteq InFlight(a)
      BY <1>t, <2>1, <2>4, <2>6 DEF TypeOK, InFlight
    <3> QED
      BY <1>t, <2>4, <3>1, <3>2, <3>3, FewerInFlight DEF IndInv
  <2>7. CASE o \notin {"canceled", "notready"}
    <3>0. /\ answer' = [answer EXCEPT ![r] = o]
          /\ Goto(r, IF o = "ok" THEN "okState" ELSE "mark")
          /\ UNCHANGED <<idx, tried, auth, err, calls>>
      BY <2>1, <2>7
    <3>1. TypeOK'
      BY <1>t, <2>2, <2>3, <2>4, <3>0 DEF TypeOK, Steps
    <3>2. Local' /\ OneCallPerAuth'
      BY <1>t, <2>0, <2>4, <3>0 DEF TypeOK, Local, OneCallPerAuth, Holding, Current
    <3>3. \A a \in Auth : InFlight(a)' \subseteq InFlight(a)
      BY <1>t, <2>4, <3>0 DEF TypeOK, InFlight
    <3> QED
      BY <1>t, <2>4, <3>1, <3>2, <3>3, FewerInFlight DEF IndInv
  <2> QED
    BY <2>5, <2>6, <2>7
<1>7. ASSUME NEW r \in Request, MarkDecrement(r) PROVE IndInv'
  <2>0. auth[r] \in Auth /\ Current(r) \in Provider
    BY <1>t, <1>7 DEF Local, MarkDecrement, Holding
  <2>a. /\ active' = [active EXCEPT ![auth[r]] = IF @ <= 0 THEN @ ELSE @ - 1]
        /\ \/ /\ pc' = [pc EXCEPT ![r] = "pick"]
              /\ auth' = [auth EXCEPT ![r] = NoAuth]
           \/ /\ pc' = [pc EXCEPT ![r] = "markState"]
              /\ auth' = auth
        /\ pc[r] = "mark"
        /\ UNCHANGED <<breaker, blocked, metaStatus, disabled, legacyDisabled,
                       order, idx, tried, gen, answer, err, attempt, calls>>
    BY <1>7 DEF MarkDecrement
  <2>1. TypeOK'
    <3>1. active' \in [Auth -> Nat]
      BY <1>t, <2>0, <2>a DEF TypeOK
    <3>2. pc' \in [Request -> Steps] /\ auth' \in [Request -> Auth \cup {NoAuth}]
      BY <1>t, <2>a DEF TypeOK, Steps
    <3> QED
      BY <1>t, <2>a, <3>1, <3>2 DEF TypeOK
  <2>2. Local' /\ OneCallPerAuth'
    <3>1. OneCallPerAuth'
      BY <2>a DEF OneCallPerAuth, IndInv
    <3>2. ASSUME NEW q \in Request, q # r
          PROVE  /\ pc'[q] = pc[q] /\ auth'[q] = auth[q] /\ Current(q)' = Current(q)
      BY <1>t, <2>a, <3>2 DEF TypeOK, Current
    <3>3. /\ pc'[r] \in {"pick", "markState"} /\ Current(r)' = Current(r)
          /\ pc'[r] = "markState" => auth'[r] = auth[r]
      BY <1>t, <2>a DEF TypeOK, Current
    <3>4. answer[r] # "ok"
      BY <1>t, <2>a DEF Local
    <3> HIDE DEF Current
    <3>5. Local'
      BY <1>t, <2>0, <2>a, <3>2, <3>3, <3>4 DEF Local, Holding
    <3> QED BY <3>1, <3>5
  <2>3. ActiveNeverUnder'
    <3> SUFFICES ASSUME NEW a \in Auth
                 PROVE  Cardinality(InFlight(a))' <= active[a]'
      BY DEF ActiveNeverUnder
    <3>1. Cardinality(InFlight(a)) <= active[a] /\ active[a] \in Nat
      BY <1>t DEF ActiveNeverUnder, TypeOK
    <3>2. CASE a = auth[r]
      <4>1. InFlight(a)' = InFlight(a) \ {r} /\ r \in InFlight(a)
        BY <1>t, <1>7, <3>2 DEF TypeOK, MarkDecrement, InFlight
      <4>2. Cardinality(InFlight(a)') = Cardinality(InFlight(a)) - 1
        BY <4>1, InFlightFinite, FS_RemoveElement
      <4>3. active[a]' = IF active[a] <= 0 THEN active[a] ELSE active[a] - 1
        BY <1>t, <1>7, <3>2 DEF TypeOK, MarkDecrement
      <4> QED
        BY <3>1, <4>2, <4>3, InFlightFinite
    <3>3. CASE a # auth[r]
      <4>1. InFlight(a)' = InFlight(a) /\ active[a]' = active[a]
        BY <1>t, <1>7, <3>3 DEF TypeOK, MarkDecrement, InFlight
      <4> QED
        BY <3>1, <4>1
    <3> QED
      BY <3>2, <3>3
  <2> QED
    BY <2>1, <2>2, <2>3 DEF IndInv
<1>8. ASSUME NEW r \in Request, MarkState(r) PROVE IndInv'
  <2>0. auth[r] \in Auth /\ Current(r) \in Provider
    BY <1>t, <1>8 DEF Local, MarkState, Holding
  <2>1. TypeOK'
    BY <1>t, <1>8, <2>0 DEF TypeOK, MarkState, Steps, PassError, NoAuth
  <2>2. Local' /\ OneCallPerAuth'
    BY <1>t, <1>8, <2>0 DEF TypeOK, Local, OneCallPerAuth, MarkState, Holding, Current
  <2>3. \A a \in Auth : InFlight(a)' \subseteq InFlight(a)
    BY <1>t, <1>8 DEF TypeOK, MarkState, InFlight
  <2>4. ActiveNeverUnder'
    BY <1>t, <1>8, <2>3, FewerInFlight DEF MarkState
  <2> QED
    BY <2>1, <2>2, <2>4 DEF IndInv
<1>9. ASSUME NEW r \in Request, MarkMeta(r) PROVE IndInv'
  <2>0. auth[r] \in Auth /\ Current(r) \in Provider
    BY <1>t, <1>9 DEF Local, MarkMeta, Holding
  <2>1. TypeOK'
    BY <1>t, <1>9, <2>0 DEF TypeOK, MarkMeta, Steps, PassError, NoAuth
  <2>2. Local' /\ OneCallPerAuth'
    BY <1>t, <1>9, <2>0 DEF TypeOK, Local, OneCallPerAuth, MarkMeta, Holding, Current
  <2>3. \A a \in Auth : InFlight(a)' \subseteq InFlight(a)
    BY <1>t, <1>9 DEF TypeOK, MarkMeta, InFlight
  <2>4. ActiveNeverUnder'
    BY <1>t, <1>9, <2>3, FewerInFlight DEF MarkMeta
  <2> QED
    BY <2>1, <2>2, <2>4 DEF IndInv
<1>10. ASSUME NEW r \in Request, OkState(r) PROVE IndInv'
  <2>0. auth[r] \in Auth /\ Current(r) \in Provider
    BY <1>t, <1>10 DEF Local, OkState, Holding
  <2>1. TypeOK'
    BY <1>t, <1>10, <2>0 DEF TypeOK, OkState, Steps, PassError, NoAuth
  <2>2. Local' /\ OneCallPerAuth'
    BY <1>t, <1>10, <2>0 DEF TypeOK, Local, OneCallPerAuth, OkState, Holding, Current
  <2>3. \A a \in Auth : InFlight(a)' \subseteq InFlight(a)
    BY <1>t, <1>10 DEF TypeOK, OkState, InFlight
  <2>4. ActiveNeverUnder'
    BY <1>t, <1>10, <2>3, FewerInFlight DEF OkState
  <2> QED
    BY <2>1, <2>2, <2>4 DEF IndInv
<1>11. ASSUME NEW r \in Request, OkMeta(r) PROVE IndInv'
  <2>1. /\ auth[r] \in Auth /\ Current(r) \in Provider
        /\ pc[r] = "okMeta"
    BY <1>t, <1>11 DEF Local, OkMeta, Holding
  <2>2. /\ metaStatus' = [metaStatus EXCEPT ![auth[r]] = "active"]
        /\ UNCHANGED <<breaker, active, blocked, disabled, legacyDisabled, gen>>
    BY <1>11 DEF OkMeta
  <2>3. /\ tried' = [tried EXCEPT ![r] = {}]
        /\ calls' = [calls EXCEPT ![r] = NoCalls]
        /\ auth' = [auth EXCEPT ![r] = NoAuth]
        /\ answer' = [answer EXCEPT ![r] = "none"]
        /\ order' = [order EXCEPT ![r] = <<>>]
        /\ idx' = [idx EXCEPT ![r] = 0]
        /\ attempt' = [attempt EXCEPT ![r] = 0]
        /\ err' = [err EXCEPT ![r] = "none"]
        /\ pc' = [pc EXCEPT ![r] = "done"]
    BY <1>11 DEF OkMeta, ForgetPass, Finish
  <2>4. NoCalls \in [Auth -> Nat] /\ \A a \in Auth : NoCalls[a] = 0
    BY DEF NoCalls
  <2>5. TypeOK'
    <3>1. metaStatus' \in [Auth -> {"active", "error", "disabled"}]
      BY <1>t, <2>1, <2>2 DEF TypeOK
    <3>2. /\ order' \in [Request -> Seq(Provider)]
          /\ attempt' \in [Request -> 0..RequestRetry]
      BY <1>t, <2>3, ExecutionAssumption DEF TypeOK
    <3>3. /\ tried' \in [Request -> SUBSET Auth]
          /\ auth' \in [Request -> Auth \cup {NoAuth}]
          /\ idx' \in [Request -> Nat]
          /\ calls' \in [Request -> [Auth -> Nat]]
      BY <1>t, <2>3, <2>4 DEF TypeOK
    <3>4. /\ answer' \in [Request -> {"none"} \cup Outcome \cup Refusal]
          /\ err' \in [Request -> PassError]
          /\ pc' \in [Request -> Steps]
      BY <1>t, <2>3 DEF TypeOK, PassError, Steps
    <3> QED
      BY <1>t, <2>2, <3>1, <3>2, <3>3, <3>4 DEF TypeOK
  <2>6. Local' /\ OneCallPerAuth'
    BY <1>t, <2>3, <2>4 DEF TypeOK, Local, OneCallPerAuth, Holding, Current
  <2>7. \A a \in Auth : InFlight(a)' \subseteq InFlight(a)
    BY <1>t, <2>3 DEF TypeOK, InFlight
  <2> QED
    BY <1>t, <2>2, <2>5, <2>6, <2>7, FewerInFlight DEF IndInv
<1>12. ASSUME NEW r \in Request, Decide(r) PROVE IndInv'
  <2>1. /\ pc[r] = "decide"
        /\ UNCHANGED <<breaker, active, blocked, metaStatus, disabled, legacyDisabled,
                       tried, auth, gen, answer, calls>>
    BY <1>12 DEF Decide
  <2>2. CASE Finish(r)
    <3>1. /\ order' = [order EXCEPT ![r] = <<>>]
          /\ idx' = [idx EXCEPT ![r] = 0]
          /\ attempt' = [attempt EXCEPT ![r] = 0]
          /\ err' = [err EXCEPT ![r] = "none"]
          /\ pc' = [pc EXCEPT ![r] = "done"]
      BY <2>2 DEF Finish
    <3>2. /\ order' \in [Request -> Seq(Provider)]
          /\ attempt' \in [Request -> 0..RequestRetry]
          /\ idx' \in [Request -> Nat]
      BY <1>t, <3>1, ExecutionAssumption DEF TypeOK
    <3>3. err' \in [Request -> PassError] /\ pc' \in [Request -> Steps]
      BY <1>t, <3>1 DEF TypeOK, PassError, Steps
    <3>4. TypeOK'
      BY <1>t, <2>1, <3>2, <3>3 DEF TypeOK
    <3>5. Local' /\ OneCallPerAuth'
      BY <1>t, <2>1, <3>1 DEF TypeOK, Local, OneCallPerAuth, Holding, Current
    <3>6. \A a \in Auth : InFlight(a)' \subseteq InFlight(a)
      BY <1>t, <2>1, <3>1 DEF TypeOK, InFlight
    <3> QED
      BY <1>t, <2>1, <3>4, <3>5, <3>6, FewerInFlight DEF IndInv
  <2>3. CASE ~Finish(r)
    <3>1. /\ attempt[r] < RequestRetry
          /\ attempt' = [attempt EXCEPT ![r] = @ + 1]
          /\ idx' = [idx EXCEPT ![r] = 1]
          /\ pc' = [pc EXCEPT ![r] = "provider"]
          /\ UNCHANGED <<order, err>>
      BY <1>12, <2>3 DEF Decide
    <3>2. attempt' \in [Request -> 0..RequestRetry]
      BY <1>t, <3>1, ExecutionAssumption DEF TypeOK
    <3>3. TypeOK'
      BY <1>t, <2>1, <3>1, <3>2 DEF TypeOK, Steps
    <3>4. Local' /\ OneCallPerAuth'
      BY <1>t, <2>1, <3>1 DEF TypeOK, Local, OneCallPerAuth, Holding, Current
    <3>5. \A a \in Auth : InFlight(a)' \subseteq InFlight(a)
      BY <1>t, <2>1, <3>1 DEF TypeOK, InFlight
    <3> QED
      BY <1>t, <2>1, <3>3, <3>4, <3>5, FewerInFlight DEF IndInv
  <2> QED
    BY <2>2, <2>3
<1>13. ASSUME NEW e \in Auth, Expire(e) PROVE IndInv'
  <2>1. TypeOK'
    BY <1>t, <1>13 DEF TypeOK, Expire, Steps
  <2>2. Local' /\ OneCallPerAuth'
    BY <1>t, <1>13 DEF TypeOK, Local, OneCallPerAuth, Expire, Holding, Current
  <2>3. \A a \in Auth : InFlight(a)' \subseteq InFlight(a)
    BY <1>t, <1>13 DEF TypeOK, Expire, InFlight
  <2>4. ActiveNeverUnder'
    BY <1>t, <1>13, <2>3, FewerInFlight DEF Expire
  <2> QED
    BY <2>1, <2>2, <2>4 DEF IndInv
<1>14. ASSUME NEW p \in Provider, BreakerClock(p) PROVE IndInv'
  <2>1. TypeOK'
    BY <1>t, <1>14, BreakerOps DEF TypeOK, BreakerClock, Steps
  <2>2. Local' /\ OneCallPerAuth'
    BY <1>t, <1>14 DEF TypeOK, Local, OneCallPerAuth, BreakerClock, Holding, Current
  <2>3. \A a \in Auth : InFlight(a)' \subseteq InFlight(a)
    BY <1>t, <1>14 DEF TypeOK, BreakerClock, InFlight
  <2>4. ActiveNeverUnder'
    BY <1>t, <1>14, <2>3, FewerInFlight DEF BreakerClock
  <2> QED
    BY <2>1, <2>2, <2>4 DEF IndInv
<1>15. ASSUME NEW e \in Auth, Disable(e) PROVE IndInv'
  <2>1. TypeOK'
    BY <1>t, <1>15 DEF TypeOK, Disable, Steps
  <2>2. Local' /\ OneCallPerAuth'
    BY <1>t, <1>15 DEF TypeOK, Local, OneCallPerAuth, Disable, Holding, Current
  <2>3. \A a \in Auth : InFlight(a)' \subseteq InFlight(a)
    BY <1>t, <1>15 DEF TypeOK, Disable, InFlight
  <2>4. ActiveNeverUnder'
    BY <1>t, <1>15, <2>3, FewerInFlight DEF Disable
  <2> QED
    BY <2>1, <2>2, <2>4 DEF IndInv
<1>16. CASE UNCHANGED vars
  BY <1>t, <1>16 DEF IndInv, TypeOK, Local, OneCallPerAuth, ActiveNeverUnder,
     InFlight, Current, vars
<1> QED
  BY <1>1, <1>2, <1>3, <1>4, <1>5, <1>6, <1>7, <1>8, <1>9, <1>10, <1>11, <1>12,
     <1>13, <1>14, <1>15, <1>16 DEF Next, Step, Idle

-----------------------------------------------------------------------------

\* Every reachable state satisfies the inductive invariant.
THEOREM ExecutionInvariant == Spec => []IndInv
BY InitInv, StepInv, PTL DEF Spec

\* Type correctness: in particular attempt stays within the configured retries
\* and the credential in hand is a credential.
THEOREM ExecutionTypeCorrect == Spec => []TypeOK
BY ExecutionInvariant, PTL DEF IndInv

\* Whatever the number of requests and credentials, the counter Pick balances
\* by never shows fewer requests than a credential carries.
THEOREM ActiveCountsEveryCall == Spec => []ActiveNeverUnder
BY ExecutionInvariant, PTL DEF IndInv

\* A pass never calls upstream twice with one credential.
THEOREM PassUsesAuthOnce == Spec => []OneCallPerAuth
BY ExecutionInvariant, PTL DEF IndInv

-----------------------------------------------------------------------------

\* A request that has not begun has no position.
IdleAtStart == \A r \in Request : pc[r] = "idle" => idx[r] = 0

\* No step leads back to the start.
LEMMA StepIdle == TypeOK /\ IdleAtStart /\ [Next]_vars => IdleAtStart'
<1> SUFFICES ASSUME TypeOK, IdleAtStart, [Next]_vars, NEW q \in Request,
                    pc'[q] = "idle"
             PROVE  idx'[q] = 0
  BY DEF IdleAtStart
<1> USE DEF TypeOK, Goto
<1>1. ASSUME NEW r \in Request, Step(r)
      PROVE  pc'[r] # "idle" /\ \A p \in Request \ {r} : pc'[p] = pc[p] /\ idx'[p] = idx[p]
  <2>1. CASE Begin(r) \/ Claim(r) \/ StartCall(r)
    BY <2>1 DEF Begin, Claim, StartCall
  <2>2. CASE EnterProvider(r)
    BY <2>2 DEF EnterProvider, LeaveProvider
  <2>3. CASE Pick(r)
    BY <2>3 DEF Pick, LeaveProvider
  <2>4. CASE Return(r)
    BY <2>4 DEF Return, LeaveProvider
  <2>5. CASE MarkDecrement(r) \/ MarkState(r) \/ MarkMeta(r) \/ OkState(r)
    BY <2>5 DEF MarkDecrement, MarkState, MarkMeta, OkState
  <2>6. CASE OkMeta(r) \/ Decide(r)
    BY <2>6 DEF OkMeta, Decide, Finish
  <2> QED
    BY <1>1, <2>1, <2>2, <2>3, <2>4, <2>5, <2>6 DEF Step
<1>2. CASE \E r \in Request : Step(r)
  BY <1>1, <1>2 DEF IdleAtStart
<1>3. CASE UNCHANGED <<pc, idx>>
  BY <1>3 DEF IdleAtStart
<1> QED
  BY <1>2, <1>3 DEF Next, Expire, Disable, BreakerClock, Idle, vars, local

\* A request that leaves a provider goes to a later one.
LEMMA LeavingAdvances ==
  ASSUME TypeOK, NEW r \in Request, NEW e, LeaveProvider(r, e),
         UNCHANGED attempt
  PROVE  pc'[r] = "provider" /\ Later(r)
BY DEF LeaveProvider, Goto, Later, TypeOK

\* Every step of a request goes forward, and only its own program counter moves.
LEMMA StepAdvances ==
  ASSUME TypeOK, Local, IdleAtStart, NEW r \in Request, Step(r)
  PROVE  /\ pc[r] # "done"
         /\ pc'[r] = "done" \/ Later(r)
         /\ \A q \in Request \ {r} : pc'[q] = pc[q]
<1>1. CASE Begin(r)
  <2>1. pc'[r] = "provider" /\ idx'[r] = 1 /\ attempt' = attempt /\ tried' = tried
    BY <1>1 DEF Begin, Goto, TypeOK
  <2>2. idx'[r] >= idx[r]
    BY <1>1, <2>1 DEF Begin, IdleAtStart
  <2> QED
    BY <1>1, <2>1, <2>2 DEF Begin, Goto, Later, Stage, TypeOK
<1>2. CASE EnterProvider(r)
  <2>1. pc[r] = "provider" /\ UNCHANGED attempt
    BY <1>2 DEF EnterProvider
  <2>2. CASE LeaveProvider(r, "circuit_open")
    BY <2>1, <2>2, LeavingAdvances DEF LeaveProvider, Goto, TypeOK
  <2>3. CASE \/ Goto(r, "decide") /\ UNCHANGED <<idx, tried>>
             \/ Goto(r, "pick") /\ UNCHANGED <<idx, tried>>
    BY <2>1, <2>3 DEF Goto, Later, Stage, TypeOK
  <2> QED
    BY <1>2, <2>2, <2>3 DEF EnterProvider
<1>3. CASE Pick(r)
  <2>1. pc[r] = "pick" /\ UNCHANGED attempt
    BY <1>3 DEF Pick
  <2>2. CASE \E e : LeaveProvider(r, e)
    BY <2>1, <2>2, LeavingAdvances DEF LeaveProvider, Goto, TypeOK
  <2>3. CASE Goto(r, "claim") /\ UNCHANGED <<idx, tried>>
    BY <2>1, <2>3 DEF Goto, Later, Stage, TypeOK
  <2> QED
    BY <1>3, <2>2, <2>3 DEF Pick
<1>4. CASE Claim(r)
  <2>1. auth[r] \notin tried[r]
    BY <1>4 DEF Claim, Local
  <2> QED
    BY <1>4, <2>1 DEF Claim, Goto, Later, Stage, TypeOK
<1>5. CASE StartCall(r)
  BY <1>5 DEF StartCall, Goto, Later, Stage, TypeOK
<1>6. CASE Return(r)
  <2>1. PICK o \in Answers :
          CASE o = "canceled" -> LeaveProvider(r, "canceled")
            [] o = "notready" -> /\ Goto(r, "pick")
                                 /\ auth' = [auth EXCEPT ![r] = NoAuth]
                                 /\ UNCHANGED <<idx, tried, answer, err, calls>>
            [] OTHER -> /\ answer' = [answer EXCEPT ![r] = o]
                        /\ Goto(r, IF o = "ok" THEN "okState" ELSE "mark")
                        /\ UNCHANGED <<idx, tried, auth, err, calls>>
    BY <1>6 DEF Return
  <2>2. pc[r] = "upstream" /\ UNCHANGED attempt
    BY <1>6 DEF Return
  <2>3. CASE LeaveProvider(r, "canceled")
    BY <2>2, <2>3, LeavingAdvances DEF LeaveProvider, Goto, TypeOK
  <2>4. CASE /\ \/ Goto(r, "pick") \/ Goto(r, "okState") \/ Goto(r, "mark")
             /\ UNCHANGED <<idx, tried>>
    BY <2>2, <2>4 DEF Goto, Later, Stage, TypeOK
  <2> QED
    BY <2>1, <2>3, <2>4
<1>7. CASE MarkDecrement(r)
  BY <1>7 DEF MarkDecrement, Goto, Later, Stage, TypeOK
<1>8. CASE MarkState(r) \/ MarkMeta(r) \/ OkState(r)
  BY <1>8 DEF MarkState, MarkMeta, OkState, Goto, Later, Stage, TypeOK
<1>9. CASE OkMeta(r)
  BY <1>9 DEF OkMeta, Finish, Goto, TypeOK
<1>10. CASE Decide(r)
  <2>1. CASE Finish(r)
    BY <1>10, <2>1 DEF Decide, Finish, Goto, TypeOK
  <2>2. CASE attempt' = [attempt EXCEPT ![r] = @ + 1] /\ Goto(r, "provider")
    <3>1. attempt[r] \in Nat
      BY ExecutionAssumption DEF TypeOK
    <3> QED
      BY <1>10, <2>2, <3>1 DEF Decide, Goto, Later, TypeOK
  <2> QED
    BY <1>10, <2>1, <2>2 DEF Decide
<1> QED
  BY <1>1, <1>2, <1>3, <1>4, <1>5, <1>6, <1>7, <1>8, <1>9, <1>10 DEF Step

\* A request only goes forward, for any number of requests, providers and
\* credentials: a credential that is claimed is one that has not been tried.
THEOREM RequestsAdvance == Spec => Advances
<1>1. ASSUME TypeOK, Local, IdleAtStart, [Next]_vars
      PROVE  \A r \in Request :
               pc'[r] # pc[r] => pc[r] # "done" /\ (pc'[r] = "done" \/ Later(r))
  <2>1. CASE \E q \in Request : Step(q)
    BY <1>1, <2>1, StepAdvances
  <2>2. CASE UNCHANGED pc
    BY <2>2
  <2> QED
    BY <1>1, <2>1, <2>2 DEF Next, Expire, Disable, BreakerClock, Idle, vars, local
<1>2. Init => IdleAtStart
  BY DEF Init, IdleAtStart
<1>3. Spec => []IdleAtStart
  BY <1>2, StepIdle, ExecutionTypeCorrect, PTL DEF Spec
<1> QED
  BY <1>1, <1>3, ExecutionInvariant, PTL DEF IndInv, Spec, Advances

-----------------------------------------------------------------------------
(* The slots of a half-open breaker                                        *)

\* What HalfOpenProbes rests on.  A running call was admitted in the present or
\* an earlier generation of its breaker, and a half-open breaker has admitted no
\* more than its quota and closes before its successes fill it.
GenPast ==
  \A r \in Request : pc[r] = "upstream" => gen[r] <= breaker[Current(r)].gen

HalfQuota ==
  \A p \in Provider : breaker[p].state = "half" =>
    /\ breaker[p].requests = breaker[p].consecSuccesses + Cardinality(CurrentCalls(p))
    /\ breaker[p].requests <= MaxRequests
    /\ breaker[p].consecSuccesses < MaxRequests

ProbeInv == GenPast /\ HalfQuota

LEMMA CurrentCallsFinite ==
  ASSUME NEW p \in Provider
  PROVE  /\ IsFiniteSet(CurrentCalls(p)) /\ Cardinality(CurrentCalls(p)) \in Nat
         /\ IsFiniteSet(CurrentCalls(p)') /\ Cardinality(CurrentCalls(p)') \in Nat
<1>1. CurrentCalls(p) \in SUBSET Request /\ CurrentCalls(p)' \in SUBSET Request
  BY DEF CurrentCalls
<1> QED
  BY <1>1, ExecutionAssumption, FS_Subset, FS_CardinalityType

\* A step that neither starts nor ends a call leaves every slot as it is.
LEMMA CallsUntouched ==
  ASSUME TypeOK, ProbeInv, breaker' = breaker, gen' = gen, NEW r \in Request,
         pc[r] # "upstream", pc'[r] # "upstream",
         \A q \in Request \ {r} :
           pc'[q] = pc[q] /\ order'[q] = order[q] /\ idx'[q] = idx[q]
  PROVE  ProbeInv'
<1>1. \A q \in Request : pc'[q] = "upstream" =>
        pc[q] = "upstream" /\ order'[q] = order[q] /\ idx'[q] = idx[q]
  OBVIOUS
<1>2. \A q \in Request : pc[q] = "upstream" =>
        pc'[q] = "upstream" /\ order'[q] = order[q] /\ idx'[q] = idx[q]
  OBVIOUS
<1>3. ASSUME NEW p \in Provider PROVE CurrentCalls(p)' = CurrentCalls(p)
  BY <1>1, <1>2 DEF CurrentCalls, Current
<1> QED
  BY <1>1, <1>3 DEF ProbeInv, GenPast, HalfQuota, Current

\* A breaker that starts a generation has no running call in it.
LEMMA NewGenerationEmpty ==
  ASSUME TypeOK, GenPast, NEW p \in Provider,
         breaker'[p].gen = breaker[p].gen + 1,
         \A q \in Request : pc'[q] = "upstream" =>
           /\ pc[q] = "upstream" /\ gen'[q] = gen[q]
           /\ order'[q] = order[q] /\ idx'[q] = idx[q]
  PROVE  CurrentCalls(p)' = {}
<1> SUFFICES ASSUME NEW q \in CurrentCalls(p)' PROVE FALSE
  OBVIOUS
<1>1. /\ q \in Request /\ pc'[q] = "upstream" /\ Current(q)' = p
      /\ gen'[q] = breaker'[p].gen
  BY DEF CurrentCalls
<1>2. Current(q) = p /\ pc[q] = "upstream" /\ gen[q] = breaker[p].gen + 1
  BY <1>1 DEF Current
<1>3. breaker[p].gen \in Nat
  BY BreakerFields DEF TypeOK
<1> QED
  BY <1>1, <1>2, <1>3 DEF GenPast

\* A call is admitted: it takes a free slot.
LEMMA StartKeepsQuota ==
  ASSUME TypeOK, Local, ProbeInv, NEW r \in Request, StartCall(r)
  PROVE  ProbeInv'
<1> DEFINE c == Current(r)
           b == breaker[c]
<1>1. /\ pc[r] = "call" /\ c \in Provider
      /\ UNCHANGED <<order, idx>>
  BY DEF StartCall, Local, Holding
<1>2. CASE Admits(b)
  <2>1. /\ breaker' = [breaker EXCEPT ![c] = CountRequest(b)]
        /\ gen' = [gen EXCEPT ![r] = b.gen]
        /\ pc' = [pc EXCEPT ![r] = "upstream"]
    BY <1>2 DEF StartCall, Goto
  <2>2. b \in Breaker
    BY <1>1 DEF TypeOK
  <2>3. /\ breaker'[c] = [b EXCEPT !.requests = @ + 1]
        /\ \A p \in Provider \ {c} : breaker'[p] = breaker[p]
    BY <1>1, <2>1 DEF TypeOK, CountRequest
  <2>4. /\ breaker'[c].state = b.state /\ breaker'[c].gen = b.gen
        /\ breaker'[c].requests = b.requests + 1
        /\ breaker'[c].consecSuccesses = b.consecSuccesses
    BY <2>2, <2>3 DEF Breaker
  <2>5. /\ gen'[r] = b.gen /\ pc'[r] = "upstream"
        /\ \A q \in Request \ {r} : gen'[q] = gen[q] /\ pc'[q] = pc[q]
    BY <2>1 DEF TypeOK
  <2>6. \A q \in Request : Current(q)' = Current(q)
    BY <1>1 DEF Current
  <2>7. \A p \in Provider : breaker'[p].gen = breaker[p].gen
    BY <2>3, <2>4
  <2>8. GenPast'
    <3> SUFFICES ASSUME NEW q \in Request, pc'[q] = "upstream"
                 PROVE  gen'[q] <= breaker'[Current(q)].gen
      BY <2>6 DEF GenPast
    <3>1. CASE q = r
      BY <1>1, <2>2, <2>4, <2>5, <3>1, BreakerFields
    <3>2. CASE q # r
      <4>1. pc[q] = "upstream" /\ Current(q) \in Provider /\ gen'[q] = gen[q]
        BY <2>5, <3>2 DEF Local, Holding
      <4> QED
        BY <2>7, <4>1 DEF ProbeInv, GenPast
    <3> QED
      BY <3>1, <3>2
  <2>9. HalfQuota'
    <3> SUFFICES ASSUME NEW p \in Provider, breaker'[p].state = "half"
                 PROVE  /\ breaker'[p].requests
                             = breaker'[p].consecSuccesses + Cardinality(CurrentCalls(p)')
                        /\ breaker'[p].requests <= MaxRequests
                        /\ breaker'[p].consecSuccesses < MaxRequests
      BY DEF HalfQuota
    <3>1. CASE p = c
      <4>1. CurrentCalls(p)' = CurrentCalls(p) \cup {r} /\ r \notin CurrentCalls(p)
        BY <1>1, <2>4, <2>5, <2>6, <3>1 DEF CurrentCalls
      <4>2. Cardinality(CurrentCalls(p)') = Cardinality(CurrentCalls(p)) + 1
        BY <4>1, CurrentCallsFinite, FS_AddElement
      <4>3. b.requests < MaxRequests
        BY <1>2, <2>4, <3>1 DEF Admits
      <4>4. /\ b.requests = b.consecSuccesses + Cardinality(CurrentCalls(p))
            /\ b.consecSuccesses < MaxRequests
        BY <2>4, <3>1 DEF ProbeInv, HalfQuota
      <4> QED
        BY <2>2, <2>4, <3>1, <4>2, <4>3, <4>4, CurrentCallsFinite, BreakerFields,
           BreakerAssumption
    <3>2. CASE p # c
      <4>1. CurrentCalls(p)' = CurrentCalls(p) /\ breaker'[p] = breaker[p]
        BY <1>1, <2>3, <2>5, <2>6, <3>2 DEF CurrentCalls
      <4> QED
        BY <4>1 DEF ProbeInv, HalfQuota
    <3> QED
      BY <3>1, <3>2
  <2> QED
    BY <2>8, <2>9 DEF ProbeInv
<1>3. CASE ~Admits(b)
  <2>1. breaker' = breaker /\ gen' = gen /\ pc' = [pc EXCEPT ![r] = "mark"]
    BY <1>3 DEF StartCall, Goto
  <2> QED
    BY <1>1, <2>1, CallsUntouched DEF TypeOK
<1> QED
  BY <1>2, <1>3

\* What the end of a call does to its breaker: nothing if it belongs to an older
\* generation; otherwise a half-open breaker counts a success, closes on the
\* last it needs, and opens on a failure.
LEMMA ReportEffect ==
  ASSUME NEW b \in Breaker, NEW g, NEW s \in BOOLEAN
  PROVE  \/ Report(b, g, s).gen = b.gen + 1 /\ Report(b, g, s).state # "half"
         \/ g # b.gen /\ Report(b, g, s) = b
         \/ /\ Report(b, g, s).gen = b.gen
            /\ Report(b, g, s).state = b.state
            /\ b.state = "half" =>
                 /\ Report(b, g, s).requests = b.requests
                 /\ Report(b, g, s).consecSuccesses = b.consecSuccesses + 1
                 /\ b.consecSuccesses + 1 < MaxRequests
<1>1. CASE g # b.gen
  BY <1>1 DEF Report
<1>2. CASE g = b.gen /\ s
  <2>1. Report(b, g, s) = OnSuccess(b)
    BY <1>2 DEF Report
  <2> QED
    BY <2>1, BreakerAssumption DEF OnSuccess, NewGeneration, NewBreaker, Breaker
<1>3. CASE g = b.gen /\ ~s
  <2>1. Report(b, g, s) = OnFailure(b)
    BY <1>3 DEF Report
  <2> QED
    BY <2>1 DEF OnFailure, NewGeneration, NewBreaker, Breaker, BreakerStates
<1> QED
  BY <1>1, <1>2, <1>3

\* A call ends: its slot becomes a success, or the breaker changes generation.
LEMMA ReturnKeepsQuota ==
  ASSUME TypeOK, Local, ProbeInv, NEW r \in Request, Return(r)
  PROVE  ProbeInv'
<1> DEFINE c == Current(r)
           b == breaker[c]
<1>1. pc[r] = "upstream" /\ c \in Provider /\ UNCHANGED order
  BY DEF Return, Local, Holding
<1>2. PICK o \in Answers :
        /\ breaker' = [breaker EXCEPT ![c] = Report(@, gen[r], IsSuccessful(o))]
        /\ \E step \in {"provider", "pick", "okState", "mark"} :
             pc' = [pc EXCEPT ![r] = step]
        /\ idx' \in {idx, [idx EXCEPT ![r] = @ + 1]}
  BY DEF Return, Settle, LeaveProvider, Goto
<1>3. gen' = [gen EXCEPT ![r] = 0]
  BY DEF Return
<1> DEFINE n == Report(b, gen[r], IsSuccessful(o))
<1>4. b \in Breaker /\ IsSuccessful(o) \in BOOLEAN
  BY <1>1 DEF TypeOK, IsSuccessful
<1>5. n \in Breaker /\ breaker'[c] = n /\ \A p \in Provider \ {c} : breaker'[p] = breaker[p]
  BY <1>1, <1>2, <1>4, BreakerOps DEF TypeOK
<1>6. /\ pc'[r] # "upstream"
      /\ \A q \in Request \ {r} : pc'[q] = pc[q] /\ gen'[q] = gen[q] /\ idx'[q] = idx[q]
  BY <1>2, <1>3 DEF TypeOK
<1>7. \A q \in Request : pc'[q] = "upstream" =>
        /\ pc[q] = "upstream" /\ gen'[q] = gen[q]
        /\ order'[q] = order[q] /\ idx'[q] = idx[q] /\ Current(q)' = Current(q)
  BY <1>1, <1>6 DEF Current
<1>8. \A p \in Provider : breaker[p].gen <= breaker'[p].gen
  <2>1. b.gen <= n.gen
    BY <1>4, ReportEffect, BreakerFields
  <2>2. \A p \in Provider : breaker[p].gen \in Nat
    BY BreakerFields DEF TypeOK
  <2> QED
    BY <1>1, <1>5, <2>1, <2>2
<1>9. GenPast'
  <2> SUFFICES ASSUME NEW q \in Request, pc'[q] = "upstream"
               PROVE  gen'[q] <= breaker'[Current(q)'].gen
    BY DEF GenPast
  <2>1. /\ gen'[q] = gen[q] /\ Current(q)' = Current(q) /\ Current(q) \in Provider
        /\ gen[q] <= breaker[Current(q)].gen
    BY <1>7 DEF ProbeInv, GenPast, Local, Holding
  <2>2. breaker[Current(q)].gen \in Nat /\ breaker'[Current(q)].gen \in Nat /\ gen[q] \in Nat
    BY <1>1, <1>5, <2>1, BreakerFields DEF TypeOK
  <2> QED
    BY <1>8, <2>1, <2>2
<1>10. HalfQuota'
  <2> SUFFICES ASSUME NEW p \in Provider, breaker'[p].state = "half"
               PROVE  /\ breaker'[p].requests
                           = breaker'[p].consecSuccesses + Cardinality(CurrentCalls(p)')
                      /\ breaker'[p].requests <= MaxRequests
                      /\ breaker'[p].consecSuccesses < MaxRequests
    BY DEF HalfQuota
  <2>1. breaker[p].state = "half" =>
          /\ breaker[p].requests = breaker[p].consecSuccesses + Cardinality(CurrentCalls(p))
          /\ breaker[p].requests <= MaxRequests
          /\ breaker[p].consecSuccesses < MaxRequests
    BY DEF ProbeInv, HalfQuota
  <2>2. CASE p # c \/ gen[r] # b.gen
    <3>1. breaker'[p] = breaker[p]
      BY <1>5, <2>2 DEF Report
    <3>2. CurrentCalls(p)' = CurrentCalls(p)
      BY <1>1, <1>6, <1>7, <2>2, <3>1 DEF CurrentCalls, Current
    <3> QED
      BY <2>1, <3>1, <3>2
  <2>3. CASE p = c /\ gen[r] = b.gen
    <3>1. n.gen = b.gen /\ n.state = b.state /\ b.state = "half"
          /\ n.requests = b.requests /\ n.consecSuccesses = b.consecSuccesses + 1
          /\ b.consecSuccesses + 1 < MaxRequests
      BY <1>4, <1>5, <2>3, ReportEffect
    <3>2. CurrentCalls(p)' = CurrentCalls(p) \ {r} /\ r \in CurrentCalls(p)
      <4>1. breaker'[p].gen = breaker[p].gen
        BY <1>5, <2>3, <3>1
      <4>2. r \in CurrentCalls(p)
        BY <1>1, <2>3 DEF CurrentCalls
      <4>3. r \notin CurrentCalls(p)'
        BY <1>6 DEF CurrentCalls
      <4>4. ASSUME NEW q \in Request \ {r}
            PROVE  q \in CurrentCalls(p)' <=> q \in CurrentCalls(p)
        BY <1>6, <1>7, <4>1 DEF CurrentCalls, Current
      <4> QED
        BY <4>2, <4>3, <4>4 DEF CurrentCalls
    <3>3. Cardinality(CurrentCalls(p)') = Cardinality(CurrentCalls(p)) - 1
      BY <3>2, CurrentCallsFinite, FS_RemoveElement
    <3> QED
      BY <1>4, <1>5, <2>1, <2>3, <3>1, <3>3, CurrentCallsFinite, BreakerFields,
         BreakerAssumption
  <2> QED
    BY <2>2, <2>3
<1> QED
  BY <1>9, <1>10 DEF ProbeInv

\* The clock starts a generation, which no call is part of yet.
LEMMA ClockKeepsQuota ==
  ASSUME TypeOK, Local, ProbeInv, NEW c \in Provider, BreakerClock(c)
  PROVE  ProbeInv'
<1>1. /\ breaker' = [breaker EXCEPT ![c] = ClockExpired(@)]
      /\ UNCHANGED <<pc, order, idx, gen>>
  BY DEF BreakerClock, local
<1>2. breaker[c] \in Breaker /\ breaker[c].state # "half"
  BY DEF BreakerClock, TypeOK
<1>3. /\ breaker'[c].gen = breaker[c].gen + 1
      /\ breaker'[c].requests = 0 /\ breaker'[c].consecSuccesses = 0
      /\ \A p \in Provider \ {c} : breaker'[p] = breaker[p]
  <2>1. /\ breaker'[c] = ClockExpired(breaker[c])
        /\ \A p \in Provider \ {c} : breaker'[p] = breaker[p]
    BY <1>1 DEF TypeOK
  <2>2. breaker[c].state \in {"open", "closed"}
    BY <1>2 DEF Breaker, BreakerStates
  <2> QED
    BY <1>2, <2>1, <2>2 DEF ClockExpired, NewGeneration, NewBreaker, Breaker
<1>4. GenPast'
  <2> SUFFICES ASSUME NEW q \in Request, pc[q] = "upstream"
               PROVE  gen[q] <= breaker'[Current(q)].gen
    BY <1>1 DEF GenPast, Current
  <2>1. Current(q) \in Provider /\ gen[q] <= breaker[Current(q)].gen /\ gen[q] \in Nat
    BY DEF ProbeInv, GenPast, Local, Holding, TypeOK
  <2>2. breaker[Current(q)].gen \in Nat
    BY <2>1, BreakerFields DEF TypeOK
  <2> QED
    BY <1>3, <2>1, <2>2
<1>5. HalfQuota'
  <2> SUFFICES ASSUME NEW p \in Provider, breaker'[p].state = "half"
               PROVE  /\ breaker'[p].requests
                           = breaker'[p].consecSuccesses + Cardinality(CurrentCalls(p)')
                      /\ breaker'[p].requests <= MaxRequests
                      /\ breaker'[p].consecSuccesses < MaxRequests
    BY DEF HalfQuota
  <2>1. CASE p = c
    <3>1. CurrentCalls(p)' = {}
      BY <1>1, <1>3, <2>1, NewGenerationEmpty DEF ProbeInv
    <3> QED
      BY <1>3, <2>1, <3>1, FS_EmptySet, BreakerAssumption
  <2>2. CASE p # c
    <3>1. breaker'[p] = breaker[p] /\ CurrentCalls(p)' = CurrentCalls(p)
      BY <1>1, <1>3, <2>2 DEF CurrentCalls, Current
    <3> QED
      BY <3>1 DEF ProbeInv, HalfQuota
  <2> QED
    BY <2>1, <2>2
<1> QED
  BY <1>4, <1>5 DEF ProbeInv

\* Every other step of a request is none of the breaker's business.
LEMMA OtherStepsKeepQuota ==
  ASSUME TypeOK, Local, ProbeInv, NEW r \in Request, Step(r), ~StartCall(r), ~Return(r)
  PROVE  ProbeInv'
<1>1. breaker' = breaker /\ gen' = gen /\ pc[r] # "upstream"
  BY DEF Step, Begin, EnterProvider, Pick, Claim, MarkDecrement, MarkState, MarkMeta,
         OkState, OkMeta, Decide, shared
<1>2. /\ pc'[r] # "upstream"
      /\ \A q \in Request \ {r} :
           pc'[q] = pc[q] /\ order'[q] = order[q] /\ idx'[q] = idx[q]
  <2> USE DEF TypeOK, Goto
  <2>1. CASE Begin(r)
    BY <2>1 DEF Begin
  <2>2. CASE EnterProvider(r)
    BY <2>2 DEF EnterProvider, LeaveProvider
  <2>3. CASE Pick(r)
    BY <2>3 DEF Pick, LeaveProvider
  <2>4. CASE Claim(r) \/ MarkDecrement(r) \/ MarkState(r) \/ MarkMeta(r) \/ OkState(r)
    BY <2>4 DEF Claim, MarkDecrement, MarkState, MarkMeta, OkState
  <2>5. CASE OkMeta(r) \/ Decide(r)
    BY <2>5 DEF OkMeta, Decide, Finish
  <2> QED
    BY <2>1, <2>2, <2>3, <2>4, <2>5 DEF Step
<1> QED
  BY <1>1, <1>2, CallsUntouched

LEMMA StepProbes == IndInv /\ ProbeInv /\ [Next]_vars => ProbeInv'
<1> SUFFICES ASSUME TypeOK, Local, ProbeInv, [Next]_vars PROVE ProbeInv'
  BY DEF IndInv
<1>1. CASE \E r \in Request : Step(r)
  BY <1>1, StartKeepsQuota, ReturnKeepsQuota, OtherStepsKeepQuota
<1>2. CASE \E p \in Provider : BreakerClock(p)
  BY <1>2, ClockKeepsQuota
<1>3. CASE UNCHANGED <<breaker, pc, order, idx, gen>>
  BY <1>3 DEF ProbeInv, GenPast, HalfQuota, CurrentCalls, Current
<1> QED
  BY <1>1, <1>2, <1>3 DEF Next, Expire, Disable, Idle, vars, shared, local

\* However many calls run through a breaker and whatever reports arrive late: in
\* the half-open state no more than the configured number of probes runs, and
\* each admitted one is either still running or a counted success.
THEOREM HalfOpenAdmitsItsQuota == Spec => []HalfOpenProbes
<1>1. Init => ProbeInv
  BY DEF Init, NewBreaker, ProbeInv, GenPast, HalfQuota
<1>2. TypeOK /\ ProbeInv => HalfOpenProbes
  <2> SUFFICES ASSUME TypeOK, ProbeInv, NEW p \in Provider, breaker[p].state = "half"
               PROVE  /\ Cardinality(CurrentCalls(p)) <= MaxRequests
                      /\ breaker[p].requests
                           = breaker[p].consecSuccesses + Cardinality(CurrentCalls(p))
    BY DEF HalfOpenProbes
  <2>1. /\ breaker[p].requests \in Nat /\ breaker[p].consecSuccesses \in Nat
        /\ Cardinality(CurrentCalls(p)) \in Nat
    BY BreakerFields, CurrentCallsFinite DEF TypeOK
  <2> QED
    BY <2>1, BreakerAssumption DEF ProbeInv, HalfQuota
<1>3. Spec => []ProbeInv
  BY <1>1, StepProbes, ExecutionInvariant, PTL DEF Spec
<1> QED
  BY <1>2, <1>3, ExecutionTypeCorrect, PTL

=============================================================================
