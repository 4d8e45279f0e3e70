-------------------------- MODULE AccountingProofs --------------------------
(***************************************************************************)
(* Theorems about what the program counts, hands on and gives back: the    *)
(* tokens of RetryBudget, the updates of SnapshotCas, the records of       *)
(* UsagePipeline, for any number of goroutines, calls and restarts.        *)
(*                                                                         *)
(* RetryBudget: the inductive invariant adds to the conservation of tokens *)
(* where a request may own one: exactly inside a paid attempt and inside   *)
(* the Release that ends it.  Without that, a failed compare-and-swap      *)
(* could leave a token behind and an outcome without a token could be      *)
(* released.                                                               *)
(*                                                                         *)
(* SnapshotCas: as long as nothing was forced, a goroutine whose loaded    *)
(* stamp is the present one has loaded the present snapshot, so the swap   *)
(* that succeeds adds its update to everything that is there.              *)
(*                                                                         *)
(* UsagePipeline: each of the five places that a record passes is in the   *)
(* order of acceptance, and all of it before what the places behind hold   *)
(* (InLine); so no record is in two places, and a step that moves one      *)
(* neither doubles it nor loses it from the count.                         *)
(***************************************************************************)
EXTENDS RetryBudget, SnapshotCas, UsagePipeline, FiniteSetTheorems, SequenceTheorems, TLAPS

-----------------------------------------------------------------------------
(* The token bucket                                                        *)

\* Where the loop stands determines whether the request owns a token.
OwnsToken(r) ==
  \/ pc[r] \in {"release", "releaseCas"}
  \/ pc[r] = "attempt" /\ attempt[r] > 0

TokenDiscipline ==
  \A r \in Request :
    /\ held[r] = OwnsToken(r)
    /\ pc[r] \in {"acquire", "acquireCas"} => attempt[r] > 0
    /\ pc[r] = "acquireCas" => current[r] > 0
    /\ pc[r] = "releaseCas" => current[r] < MaxCapacity

IndInv == TypeOK /\ BudgetConserved /\ TokenDiscipline

-----------------------------------------------------------------------------

\* NewRetryBudget never builds an empty bucket.
LEMMA MaxCapacityType == MaxCapacity \in Nat \ {0}
BY RetryAssumption DEF MaxCapacity

\* The holders of tokens are a finite set, whatever the state.
LEMMA HoldersFinite ==
  /\ IsFiniteSet(Holders)
  /\ Cardinality(Holders) \in Nat
<1>1. Holders \in SUBSET Request BY DEF Holders
<1>2. IsFiniteSet(Holders) BY <1>1, RetryAssumption, FS_Subset
<1>. QED BY <1>2, FS_CardinalityType

LEMMA HoldersFiniteNext ==
  /\ IsFiniteSet(Holders')
  /\ Cardinality(Holders') \in Nat
<1>1. Holders' \in SUBSET Request BY DEF Holders
<1>2. IsFiniteSet(Holders') BY <1>1, RetryAssumption, FS_Subset
<1>. QED BY <1>2, FS_CardinalityType

\* A token leaves the bucket when a request starts to hold one.
LEMMA HoldersGrow ==
  ASSUME TypeOK, NEW r \in Request, ~held[r],
         held' = [held EXCEPT ![r] = TRUE]
  PROVE  /\ Holders' = Holders \cup {r}
         /\ r \notin Holders
         /\ Cardinality(Holders') = Cardinality(Holders) + 1
<1>1. Holders' = Holders \cup {r} BY DEF Holders, TypeOK
<1>2. r \notin Holders BY DEF Holders
<1>. QED BY <1>1, <1>2, HoldersFinite, FS_AddElement

\* ... and comes back when the request stops holding it.
LEMMA HoldersShrink ==
  ASSUME TypeOK, NEW r \in Request, held[r],
         held' = [held EXCEPT ![r] = FALSE]
  PROVE  /\ Holders' = Holders \ {r}
         /\ r \in Holders
         /\ Cardinality(Holders') = Cardinality(Holders) - 1
<1>1. Holders' = Holders \ {r} BY DEF Holders, TypeOK
<1>2. r \in Holders BY DEF Holders
<1>. QED BY <1>1, <1>2, HoldersFinite, FS_RemoveElement

\* A request that holds a token leaves the bucket short of one: this is why
\* the early return of Release never applies to a token that is owned.
LEMMA HeldMeansNotFull ==
  ASSUME BudgetConserved, capacity \in Nat, NEW r \in Request, held[r]
  PROVE  capacity < MaxCapacity
<1>1. r \in Holders BY DEF Holders
<1>2. Cardinality(Holders) > 0
  BY <1>1, HoldersFinite, FS_EmptySet
<1>. QED BY <1>2, HoldersFinite, MaxCapacityType DEF BudgetConserved

-----------------------------------------------------------------------------

LEMMA InitIndInv == Init => IndInv
<1>. SUFFICES ASSUME Init PROVE IndInv OBVIOUS
<1>1. TypeOK
  BY MaxCapacityType, RetryAssumption DEF Init, TypeOK, Steps, Outcomes
<1>2. BudgetConserved
  <2>1. Holders = {} BY DEF Init, Holders
  <2>. QED BY <2>1, FS_EmptySet, MaxCapacityType DEF Init, BudgetConserved
<1>3. TokenDiscipline
  BY DEF Init, TokenDiscipline, OwnsToken
<1>. QED BY <1>1, <1>2, <1>3 DEF IndInv

LEMMA StepIndInv == IndInv /\ [Next]_vars => IndInv'
<1>. SUFFICES ASSUME IndInv, [Next]_vars PROVE IndInv' OBVIOUS
<1>. USE MaxCapacityType, RetryAssumption DEF Goto, Steps, Outcomes
<1>1. ASSUME NEW r \in Request, TryAcquireLoad(r) PROVE IndInv'
  <2>1. TypeOK' BY <1>1 DEF IndInv, TypeOK, TryAcquireLoad
  <2>2. Holders' = Holders BY <1>1 DEF TryAcquireLoad, Holders
  <2>3. BudgetConserved' BY <1>1, <2>2 DEF IndInv, BudgetConserved, TryAcquireLoad
  <2>4. TokenDiscipline'
    BY <1>1 DEF IndInv, TypeOK, TokenDiscipline, OwnsToken, TryAcquireLoad
  <2>. QED BY <2>1, <2>3, <2>4 DEF IndInv
<1>2. ASSUME NEW r \in Request, TryAcquireCas(r) PROVE IndInv'
  <2>1. CASE capacity = current[r]
    <3>1. /\ capacity' = current[r] - 1
          /\ held' = [held EXCEPT ![r] = TRUE]
          /\ pc' = [pc EXCEPT ![r] = "attempt"]
          /\ UNCHANGED <<current, attempt, outcome>>
      BY <1>2, <2>1 DEF TryAcquireCas
    <3>2. /\ ~held[r] /\ current[r] > 0 /\ attempt[r] > 0
      BY <1>2 DEF IndInv, TokenDiscipline, OwnsToken, TryAcquireCas
    <3>3. TypeOK' BY <3>1, <3>2, <2>1 DEF IndInv, TypeOK
    <3>4. BudgetConserved'
      <4>1. TypeOK BY DEF IndInv
      <4>2. Cardinality(Holders') = Cardinality(Holders) + 1
        BY <3>1, <3>2, <4>1, HoldersGrow
      <4>. QED
        BY <3>1, <2>1, <4>1, <4>2, HoldersFinite DEF IndInv, TypeOK, BudgetConserved
    <3>5. TokenDiscipline'
      BY <3>1, <3>2 DEF IndInv, TypeOK, TokenDiscipline, OwnsToken
    <3>. QED BY <3>3, <3>4, <3>5 DEF IndInv
  <2>2. CASE capacity # current[r]
    <3>1. /\ pc' = [pc EXCEPT ![r] = "acquire"]
          /\ UNCHANGED <<capacity, held, current, attempt, outcome>>
      BY <1>2, <2>2 DEF TryAcquireCas
    <3>2. pc[r] = "acquireCas" BY <1>2 DEF TryAcquireCas
    <3>3. TypeOK' BY <3>1 DEF IndInv, TypeOK
    <3>4. BudgetConserved' BY <3>1 DEF IndInv, BudgetConserved, Holders
    <3>5. TokenDiscipline'
      BY <3>1, <3>2 DEF IndInv, TypeOK, TokenDiscipline, OwnsToken
    <3>. QED BY <3>3, <3>4, <3>5 DEF IndInv
  <2>. QED BY <2>1, <2>2
<1>3. ASSUME NEW r \in Request, ReleaseLoad(r) PROVE IndInv'
  <2>1. held[r] /\ pc[r] = "release"
    BY <1>3 DEF IndInv, TokenDiscipline, OwnsToken, ReleaseLoad
  <2>2. capacity < MaxCapacity
    BY <2>1, HeldMeansNotFull DEF IndInv, TypeOK
  <2>3. /\ current' = [current EXCEPT ![r] = capacity]
        /\ pc' = [pc EXCEPT ![r] = "releaseCas"]
        /\ UNCHANGED <<held, capacity, attempt, outcome>>
    BY <1>3, <2>2 DEF ReleaseLoad, IndInv, TypeOK
  <2>4. TypeOK' BY <2>3 DEF IndInv, TypeOK
  <2>5. BudgetConserved' BY <2>3 DEF IndInv, BudgetConserved, Holders
  <2>6. TokenDiscipline'
    BY <2>1, <2>2, <2>3 DEF IndInv, TypeOK, TokenDiscipline, OwnsToken
  <2>. QED BY <2>4, <2>5, <2>6 DEF IndInv
<1>4. ASSUME NEW r \in Request, ReleaseCas(r) PROVE IndInv'
  <2>0. held[r] /\ pc[r] = "releaseCas" /\ current[r] < MaxCapacity
    BY <1>4 DEF IndInv, TokenDiscipline, OwnsToken, ReleaseCas
  <2>1. CASE capacity = current[r]
    <3>1. /\ capacity' = current[r] + 1
          /\ held' = [held EXCEPT ![r] = FALSE]
          /\ pc' = [pc EXCEPT ![r] = AfterAttempt(r, outcome[r])]
          /\ UNCHANGED <<current, attempt, outcome>>
      BY <1>4, <2>1 DEF ReleaseCas
    <3>2. AfterAttempt(r, outcome[r]) \in {"streaming", "done", "decide"}
      BY DEF AfterAttempt
    <3>3. TypeOK' BY <3>1, <3>2, <2>0, <2>1 DEF IndInv, TypeOK
    <3>4. BudgetConserved'
      <4>1. TypeOK BY DEF IndInv
      <4>2. Cardinality(Holders') = Cardinality(Holders) - 1
        BY <3>1, <2>0, <4>1, HoldersShrink
      <4>. QED
        BY <3>1, <2>1, <4>1, <4>2, HoldersFinite DEF IndInv, TypeOK, BudgetConserved
    <3>5. TokenDiscipline'
      BY <3>1, <3>2 DEF IndInv, TypeOK, TokenDiscipline, OwnsToken
    <3>. QED BY <3>3, <3>4, <3>5 DEF IndInv
  <2>2. CASE capacity # current[r]
    <3>1. /\ pc' = [pc EXCEPT ![r] = "release"]
          /\ UNCHANGED <<capacity, held, current, attempt, outcome>>
      BY <1>4, <2>2 DEF ReleaseCas
    <3>2. TypeOK' BY <3>1 DEF IndInv, TypeOK
    <3>3. BudgetConserved' BY <3>1 DEF IndInv, BudgetConserved, Holders
    <3>4. TokenDiscipline'
      BY <3>1, <2>0 DEF IndInv, TypeOK, TokenDiscipline, OwnsToken
    <3>. QED BY <3>2, <3>3, <3>4 DEF IndInv
  <2>. QED BY <2>1, <2>2
<1>5. ASSUME NEW r \in Request, EndAttempt(r) PROVE IndInv'
  <2>1. PICK o \in {"ok", "error"} :
          /\ outcome' = [outcome EXCEPT ![r] = o]
          /\ pc' = [pc EXCEPT ![r] = IF held[r] THEN "release" ELSE AfterAttempt(r, o)]
    BY <1>5 DEF EndAttempt
  <2>2. pc[r] = "attempt" /\ UNCHANGED <<capacity, current, attempt, held>>
    BY <1>5 DEF EndAttempt
  <2>3. AfterAttempt(r, o) \in {"streaming", "done", "decide"} BY DEF AfterAttempt
  <2>4. TypeOK' BY <2>1, <2>2, <2>3 DEF IndInv, TypeOK
  <2>5. BudgetConserved' BY <2>2 DEF IndInv, BudgetConserved, Holders
  <2>6. TokenDiscipline'
    BY <2>1, <2>2, <2>3 DEF IndInv, TypeOK, TokenDiscipline, OwnsToken
  <2>. QED BY <2>4, <2>5, <2>6 DEF IndInv
<1>6. ASSUME NEW r \in Request, Decide(r) PROVE IndInv'
  <2>1. TypeOK' BY <1>6 DEF IndInv, TypeOK, Decide, MaxAttempts
  <2>2. BudgetConserved' BY <1>6 DEF IndInv, BudgetConserved, Holders, Decide
  <2>3. TokenDiscipline'
    <3>1. CASE pc' = [pc EXCEPT ![r] = "done"] /\ UNCHANGED attempt
      BY <1>6, <3>1 DEF IndInv, TypeOK, TokenDiscipline, OwnsToken, Decide
    <3>2. CASE /\ pc' = [pc EXCEPT ![r] = "acquire"]
               /\ attempt' = [attempt EXCEPT ![r] = @ + 1]
      <4>1. attempt[r] \in Nat /\ attempt'[r] > 0
        BY <3>2 DEF IndInv, TypeOK
      <4>2. ~held[r] /\ UNCHANGED <<held, current>>
        BY <1>6 DEF IndInv, TokenDiscipline, OwnsToken, Decide
      <4>. QED
        BY <3>2, <4>1, <4>2 DEF IndInv, TypeOK, TokenDiscipline, OwnsToken
    <3>. QED BY <1>6, <3>1, <3>2 DEF Decide
  <2>. QED BY <2>1, <2>2, <2>3 DEF IndInv
<1>7. ASSUME NEW r \in Request, EndStream(r) PROVE IndInv'
  <2>1. TypeOK' BY <1>7 DEF IndInv, TypeOK, EndStream
  <2>2. BudgetConserved' BY <1>7 DEF IndInv, BudgetConserved, Holders, EndStream
  <2>3. TokenDiscipline'
    BY <1>7 DEF IndInv, TypeOK, TokenDiscipline, OwnsToken, EndStream
  <2>. QED BY <2>1, <2>2, <2>3 DEF IndInv
<1>8. CASE UNCHANGED vars
  BY <1>8 DEF IndInv, TypeOK, BudgetConserved, Holders, TokenDiscipline, OwnsToken, vars
<1>. QED
  BY <1>1, <1>2, <1>3, <1>4, <1>5, <1>6, <1>7, <1>8 DEF Next, Step, Idle

\* The inductive invariant holds in every reachable state.
THEOREM Inductive == Spec => []IndInv
BY InitIndInv, StepIndInv, PTL DEF Spec

-----------------------------------------------------------------------------

\* Every variable of the retry loop keeps its type: in particular the token
\* counter stays between zero and the configured maximum.
THEOREM TypeCorrect == Spec => []TypeOK
<1>1. IndInv => TypeOK BY DEF IndInv
<1>. QED BY <1>1, Inductive, PTL

\* Racing TryAcquire and Release calls neither lose nor duplicate a token.
THEOREM Conservation == Spec => []BudgetConserved
<1>1. IndInv => BudgetConserved BY DEF IndInv
<1>. QED BY <1>1, Inductive, PTL

\* At most MaxCapacity requests are in a retry attempt at once, for any number
\* of requests.
THEOREM BoundedRetries == Spec => []RetriesBounded
<1>1. IndInv => RetriesBounded
  <2>. SUFFICES ASSUME IndInv PROVE RetriesBounded OBVIOUS
  <2>1. Retrying \in SUBSET Holders
    BY DEF IndInv, TokenDiscipline, OwnsToken, Retrying, Holders
  <2>2. Cardinality(Retrying) <= Cardinality(Holders)
    BY <2>1, HoldersFinite, FS_Subset
  <2>3. IsFiniteSet(Retrying) BY <2>1, HoldersFinite, FS_Subset
  <2>4. Cardinality(Retrying) \in Nat BY <2>3, FS_CardinalityType
  <2>. QED
    BY <2>2, <2>4, HoldersFinite, MaxCapacityType
    DEF IndInv, TypeOK, BudgetConserved, RetriesBounded
<1>. QED BY <1>1, Inductive, PTL

\* When every request has left its retry loop no token is missing.
THEOREM QuiescentFull == Spec => []QuiescentBudgetFull
<1>1. IndInv => QuiescentBudgetFull
  <2>. SUFFICES ASSUME IndInv, \A r \in Request : pc[r] \in {"streaming", "done"}
                PROVE  capacity = MaxCapacity
    BY DEF QuiescentBudgetFull
  <2>1. Holders = {}
    BY DEF IndInv, TokenDiscipline, OwnsToken, Holders
  <2>. QED
    BY <2>1, FS_EmptySet, MaxCapacityType DEF IndInv, TypeOK, BudgetConserved
<1>. QED BY <1>1, Inductive, PTL

-----------------------------------------------------------------------------

\* The steps of a counting semaphore: what each step of the loop amounts to.
LEMMA StepImplements ==
  IndInv /\ [Next]_vars => [Permits!SemNext]_(Permits!semVars)
<1>. SUFFICES ASSUME IndInv, [Next]_vars,
                     ~ (UNCHANGED <<capacity, Holders>>)
              PROVE  \E c \in Request : Permits!Acquire(c) \/ Permits!Release(c)
  BY DEF Permits!SemNext, Permits!semVars
<1>. USE DEF Goto
<1>1. ASSUME NEW r \in Request, TryAcquireCas(r) PROVE Permits!Acquire(r)
  <2>1. CASE capacity = current[r]
    <3>1. ~held[r] /\ current[r] > 0 /\ held' = [held EXCEPT ![r] = TRUE]
          /\ capacity' = capacity - 1
      BY <1>1, <2>1 DEF IndInv, TokenDiscipline, OwnsToken, TryAcquireCas
    <3>. QED BY <3>1, <2>1, HoldersGrow DEF IndInv, Permits!Acquire
  <2>2. CASE capacity # current[r]
    BY <1>1, <2>2 DEF TryAcquireCas, Holders
  <2>. QED BY <2>1, <2>2
<1>2. ASSUME NEW r \in Request, ReleaseCas(r) PROVE Permits!Release(r)
  <2>1. CASE capacity = current[r]
    <3>1. held[r] /\ held' = [held EXCEPT ![r] = FALSE] /\ capacity' = capacity + 1
      BY <1>2, <2>1 DEF IndInv, TokenDiscipline, OwnsToken, ReleaseCas
    <3>. QED BY <3>1, HoldersShrink DEF IndInv, Permits!Release
  <2>2. CASE capacity # current[r]
    BY <1>2, <2>2 DEF ReleaseCas, Holders
  <2>. QED BY <2>1, <2>2
<1>3. ASSUME NEW r \in Request, ReleaseLoad(r) PROVE FALSE
  <2>1. held[r]
    BY <1>3 DEF IndInv, TokenDiscipline, OwnsToken, ReleaseLoad
  <2>2. capacity < MaxCapacity BY <2>1, HeldMeansNotFull DEF IndInv, TypeOK
  <2>3. UNCHANGED <<capacity, held>>
    BY <1>3, <2>2, MaxCapacityType DEF ReleaseLoad, IndInv, TypeOK
  <2>. QED BY <2>3 DEF Holders
<1>4. ASSUME NEW r \in Request,
             TryAcquireLoad(r) \/ EndAttempt(r) \/ Decide(r) \/ EndStream(r)
      PROVE  FALSE
  BY <1>4 DEF TryAcquireLoad, EndAttempt, Decide, EndStream, Holders
<1>5. ~ UNCHANGED vars BY DEF vars, Holders
<1>. QED BY <1>1, <1>2, <1>3, <1>4, <1>5 DEF Next, Step, Idle

\* The lock-free bucket implements a counting semaphore of MaxCapacity permits.
THEOREM BudgetIsSemaphore == Spec => ImplementsSemaphore
<1>1. Init => Permits!SemInit
  BY DEF Init, Permits!SemInit, Holders
<1>. QED BY <1>1, StepImplements, Inductive, PTL DEF Spec, ImplementsSemaphore, Permits!SemSpec

-----------------------------------------------------------------------------
(* The snapshots                                                           *)

\* Stamps only grow, and a stamp stands for one snapshot.
LoadedIsPresent ==
  \A w \in Writer :
    /\ old[w].stamp <= snapshot.stamp
    /\ ~forced /\ old[w].stamp = snapshot.stamp => old[w].has = snapshot.has

\* Where a goroutine is bounds its failures.
AttemptsLeft ==
  \A w \in Writer :
    /\ at[w] \in {"load", "swap"} => failures[w] < Attempts
    /\ at[w] = "store" => forced

CasInv == CasTypeOK /\ LoadedIsPresent /\ AttemptsLeft /\ LostOnlyByFallback

LEMMA CasInitEstablishes == CasInit => CasInv
<1> SUFFICES ASSUME CasInit PROVE CasInv
  OBVIOUS
<1>0. /\ snapshot = [stamp |-> 0, has |-> None]
      /\ old = [w \in Writer |-> snapshot]
      /\ failures = None /\ finished = None
      /\ at = [w \in Writer |-> "idle"]
      /\ forced = FALSE
  BY DEF CasInit
<1>1. None \in [Writer -> Nat] /\ \A w \in Writer : None[w] = 0
  BY DEF None
<1>2. snapshot \in Snapshot /\ snapshot.has = None /\ snapshot.stamp = 0
  BY <1>0, <1>1 DEF Snapshot
<1>3. CasTypeOK
  <2>1. 0 \in 0..Attempts
    BY CasAssumption
  <2>2. failures \in [Writer -> 0..Attempts]
    BY <1>0, <2>1 DEF None
  <2>3. old \in [Writer -> Snapshot]
    BY <1>0, <1>2
  <2>4. at \in [Writer -> {"idle", "load", "swap", "fallback", "store"}]
    BY <1>0
  <2> QED BY <1>0, <1>1, <1>2, <2>2, <2>3, <2>4 DEF CasTypeOK
<1>4. LoadedIsPresent
  <2>1. \A w \in Writer : old[w] = snapshot
    BY <1>0
  <2>2. snapshot.stamp <= snapshot.stamp
    BY <1>2
  <2> QED BY <2>1, <2>2 DEF LoadedIsPresent
<1>5. AttemptsLeft /\ LostOnlyByFallback
  BY <1>0, <1>1, <1>2 DEF AttemptsLeft, LostOnlyByFallback, Atomic
<1> QED BY <1>3, <1>4, <1>5 DEF CasInv

LEMMA NextSnapshot ==
  ASSUME CasTypeOK, NEW w \in Writer, NEW s \in Snapshot
  PROVE  /\ With(s, w) \in Snapshot
         /\ With(s, w).stamp = snapshot.stamp + 1
         /\ With(s, w).has = [s.has EXCEPT ![w] = @ + 1]
  BY DEF CasTypeOK, With, Snapshot

LEMMA CasStepPreserves ==
  ASSUME CasInv, NEW w \in Writer, Update(w)
  PROVE  CasInv'
<1> USE CasAssumption
<1>t. CasTypeOK /\ LoadedIsPresent /\ AttemptsLeft /\ LostOnlyByFallback
  BY DEF CasInv
<1>1. CASE Begin(w)
  BY <1>t, <1>1
  DEF CasInv, CasTypeOK, LoadedIsPresent, AttemptsLeft, LostOnlyByFallback, Atomic, Begin, Go
<1>2. CASE Load(w)
  BY <1>t, <1>2
  DEF CasInv, CasTypeOK, Snapshot, LoadedIsPresent, AttemptsLeft, LostOnlyByFallback, Atomic, Load, Go
<1>3. CASE Swap(w)
  <2>1. snapshot' = With(old[w], w) /\ old[w] \in Snapshot /\ snapshot \in Snapshot
    BY <1>t, <1>3 DEF Swap, CasTypeOK
  <2>2. /\ snapshot' \in Snapshot /\ snapshot'.stamp = snapshot.stamp + 1
        /\ snapshot'.has = [old[w].has EXCEPT ![w] = @ + 1]
    BY <1>t, <2>1, NextSnapshot
  <2>3. CasTypeOK'
    BY <1>t, <1>3, <2>2 DEF CasTypeOK, Swap, Return, Go
  <2>4. LoadedIsPresent'
    BY <1>t, <1>3, <2>2 DEF CasTypeOK, Snapshot, LoadedIsPresent, Swap
  <2>5. AttemptsLeft'
    BY <1>t, <1>3 DEF CasTypeOK, AttemptsLeft, Swap, Return, Go
  <2>6. LostOnlyByFallback'
    <3>1. ~forced => old[w].has = snapshot.has
      BY <1>t, <1>3 DEF LoadedIsPresent, Swap
    <3> QED
      BY <1>t, <1>3, <2>1, <2>2, <3>1
      DEF CasTypeOK, Snapshot, LostOnlyByFallback, Atomic, Swap, Return
  <2> QED BY <2>3, <2>4, <2>5, <2>6 DEF CasInv
<1>4. CASE SwapFails(w)
  BY <1>t, <1>4
  DEF CasInv, CasTypeOK, Snapshot, LoadedIsPresent, AttemptsLeft, LostOnlyByFallback, Atomic, SwapFails, Go
<1>5. CASE FallbackLoad(w)
  BY <1>t, <1>5
  DEF CasInv, CasTypeOK, Snapshot, LoadedIsPresent, AttemptsLeft, LostOnlyByFallback, Atomic, FallbackLoad, Go
<1>6. CASE FallbackStore(w)
  <2>1. snapshot' = With(old[w], w) /\ old[w] \in Snapshot /\ snapshot \in Snapshot /\ forced
    BY <1>t, <1>6 DEF FallbackStore, CasTypeOK, AttemptsLeft
  <2>2. snapshot' \in Snapshot /\ snapshot'.stamp = snapshot.stamp + 1
    BY <1>t, <2>1, NextSnapshot
  <2>3. CasTypeOK'
    BY <1>t, <1>6, <2>2 DEF CasTypeOK, FallbackStore, Return, Go
  <2>4. LoadedIsPresent'
    BY <1>t, <1>6, <2>1, <2>2 DEF CasTypeOK, Snapshot, LoadedIsPresent, FallbackStore
  <2>5. AttemptsLeft'
    BY <1>t, <1>6 DEF CasTypeOK, AttemptsLeft, FallbackStore, Return, Go
  <2>6. LostOnlyByFallback'
    BY <1>6, <2>1 DEF LostOnlyByFallback, FallbackStore
  <2> QED BY <2>3, <2>4, <2>5, <2>6 DEF CasInv
<1>7. CASE ClearGivesUp(w)
  BY <1>t, <1>7
  DEF CasInv, CasTypeOK, Snapshot, LoadedIsPresent, AttemptsLeft, LostOnlyByFallback, ClearGivesUp, Return, Go
<1> QED
  BY <1>1, <1>2, <1>3, <1>4, <1>5, <1>6, <1>7 DEF Update

THEOREM CasInvariant == CasSpec => []CasInv
<1>1. CasInv /\ UNCHANGED casVars => CasInv'
  BY DEF CasInv, CasTypeOK, LoadedIsPresent, AttemptsLeft, LostOnlyByFallback, Atomic, casVars
<1>2. CasInv /\ [CasNext]_casVars => CasInv'
  BY <1>1, CasStepPreserves DEF CasNext
<1> QED
  BY <1>2, CasInitEstablishes, PTL DEF CasSpec

\* Type correctness: an update fails at most Attempts times
\* (auth_entry.go:614, 631, 650, 667).
THEOREM CasTypeCorrect == CasSpec => []CasTypeOK
  BY CasInvariant, PTL DEF CasInv

\* For any number of goroutines, attempts and updates: until a fall-back has
\* been taken every update is in the snapshot exactly once.
THEOREM LoopLosesNothing == CasSpec => []LostOnlyByFallback
  BY CasInvariant, PTL DEF CasInv

-----------------------------------------------------------------------------
(* Every failed swap is another goroutine's update                         *)

\* A goroutine's failures and updates are paid for with stamps: at the swap
\* with those it has loaded, so that a stamp it has not seen pays for the next
\* failure.
FailuresPaid ==
  \A w \in Writer :
    /\ finished[w] <= snapshot.stamp
    /\ at[w] # "idle" => failures[w] + finished[w] <= snapshot.stamp
    /\ at[w] = "swap" => failures[w] + finished[w] <= old[w].stamp
    /\ at[w] = "fallback" => failures[w] >= 1

LEMMA CasStepPays ==
  ASSUME CasInv, FailuresPaid, NEW w \in Writer, Update(w)
  PROVE  FailuresPaid'
<1>t. CasTypeOK /\ LoadedIsPresent
  BY DEF CasInv
<1>1. CASE Begin(w)
  BY <1>t, <1>1 DEF CasTypeOK, Snapshot, FailuresPaid, Begin, Go
<1>2. CASE Load(w)
  BY <1>t, <1>2 DEF CasTypeOK, Snapshot, FailuresPaid, Load, Go
<1>3. CASE Swap(w)
  <2>1. /\ snapshot'.stamp = snapshot.stamp + 1 /\ old' = old
        /\ finished' = [finished EXCEPT ![w] = @ + 1]
        /\ failures' = failures /\ at' = [at EXCEPT ![w] = "idle"]
    BY <1>t, <1>3, NextSnapshot DEF Swap, Return, Go, CasTypeOK
  <2> QED BY <1>t, <2>1 DEF CasTypeOK, Snapshot, FailuresPaid
<1>4. CASE SwapFails(w)
  <2>1. old[w].stamp < snapshot.stamp
    <3>1. old[w] \in Snapshot /\ snapshot \in Snapshot
      BY <1>t DEF CasTypeOK
    <3>2. old[w].stamp \in Nat /\ snapshot.stamp \in Nat
      BY <3>1 DEF Snapshot
    <3>3. old[w].stamp <= snapshot.stamp /\ snapshot.stamp # old[w].stamp
      BY <1>t, <1>4 DEF LoadedIsPresent, SwapFails
    <3> QED BY <3>2, <3>3
  <2> QED BY <1>t, <1>4, <2>1 DEF CasTypeOK, Snapshot, FailuresPaid, SwapFails, Go
<1>5. CASE FallbackLoad(w)
  BY <1>t, <1>5 DEF CasTypeOK, Snapshot, FailuresPaid, FallbackLoad, Go
<1>6. CASE FallbackStore(w)
  <2>1. /\ snapshot'.stamp = snapshot.stamp + 1 /\ old' = old
        /\ finished' = [finished EXCEPT ![w] = @ + 1]
        /\ failures' = failures /\ at' = [at EXCEPT ![w] = "idle"]
    BY <1>t, <1>6, NextSnapshot DEF FallbackStore, Return, Go, CasTypeOK
  <2> QED BY <1>t, <2>1 DEF CasTypeOK, Snapshot, FailuresPaid
<1>7. CASE ClearGivesUp(w)
  BY <1>t, <1>7 DEF CasTypeOK, Snapshot, FailuresPaid, ClearGivesUp, Return, Go
<1> QED
  BY <1>1, <1>2, <1>3, <1>4, <1>5, <1>6, <1>7 DEF Update

\* The loops are lock-free, for any number of goroutines: nobody fails more often
\* than others succeed (auth_entry.go:614, 631, 650, 667).
THEOREM LoopIsLockFree == CasSpec => []FailureMeansProgress
<1>1. CasInit => FailuresPaid
  <2>1. \A w \in Writer : None[w] = 0
    BY DEF None
  <2>2. ASSUME CasInit, NEW w \in Writer
        PROVE  snapshot.stamp = 0 /\ finished[w] = 0 /\ at[w] = "idle"
    BY <2>1, <2>2 DEF CasInit
  <2>3. ASSUME CasInit, NEW w \in Writer
        PROVE  /\ finished[w] <= snapshot.stamp
               /\ at[w] \notin {"swap", "fallback"} /\ at[w] = "idle"
    BY <2>2, <2>3
  <2> QED BY <2>3 DEF FailuresPaid
<1>2. CasInv /\ FailuresPaid /\ [CasNext]_casVars => FailuresPaid'
  <2>1. CasInv /\ FailuresPaid /\ UNCHANGED casVars => FailuresPaid'
    BY DEF FailuresPaid, casVars
  <2> QED BY <2>1, CasStepPays DEF CasNext
<1>3. FailuresPaid => FailureMeansProgress
  BY DEF FailuresPaid, FailureMeansProgress
<1> QED
  BY <1>1, <1>2, <1>3, CasInvariant, PTL DEF CasSpec

-----------------------------------------------------------------------------
(* The usage records                                                       *)

\* A process that has ended holds nothing.
Ended == ~Alive => batch = <<>> /\ chan = <<>> /\ item = <<>> /\ queue = <<>>

UsageTyped == UsageTypeOK /\ Ended

LEMMA NoCounted == NoCount \in Count
  BY DEF NoCount, Count

LEMMA Bumped ==
  ASSUME NEW c \in Count
  PROVE  /\ [c EXCEPT !.total = @ + 1] \in Count
         /\ [c EXCEPT !.success = @ + 1] \in Count
         /\ [c EXCEPT !.failure = @ + 1] \in Count
  BY DEF Count

LEMMA CountedTyped ==
  ASSUME NEW c \in Count, NEW f \in BOOLEAN
  PROVE  Counted(c, f) \in Count
  <1> DEFINE d == [c EXCEPT !.total = @ + 1]
  <1>1. d \in Count
    BY Bumped
  <1>2. Counted(c, TRUE) = [d EXCEPT !.failure = @ + 1]
    BY DEF Counted, Count
  <1>3. Counted(c, FALSE) = [d EXCEPT !.success = @ + 1]
    BY DEF Counted, Count
  <1>4. f = TRUE \/ f = FALSE
    OBVIOUS
  <1> HIDE DEF d
  <1> QED BY <1>1, <1>2, <1>3, <1>4, Bumped

LEMMA StoredTyped == UsageTyped => Stored \in Count
  <1> SUFFICES ASSUME UsageTyped PROVE Stored \in Count
    OBVIOUS
  <1>1. IsFiniteSet(1..lastRow)
    BY FS_Interval DEF UsageTyped, UsageTypeOK, DatabaseTyped
  <1>2. ASSUME NEW S \in SUBSET DOMAIN table PROVE Cardinality(S) \in Nat
    <2>1. S \subseteq 1..lastRow
      BY DEF UsageTyped, UsageTypeOK, DatabaseTyped
    <2> QED BY <1>1, <2>1, FS_Subset, FS_CardinalityType
  <1>3. \A f \in BOOLEAN : CountRows(f) \in Nat
    <2> TAKE f \in BOOLEAN
    <2>1. {id \in DOMAIN table : failed[table[id]] = f} \in SUBSET DOMAIN table
      OBVIOUS
    <2> QED BY <1>2, <2>1 DEF CountRows
  <1>4. Cardinality(DOMAIN table) \in Nat
    BY <1>2
  <1> QED BY <1>3, <1>4 DEF Stored, Count

LEMMA NothingHeld == <<>> \in Seq(Call) /\ Len(<<>>) = 0
  OBVIOUS

LEMMA UsageInitTyped == UsageInit => UsageTyped
  <1> SUFFICES ASSUME UsageInit PROVE UsageTyped
    OBVIOUS
  <1>1. CallsTyped /\ ServiceTyped /\ FateTyped
    BY UsageAssumption DEF UsageInit, CallsTyped, ServiceTyped, FateTyped
  <1>2. ManagerTyped /\ OneItem
    BY NothingHeld DEF UsageInit, ManagerTyped, OneItem
  <1>3. BackendTyped /\ WithinBounds
    BY NothingHeld, UsageAssumption DEF UsageInit, BackendTyped, WithinBounds
  <1>4. PluginTyped /\ SwitchesTyped
    BY Zenon, NoCounted DEF UsageInit, PluginTyped, SwitchesTyped
  <1>5. DatabaseTyped
    BY DEF UsageInit, DatabaseTyped
  <1>6. Ended
    BY DEF UsageInit, Ended
  <1> QED BY <1>1, <1>2, <1>3, <1>4, <1>5, <1>6 DEF UsageTyped, UsageTypeOK

LEMMA LoseTyped ==
  ASSUME FateTyped, NEW S, NEW how \in {"closed", "disabled", "full", "failed", "expired", "crash"},
         Lose(S, how)
  PROVE  FateTyped'
  <1> DEFINE Fates == {"none", "closed", "disabled", "full", "failed", "expired",
                       "undispatched", "unwritten", "crash"}
  <1>1. how \in Fates /\ fate \in [Call -> Fates]
    BY DEF FateTyped
  <1> HIDE DEF Fates
  <1>2. fate' \in [Call -> Fates]
    BY <1>1 DEF Lose
  <1> QED BY <1>2 DEF FateTyped, Fates

USE DEF UsageTyped, UsageTypeOK

\* What the steps of a call do to the types.
LEMMA CallTyped ==
  ASSUME UsageTyped, NEW r \in Call,
         Arrive(r) \/ Leave(r) \/ \E f \in BOOLEAN : Publish(r, f)
  PROVE  UsageTyped'
  <1>1. CallsTyped'
    <2>1. CASE Arrive(r)
      BY <2>1 DEF CallsTyped, Arrive
    <2>2. CASE Leave(r)
      BY <2>2 DEF CallsTyped, Leave
    <2>3. ASSUME NEW f \in BOOLEAN, Publish(r, f) PROVE CallsTyped'
      <3>1. boots \in 0..MaxBoots
        BY DEF ServiceTyped
      <3>2. /\ phase' = phase /\ once' = [once EXCEPT ![r] = TRUE]
            /\ failed' = [failed EXCEPT ![r] = f] /\ born' = [born EXCEPT ![r] = boots]
        BY <2>3 DEF Publish
      <3> QED BY <3>1, <3>2 DEF CallsTyped
    <2> QED BY <2>1, <2>2, <2>3
  <1>2. ManagerTyped'
    <2>1. \/ UNCHANGED <<accepted, queue>>
          \/ accepted' = Append(accepted, r) /\ queue' = Append(queue, r)
      BY DEF Arrive, Leave, Publish, manager
    <2>2. UNCHANGED <<item, dispatch>>
      BY DEF Arrive, Leave, Publish, manager
    <2>3. Append(accepted, r) \in Seq(Call) /\ Append(queue, r) \in Seq(Call)
      BY AppendProperties DEF ManagerTyped
    <2> QED BY <2>1, <2>2, <2>3 DEF ManagerTyped
  <1>3. PluginTyped' /\ ServiceTyped'
    BY DEF PluginTyped, ServiceTyped, Arrive, Leave, Publish, plugin
  <1>4. BackendTyped' /\ WithinBounds'
    BY DEF BackendTyped, WithinBounds, Arrive, Leave, Publish, backend
  <1>5. DatabaseTyped'
    BY DEF DatabaseTyped, Arrive, Leave, Publish, database
  <1>6. FateTyped'
    BY LoseTyped DEF FateTyped, Arrive, Leave, Publish
  <1>7. Ended' /\ OneItem'
    BY DEF Ended, OneItem, Arrive, Leave, Publish, Alive, manager, backend
  <1>8. SwitchesTyped'
    BY Zenon DEF SwitchesTyped, Arrive, Leave, Publish, manager, plugin, backend
  <1> QED BY <1>1, <1>2, <1>3, <1>4, <1>5, <1>6, <1>7, <1>8

\* The dispatcher and the plugin;
DispatcherStep == Take \/ DispatcherEnds \/ Skip \/ Record \/ Enqueue \/ SetStatisticsEnabled

LEMMA DispatcherTyped ==
  ASSUME UsageTyped, DispatcherStep
  PROVE  UsageTyped'
  <1> USE DEF DispatcherStep, Take, DispatcherEnds, Skip, Record, Enqueue, SetStatisticsEnabled
  <1>1. CallsTyped' /\ ServiceTyped'
    BY DEF CallsTyped, ServiceTyped, calls
  <1>2. ManagerTyped' /\ OneItem'
    <2>1. CASE Take
      <3>1. queue \in Seq(Call) /\ Head(queue) \in Call /\ Tail(queue) \in Seq(Call)
        BY <2>1, HeadTailProperties DEF ManagerTyped
      <3>2. <<Head(queue)>> \in Seq(Call) /\ Len(<<Head(queue)>>) = 1
        BY <3>1
      <3> QED BY <2>1, <3>1, <3>2 DEF ManagerTyped, OneItem, Alive
    <2>2. CASE Skip \/ Enqueue
      <3>1. item' = <<>> /\ dispatch' = "wait" /\ UNCHANGED <<accepted, queue>>
        BY <2>2
      <3> QED BY <3>1, NothingHeld DEF ManagerTyped, OneItem
    <2>3. CASE DispatcherEnds \/ Record
      <3>1. UNCHANGED <<accepted, queue, item, service>> /\ Alive
        BY <2>3
      <3>2. \/ dispatch = "wait" /\ dispatch' = "done"
            \/ dispatch = "handle" /\ dispatch' = "enqueue"
        BY <2>3
      <3> QED BY <3>1, <3>2 DEF ManagerTyped, OneItem, Alive
    <2>4. CASE SetStatisticsEnabled
      BY <2>4 DEF ManagerTyped, OneItem, manager, Alive
    <2> QED BY <2>1, <2>2, <2>3, <2>4
  <1>3. PluginTyped'
    <2>1. CASE Record
      <3>1. item[1] \in Call
        <4>1. item \in Seq(Call) /\ Len(item) = 1
          BY <2>1 DEF ManagerTyped, OneItem
        <4> QED BY <4>1, ElementOfSeq
      <3>2. failed[item[1]] \in BOOLEAN
        BY <3>1 DEF CallsTyped
      <3> QED BY <2>1, <3>2, CountedTyped DEF PluginTyped
    <2> QED BY <2>1 DEF PluginTyped, plugin
  <1>4. BackendTyped' /\ WithinBounds'
    <2>1. CASE Enqueue
      <3>1. UNCHANGED <<batch, writer, cleaner, owed>>
        BY <2>1
      <3>2. chan' = chan \/ (Len(chan) < Buffer /\ chan' = chan \o item)
        BY <2>1
      <3>3. chan \in Seq(Call) /\ item \in Seq(Call) /\ Len(item) <= 1 /\ Len(chan) <= Buffer
        BY DEF ManagerTyped, BackendTyped, OneItem, WithinBounds
      <3>4. chan \o item \in Seq(Call) /\ Len(chan \o item) = Len(chan) + Len(item)
        BY <3>3, ConcatProperties
      <3>5. chan' \in Seq(Call) /\ Len(chan') <= Buffer
        BY <3>2, <3>3, <3>4, UsageAssumption
      <3> QED BY <3>1, <3>5 DEF BackendTyped, WithinBounds
    <2> QED BY <2>1 DEF BackendTyped, WithinBounds, backend
  <1>5. DatabaseTyped'
    BY DEF DatabaseTyped, database
  <1>6. FateTyped'
    BY LoseTyped DEF FateTyped
  <1>7. Ended'
    BY DEF Ended, Alive
  <1>8. SwitchesTyped'
    BY Zenon DEF SwitchesTyped, manager, plugin, backend
  <1> QED BY <1>1, <1>2, <1>3, <1>4, <1>5, <1>6, <1>7, <1>8

\* the write loop and the clean-up;
WriterStep == Receive \/ Tick \/ SeesStop \/ Drained \/ Flush \/ Cleanup \/ CleanerSeesStop

LEMMA InsertTyped ==
  ASSUME UsageTyped, Insert
  PROVE  /\ DatabaseTyped'
         /\ \A id \in DOMAIN table : table'[id] = table[id]
         /\ \A i \in DOMAIN batch : lastRow + i \in DOMAIN table' /\ table'[lastRow + i] = batch[i]
         /\ \A id \in DOMAIN table' :
              \/ id \in DOMAIN table
              \/ id - lastRow \in DOMAIN batch /\ id > lastRow /\ table'[id] = batch[id - lastRow]
         /\ DOMAIN table \subseteq DOMAIN table'
  <1>1. lastRow \in Nat /\ Len(batch) \in Nat /\ DOMAIN batch = 1..Len(batch)
        /\ batch \in Seq(Call) /\ DOMAIN table \subseteq 1..lastRow
    BY DEF DatabaseTyped, BackendTyped
  <1>2. DOMAIN table' = DOMAIN table \cup (lastRow + 1 .. lastRow + Len(batch))
    BY DEF Insert, NewIds
  <1>3. \A id \in DOMAIN table : table'[id] = table[id]
    BY <1>1 DEF Insert, NewIds
  <1>4. \A id \in lastRow + 1 .. lastRow + Len(batch) :
           table'[id] = batch[id - lastRow] /\ id - lastRow \in DOMAIN batch /\ id > lastRow
    BY <1>1 DEF Insert, NewIds
  <1>5. \A i \in DOMAIN batch : lastRow + i \in lastRow + 1 .. lastRow + Len(batch) /\ (lastRow + i) - lastRow = i
    BY <1>1
  <1>6. lastRow' = lastRow + Len(batch)
    BY DEF Insert
  <1>8. \A id \in DOMAIN table' : table'[id] \in Call
    <2> TAKE id \in DOMAIN table'
    <2>1. CASE id \in DOMAIN table
      BY <2>1, <1>3 DEF DatabaseTyped
    <2>2. CASE id \in lastRow + 1 .. lastRow + Len(batch)
      BY <2>2, <1>4, <1>1
    <2> QED BY <2>1, <2>2, <1>2
  <1>9. DatabaseTyped'
    <2>1. lastRow' \in Nat /\ DOMAIN table' \subseteq 1..lastRow'
      BY <1>1, <1>2, <1>6
    <2> QED BY <2>1, <1>8 DEF DatabaseTyped
  <1> QED BY <1>2, <1>3, <1>4, <1>5, <1>9

LEMMA CleanupRows ==
  ASSUME UsageTyped, NEW aged \in SUBSET DOMAIN table,
         table' = Restrict(table, DOMAIN table \ aged), lastRow' = lastRow
  PROVE  /\ DatabaseTyped' /\ DOMAIN table' = DOMAIN table \ aged
         /\ \A id \in DOMAIN table' : table'[id] = table[id]
  BY DEF DatabaseTyped, Restrict

LEMMA WriterTyped ==
  ASSUME UsageTyped, WriterStep
  PROVE  UsageTyped'
  <1> USE DEF WriterStep, Others
  <1>1. CallsTyped' /\ ServiceTyped' /\ PluginTyped' /\ ManagerTyped' /\ OneItem'
    BY DEF CallsTyped, ServiceTyped, PluginTyped, ManagerTyped, OneItem, calls, manager, plugin,
           Alive, Receive, Tick, SeesStop, Drained, Flush, Cleanup, CleanerSeesStop
  <1>2. BackendTyped' /\ WithinBounds'
    <2>1. CASE Receive
      <3>1. chan \in Seq(Call) /\ Head(chan) \in Call /\ Tail(chan) \in Seq(Call)
            /\ Len(Tail(chan)) = Len(chan) - 1
        BY <2>1, HeadTailProperties DEF BackendTyped, Receive
      <3>2. Append(batch, Head(chan)) \in Seq(Call) /\ Len(Append(batch, Head(chan))) = Len(batch) + 1
        BY <3>1, AppendProperties DEF BackendTyped
      <3>3. BackendTyped'
        BY <2>1, <3>1, <3>2 DEF BackendTyped, Receive
      <3>4. Len(batch) \in Nat /\ Len(chan) \in Nat
        BY DEF BackendTyped
      <3> QED BY <2>1, <3>1, <3>2, <3>3, <3>4, UsageAssumption DEF WithinBounds, Receive
    <2>2. CASE Tick \/ SeesStop \/ Drained
      <3>1. UNCHANGED <<chan, batch, cleaner, owed>>
            /\ writer' \in {"flush", "drain", "lastflush", "done"} /\ writer \in {"select", "drain"}
        BY <2>2 DEF Tick, SeesStop, Drained
      <3> QED BY <3>1 DEF BackendTyped, WithinBounds
    <2>3. CASE Flush
      <3>1. UNCHANGED <<chan, cleaner, owed>> /\ batch' = <<>>
            /\ writer' \in {"select", "drain", "done"}
        BY <2>3 DEF Flush
      <3> QED BY <3>1, NothingHeld, UsageAssumption DEF BackendTyped, WithinBounds
    <2>4. CASE Cleanup \/ CleanerSeesStop
      <3>1. UNCHANGED <<chan, batch, writer, owed>> /\ cleaner' \in {cleaner, "done"}
        BY <2>4 DEF Cleanup, CleanerSeesStop, backend
      <3> QED BY <3>1 DEF BackendTyped, WithinBounds
    <2> QED BY <2>1, <2>2, <2>3, <2>4
  <1>3. DatabaseTyped'
    <2>1. CASE Flush
      BY <2>1, InsertTyped DEF DatabaseTyped, Flush, database
    <2>2. CASE Cleanup
      BY <2>2, CleanupRows DEF Cleanup
    <2> QED BY <2>1, <2>2 DEF DatabaseTyped, database, Receive, Tick, SeesStop, Drained, CleanerSeesStop
  <1>4. FateTyped'
    BY LoseTyped DEF FateTyped, Receive, Tick, SeesStop, Drained, Flush, Cleanup, CleanerSeesStop
  <1>5. Ended'
    BY DEF Ended, Alive, Receive, Tick, SeesStop, Drained, Flush, Cleanup, CleanerSeesStop
  <1>6. SwitchesTyped'
    BY Zenon DEF SwitchesTyped, manager, plugin, backend, Receive, Tick, SeesStop, Drained, Flush, Cleanup, CleanerSeesStop
  <1> QED BY <1>1, <1>2, <1>3, <1>4, <1>5, <1>6

\* the shutdown, the end of the process and its start.
StopStep == BeginShutdown \/ StopBackend \/ HttpExpired \/ BackendStopped \/ StopDefault

LEMMA StopTyped ==
  ASSUME UsageTyped, StopStep
  PROVE  UsageTyped'
  <1> USE DEF StopStep, Rest, BeginShutdown, StopBackend, HttpExpired, BackendStopped, StopDefault
  <1>1. CallsTyped' /\ PluginTyped' /\ DatabaseTyped' /\ FateTyped'
    BY DEF CallsTyped, PluginTyped, DatabaseTyped, FateTyped, calls, plugin, database
  <1>2. ManagerTyped' /\ OneItem' /\ ServiceTyped'
    BY DEF ManagerTyped, OneItem, ServiceTyped, Alive
  <1>3. BackendTyped' /\ WithinBounds'
    <2>1. UNCHANGED <<chan, batch, writer, cleaner>>
          /\ owed' \in {owed, ToSet(chan) \cup ToSet(batch)}
      BY DEF backend
    <2>2. ToSet(chan) \subseteq Call /\ ToSet(batch) \subseteq Call
      BY DEF ToSet, BackendTyped
    <2> QED BY <2>1, <2>2 DEF BackendTyped, WithinBounds
  <1>4. Ended'
    BY DEF Ended, Alive
  <1>5. SwitchesTyped'
    BY Zenon DEF SwitchesTyped, plugin, backend
  <1> QED BY <1>1, <1>2, <1>3, <1>4, <1>5

LEMMA ExitTyped ==
  ASSUME UsageTyped, Exit \/ Crash
  PROVE  UsageTyped'
  <1>1. Exited
    BY DEF Exit, Crash
  <1>2. PluginTyped' /\ DatabaseTyped' /\ ServiceTyped'
    BY <1>1 DEF Exited, PluginTyped, DatabaseTyped, ServiceTyped, plugin, database
  <1>3. CallsTyped'
    BY <1>1 DEF Exited, CallsTyped
  <1>4. ManagerTyped' /\ OneItem'
    BY <1>1, NothingHeld DEF Exited, ManagerTyped, OneItem, Alive
  <1>5. BackendTyped' /\ WithinBounds'
    BY <1>1, NothingHeld, UsageAssumption DEF Exited, BackendTyped, WithinBounds
  <1>6. FateTyped'
    <2>1. CASE Exit
      BY <2>1 DEF Exit, FateTyped
    <2>2. CASE Crash
      BY <2>2, LoseTyped DEF Crash
    <2> QED BY <2>1, <2>2
  <1>7. Ended'
    BY <1>1 DEF Exited, Ended
  <1>8. SwitchesTyped'
    BY Zenon, <1>1 DEF SwitchesTyped, Exited, plugin
  <1> QED BY <1>2, <1>3, <1>4, <1>5, <1>6, <1>7, <1>8

LEMMA BootTyped ==
  ASSUME UsageTyped, Boot
  PROVE  UsageTyped'
  <1>1. batch = <<>> /\ item = <<>> /\ chan = <<>> /\ queue = <<>>
    BY DEF Boot, Ended, Alive
  <1>2. PluginTyped'
    BY StoredTyped, NoCounted DEF Boot, PluginTyped
  <1>3. CallsTyped' /\ DatabaseTyped' /\ FateTyped'
    BY DEF Boot, CallsTyped, DatabaseTyped, FateTyped, calls, database
  <1>4. ManagerTyped' /\ OneItem'
    BY <1>1, NothingHeld DEF Boot, ManagerTyped, OneItem
  <1>5. BackendTyped' /\ WithinBounds'
    BY <1>1, NothingHeld, UsageAssumption DEF Boot, BackendTyped, WithinBounds
  <1>6. ServiceTyped'
    BY UsageAssumption DEF Boot, ServiceTyped
  <1>7. Ended'
    BY <1>1 DEF Boot, Ended
  <1>8. SwitchesTyped'
    BY Zenon DEF SwitchesTyped, Boot
  <1> QED BY <1>2, <1>3, <1>4, <1>5, <1>6, <1>7, <1>8

LEMMA UsageStutterTyped ==
  ASSUME UsageTyped, UNCHANGED usageVars
  PROVE  UsageTyped'
  <1> USE DEF usageVars, calls, manager, plugin, backend, database
  <1>1. CallsTyped' /\ ManagerTyped' /\ OneItem' /\ PluginTyped' /\ BackendTyped' /\ WithinBounds'
    BY DEF CallsTyped, ManagerTyped, OneItem, PluginTyped, BackendTyped, WithinBounds, Alive
  <1>2. DatabaseTyped' /\ FateTyped' /\ ServiceTyped' /\ Ended'
    BY DEF DatabaseTyped, FateTyped, ServiceTyped, Ended, Alive
  <1>3. SwitchesTyped'
    BY Zenon DEF SwitchesTyped
  <1> QED BY <1>1, <1>2, <1>3

LEMMA UsageSteps ==
  ASSUME [UsageNext]_usageVars
  PROVE  \/ \E r \in Call : Arrive(r) \/ Leave(r) \/ \E f \in BOOLEAN : Publish(r, f)
         \/ DispatcherStep \/ WriterStep \/ StopStep \/ Exit \/ Crash \/ Boot
         \/ UNCHANGED usageVars
  BY DEF UsageNext, DispatcherStep, WriterStep, StopStep

LEMMA UsageNextTyped == UsageTyped /\ [UsageNext]_usageVars => UsageTyped'
  <1> SUFFICES ASSUME UsageTyped, [UsageNext]_usageVars PROVE UsageTyped'
    OBVIOUS
  <1> HIDE DEF UsageTyped
  <1> QED BY UsageSteps, CallTyped, DispatcherTyped, WriterTyped, StopTyped, ExitTyped, BootTyped,
             UsageStutterTyped

\* For any calls, buffers, batches and restarts every variable of the pipeline
\* keeps its type: the channel and the batch keep within their bounds
\* (sqlite_backend.go) and the dispatcher has a record just while it handles one.
THEOREM UsageTypeCorrect == UsageSpec => []UsageTypeOK
  <1>1. UsageSpec => []UsageTyped
    <2> HIDE DEF UsageTyped
    <2> QED BY UsageInitTyped, UsageNextTyped, PTL DEF UsageSpec
  <1> QED BY <1>1, PTL DEF UsageTyped

-----------------------------------------------------------------------------
(* The order of the records                                                *)

Precedes(log, a, b) == \E i, j \in DOMAIN log : i < j /\ log[i] = a /\ log[j] = b
InTurn(log, s) == \A i, j \in DOMAIN s : i < j => Precedes(log, s[i], s[j])
Below(log, S, T) == \A a \in S, b \in T : Precedes(log, a, b)
Distinct(log) == \A i, j \in DOMAIN log : log[i] = log[j] => i = j

LEMMA PrecedesOnce ==
  ASSUME NEW log \in Seq(Call), Distinct(log), NEW a
  PROVE  ~Precedes(log, a, a)
  BY DEF Precedes, Distinct

LEMMA PrecedesOn ==
  ASSUME NEW log \in Seq(Call), NEW x \in Call
  PROVE  /\ \A a, b : Precedes(log, a, b) => Precedes(Append(log, x), a, b)
         /\ \A a \in ToSet(log) : Precedes(Append(log, x), a, x)
         /\ Distinct(log) /\ x \notin ToSet(log) => Distinct(Append(log, x))
  <1> DEFINE more == Append(log, x)
  <1>1. Len(log) \in Nat /\ DOMAIN log = 1..Len(log) /\ DOMAIN more = 1..(Len(log) + 1)
        /\ more[Len(log) + 1] = x /\ \A i \in DOMAIN log : more[i] = log[i]
    OBVIOUS
  <1> HIDE DEF more
  <1>2. DOMAIN log \subseteq DOMAIN more /\ Len(log) + 1 \in DOMAIN more
        /\ (\A i \in DOMAIN log : i < Len(log) + 1)
        /\ (\A i \in DOMAIN more : i \in DOMAIN log \/ i = Len(log) + 1)
    BY <1>1
  <1>3. \A a, b : Precedes(log, a, b) => Precedes(more, a, b)
    BY <1>1, <1>2 DEF Precedes
  <1>4. \A a \in ToSet(log) : Precedes(more, a, x)
    BY <1>1, <1>2 DEF Precedes, ToSet
  <1>5. Distinct(log) /\ x \notin ToSet(log) => Distinct(more)
    BY <1>1, <1>2 DEF Distinct, ToSet
  <1> QED BY <1>3, <1>4, <1>5 DEF more

LEMMA SetAppend ==
  ASSUME NEW s \in Seq(Call), NEW x \in Call
  PROVE  ToSet(Append(s, x)) = ToSet(s) \cup {x}
  <1> DEFINE t == Append(s, x)
  <1>1. DOMAIN t = DOMAIN s \cup {Len(s) + 1} /\ t[Len(s) + 1] = x
        /\ \A i \in DOMAIN s : t[i] = s[i]
    OBVIOUS
  <1> HIDE DEF t
  <1>2. ToSet(t) = ToSet(s) \cup {x}
    BY <1>1 DEF ToSet
  <1> QED BY <1>2 DEF t

LEMMA TurnAppend ==
  ASSUME NEW log, NEW s \in Seq(Call), NEW x \in Call, InTurn(log, s), Below(log, ToSet(s), {x})
  PROVE  InTurn(log, Append(s, x))
  <1> DEFINE t == Append(s, x)
  <1>1. DOMAIN t = DOMAIN s \cup {Len(s) + 1} /\ t[Len(s) + 1] = x
        /\ (\A i \in DOMAIN s : t[i] = s[i]) /\ DOMAIN s = 1..Len(s) /\ Len(s) \in Nat
    OBVIOUS
  <1> HIDE DEF t
  <1>2. SUFFICES ASSUME NEW i \in DOMAIN t, NEW j \in DOMAIN t, i < j PROVE Precedes(log, t[i], t[j])
    BY DEF InTurn, t
  <1>3. i \in DOMAIN s
    BY <1>1, <1>2
  <1>4. CASE j \in DOMAIN s
    BY <1>1, <1>2, <1>3, <1>4 DEF InTurn
  <1>5. CASE j = Len(s) + 1
    BY <1>1, <1>3, <1>5 DEF Below, ToSet
  <1> QED BY <1>1, <1>4, <1>5

LEMMA SetTail ==
  ASSUME NEW s \in Seq(Call), s # <<>>
  PROVE  /\ Head(s) \in Call /\ Tail(s) \in Seq(Call)
         /\ ToSet(s) = {Head(s)} \cup ToSet(Tail(s))
         /\ \A log : InTurn(log, s) =>
              InTurn(log, Tail(s)) /\ Below(log, {Head(s)}, ToSet(Tail(s)))
  <1> DEFINE t == Tail(s)
  <1>1. Len(s) \in Nat \ {0} /\ DOMAIN s = 1..Len(s) /\ DOMAIN t = 1..(Len(s) - 1)
        /\ Head(s) = s[1] /\ \A i \in DOMAIN t : t[i] = s[i + 1]
    BY HeadTailProperties
  <1>2. Head(s) \in Call /\ t \in Seq(Call)
    BY HeadTailProperties
  <1> HIDE DEF t
  <1>3. 1 \in DOMAIN s /\ \A i \in DOMAIN t : i + 1 \in DOMAIN s /\ 1 < i + 1
    BY <1>1
  <1>4. \A i \in DOMAIN s : i = 1 \/ (i - 1 \in DOMAIN t /\ (i - 1) + 1 = i)
    BY <1>1
  <1>5. ToSet(s) = {Head(s)} \cup ToSet(t)
    <2>1. \A i \in DOMAIN s : s[i] \in {Head(s)} \cup ToSet(t)
      BY <1>1, <1>4 DEF ToSet
    <2>2. Head(s) \in ToSet(s) /\ ToSet(t) \subseteq ToSet(s)
      BY <1>1, <1>3 DEF ToSet
    <2> QED BY <2>1, <2>2 DEF ToSet
  <1>6. ASSUME NEW log, InTurn(log, s) PROVE InTurn(log, t) /\ Below(log, {Head(s)}, ToSet(t))
    <2>1. \A i, j \in DOMAIN t : i < j => i + 1 < j + 1
      BY <1>1
    <2>2. InTurn(log, t)
      BY <1>1, <1>3, <1>6, <2>1 DEF InTurn
    <2>3. Below(log, {Head(s)}, ToSet(t))
      BY <1>1, <1>3, <1>6 DEF InTurn, Below, ToSet
    <2> QED BY <2>2, <2>3
  <1> QED BY <1>2, <1>5, <1>6 DEF t

LEMMA SetNone ==
  /\ ToSet(<<>>) = {}
  /\ \A log : InTurn(log, <<>>)
  BY DEF ToSet, InTurn

LEMMA SetOne ==
  ASSUME NEW x \in Call
  PROVE  ToSet(<<x>>) = {x} /\ \A log : InTurn(log, <<x>>)
  BY DEF ToSet, InTurn

\* One sequence behind another.
LEMMA TurnConcat ==
  ASSUME NEW log, NEW s \in Seq(Call), NEW t \in Seq(Call)
  PROVE  /\ ToSet(s \o t) = ToSet(s) \cup ToSet(t)
         /\ InTurn(log, s) /\ InTurn(log, t) /\ Below(log, ToSet(s), ToSet(t))
              => InTurn(log, s \o t)
  <1> DEFINE u == s \o t
  <1>1. Len(s) \in Nat /\ Len(t) \in Nat /\ DOMAIN s = 1..Len(s) /\ DOMAIN t = 1..Len(t)
        /\ DOMAIN u = 1..(Len(s) + Len(t))
        /\ \A i \in 1 .. Len(s) + Len(t) : u[i] = IF i <= Len(s) THEN s[i] ELSE t[i - Len(s)]
    BY ConcatProperties
  <1> HIDE DEF u
  <1>2. \A i \in DOMAIN s : i \in DOMAIN u /\ u[i] = s[i]
    BY <1>1
  <1>3. \A i \in DOMAIN t : Len(s) + i \in DOMAIN u /\ u[Len(s) + i] = t[i]
    <2> TAKE i \in DOMAIN t
    <2>1. Len(s) + i \in 1 .. Len(s) + Len(t) /\ ~(Len(s) + i <= Len(s)) /\ (Len(s) + i) - Len(s) = i
      BY <1>1
    <2> QED BY <1>1, <2>1
  <1>4. \A i \in DOMAIN u :
          \/ i \in DOMAIN s /\ u[i] = s[i]
          \/ i - Len(s) \in DOMAIN t /\ i > Len(s) /\ u[i] = t[i - Len(s)]
    BY <1>1
  <1>5. ToSet(u) = ToSet(s) \cup ToSet(t)
    <2>1. ToSet(u) \subseteq ToSet(s) \cup ToSet(t)
      BY <1>4 DEF ToSet
    <2>2. ToSet(s) \subseteq ToSet(u) /\ ToSet(t) \subseteq ToSet(u)
      BY <1>2, <1>3 DEF ToSet
    <2> QED BY <2>1, <2>2
  <1>6. ASSUME InTurn(log, s), InTurn(log, t), Below(log, ToSet(s), ToSet(t)) PROVE InTurn(log, u)
    <2> SUFFICES ASSUME NEW i \in DOMAIN u, NEW j \in DOMAIN u, i < j PROVE Precedes(log, u[i], u[j])
      BY DEF InTurn
    <2>1. CASE i \in DOMAIN s /\ u[i] = s[i] /\ j \in DOMAIN s /\ u[j] = s[j]
      BY <2>1, <1>6 DEF InTurn
    <2>2. CASE i \in DOMAIN s /\ u[i] = s[i] /\ j - Len(s) \in DOMAIN t /\ u[j] = t[j - Len(s)]
      BY <2>2, <1>6 DEF Below, ToSet
    <2>3. CASE i - Len(s) \in DOMAIN t /\ u[i] = t[i - Len(s)] /\ j - Len(s) \in DOMAIN t
               /\ u[j] = t[j - Len(s)]
      <3>1. i - Len(s) < j - Len(s)
        BY <1>1
      <3> QED BY <2>3, <3>1, <1>6 DEF InTurn
    <2>4. ~(i > Len(s) /\ j \in DOMAIN s)
      BY <1>1
    <2> QED BY <1>4, <2>1, <2>2, <2>3, <2>4
  <1> QED BY <1>5, <1>6 DEF u

InBatch == ToSet(batch)
InChan == ToSet(chan)
InItem == ToSet(item)
InQueue == ToSet(queue)

\* Rows are numbered, and records wait, in the order in which they were accepted.
InLine ==
  /\ InTurn(accepted, table) /\ InTurn(accepted, batch) /\ InTurn(accepted, chan)
  /\ InTurn(accepted, item) /\ InTurn(accepted, queue)
  /\ Below(accepted, Rows, InBatch \cup InChan \cup InItem \cup InQueue)
  /\ Below(accepted, InBatch, InChan \cup InItem \cup InQueue)
  /\ Below(accepted, InChan, InItem \cup InQueue)
  /\ Below(accepted, InItem, InQueue)

\* What is anywhere was accepted, once.
Logged ==
  /\ Distinct(accepted)
  /\ \A r \in ToSet(accepted) : once[r]
  /\ Rows \cup InBatch \cup InChan \cup InItem \cup InQueue \subseteq ToSet(accepted)

Sequences == <<accepted, table, batch, chan, item, queue>>

LEMMA LineStays ==
  ASSUME UNCHANGED Sequences
  PROVE  /\ InLine => InLine'
         /\ Rows' = Rows /\ InBatch' = InBatch /\ InChan' = InChan /\ InItem' = InItem
         /\ InQueue' = InQueue
  BY DEF Sequences, InLine, Rows, InBatch, InChan, InItem, InQueue

LEMMA TakeMoves ==
  ASSUME UsageTyped, InLine, Take
  PROVE  /\ InLine'
         /\ \E x \in Call : InQueue = {x} \cup InQueue' /\ InItem' = {x}
         /\ Rows' = Rows /\ InBatch' = InBatch /\ InChan' = InChan
  <1> DEFINE x == Head(queue)
  <1>1. queue \in Seq(Call) /\ queue # <<>>
    BY DEF Take, ManagerTyped
  <1>2. x \in Call /\ InQueue = {x} \cup ToSet(Tail(queue))
        /\ InTurn(accepted, Tail(queue)) /\ Below(accepted, {x}, ToSet(Tail(queue)))
    <2>1. InTurn(accepted, queue)
      BY DEF InLine
    <2> QED BY <1>1, <2>1, SetTail DEF InQueue
  <1>3. ToSet(<<x>>) = {x} /\ InTurn(accepted, <<x>>)
    BY <1>2, SetOne
  <1>4. item' = <<x>> /\ queue' = Tail(queue) /\ UNCHANGED <<accepted, table, batch, chan>>
    BY DEF Take, backend, database
  <1> HIDE DEF x
  <1>5. Rows' = Rows /\ InBatch' = InBatch /\ InChan' = InChan
    BY <1>4 DEF Rows, InBatch, InChan
  <1>6. InItem' = {x} /\ InQueue' = ToSet(Tail(queue))
    BY <1>3, <1>4 DEF InItem, InQueue
  <1>7. InLine'
    BY <1>2, <1>3, <1>4, <1>5, <1>6 DEF InLine, Below
  <1> QED BY <1>2, <1>5, <1>6, <1>7

\* A part of the pipeline that is emptied leaves the others in line.
LEMMA LineEmptied ==
  ASSUME InLine, UNCHANGED <<accepted, table>>,
         batch' \in {batch, <<>>}, chan' \in {chan, <<>>}, item' \in {item, <<>>}, queue' \in {queue, <<>>}
  PROVE  /\ InLine' /\ Rows' = Rows
         /\ batch' = <<>> => InBatch' = {}
         /\ chan' = <<>> => InChan' = {}
         /\ item' = <<>> => InItem' = {}
         /\ queue' = <<>> => InQueue' = {}
         /\ InBatch' \subseteq InBatch /\ InChan' \subseteq InChan
         /\ InItem' \subseteq InItem /\ InQueue' \subseteq InQueue
  <1>1. Rows' = Rows
    BY DEF Rows
  <1>2. InBatch' \subseteq InBatch /\ (batch' = <<>> => InBatch' = {})
    BY SetNone DEF InBatch
  <1>3. InChan' \subseteq InChan /\ (chan' = <<>> => InChan' = {})
    BY SetNone DEF InChan
  <1>4. InItem' \subseteq InItem /\ (item' = <<>> => InItem' = {})
    BY SetNone DEF InItem
  <1>5. InQueue' \subseteq InQueue /\ (queue' = <<>> => InQueue' = {})
    BY SetNone DEF InQueue
  <1>6. /\ InTurn(accepted', table') /\ InTurn(accepted', batch') /\ InTurn(accepted', chan')
        /\ InTurn(accepted', item') /\ InTurn(accepted', queue')
    BY SetNone DEF InLine
  <1>7. InLine'
    BY <1>1, <1>2, <1>3, <1>4, <1>5, <1>6 DEF InLine, Below
  <1> QED BY <1>1, <1>2, <1>3, <1>4, <1>5, <1>7

LEMMA EnqueueMoves ==
  ASSUME UsageTyped, InLine, chan' = chan \o item, item' = <<>>,
         UNCHANGED <<accepted, table, batch, queue>>
  PROVE  /\ InLine' /\ Rows' = Rows /\ InBatch' = InBatch /\ InQueue' = InQueue
         /\ InChan' = InChan \cup InItem /\ InItem' = {}
  <1>1. chan \in Seq(Call) /\ item \in Seq(Call)
    BY DEF BackendTyped, ManagerTyped
  <1>2. InTurn(accepted, chan) /\ InTurn(accepted, item) /\ Below(accepted, ToSet(chan), ToSet(item))
    BY DEF InLine, InChan, InItem, Below
  <1>3. InTurn(accepted, chan \o item) /\ ToSet(chan \o item) = ToSet(chan) \cup ToSet(item)
    BY <1>1, <1>2, TurnConcat
  <1>4. Rows' = Rows /\ InBatch' = InBatch /\ InQueue' = InQueue
        /\ InChan' = InChan \cup InItem /\ InItem' = {}
    BY <1>3, SetNone DEF Rows, InBatch, InQueue, InChan, InItem
  <1>5. InTurn(accepted', chan') /\ InTurn(accepted', item')
    BY <1>3, SetNone
  <1>6. InLine'
    BY <1>4, <1>5 DEF InLine, Below
  <1> QED BY <1>4, <1>6

LEMMA ReceiveMoves ==
  ASSUME UsageTyped, InLine, Receive
  PROVE  /\ InLine' /\ Rows' = Rows /\ InItem' = InItem /\ InQueue' = InQueue
         /\ \E x \in Call : InChan = {x} \cup InChan' /\ InBatch' = InBatch \cup {x}
  <1> DEFINE x == Head(chan)
  <1>1. chan \in Seq(Call) /\ chan # <<>> /\ batch \in Seq(Call)
    BY DEF Receive, BackendTyped
  <1>2. x \in Call /\ InChan = {x} \cup ToSet(Tail(chan))
        /\ InTurn(accepted, Tail(chan)) /\ Below(accepted, {x}, ToSet(Tail(chan)))
    <2>1. InTurn(accepted, chan)
      BY DEF InLine
    <2> QED BY <1>1, <2>1, SetTail DEF InChan
  <1>3. batch' = Append(batch, x) /\ chan' = Tail(chan) /\ UNCHANGED <<accepted, table, item, queue>>
    BY DEF Receive, Others, manager, database
  <1> HIDE DEF x
  <1>4. InTurn(accepted, batch) /\ Below(accepted, ToSet(batch), {x})
    BY <1>2 DEF InLine, InBatch, Below
  <1>5. InTurn(accepted, Append(batch, x)) /\ ToSet(Append(batch, x)) = InBatch \cup {x}
    BY <1>1, <1>2, <1>4, TurnAppend, SetAppend DEF InBatch
  <1>6. Rows' = Rows /\ InItem' = InItem /\ InQueue' = InQueue
        /\ InBatch' = InBatch \cup {x} /\ InChan' = ToSet(Tail(chan))
    BY <1>3, <1>5 DEF Rows, InItem, InQueue, InBatch, InChan
  <1>7. InLine'
    BY <1>2, <1>3, <1>5, <1>6 DEF InLine, Below
  <1> QED BY <1>2, <1>6, <1>7

LEMMA InsertMoves ==
  ASSUME UsageTyped, InLine, Insert, batch' = <<>>, UNCHANGED <<accepted, chan, item, queue>>
  PROVE  /\ InLine' /\ Rows' = Rows \cup InBatch /\ InBatch' = {}
         /\ InChan' = InChan /\ InItem' = InItem /\ InQueue' = InQueue
  <1>1. /\ \A id \in DOMAIN table : table'[id] = table[id] /\ id \in DOMAIN table'
        /\ \A i \in DOMAIN batch : lastRow + i \in DOMAIN table' /\ table'[lastRow + i] = batch[i]
        /\ \A id \in DOMAIN table' :
             \/ id \in DOMAIN table
             \/ id - lastRow \in DOMAIN batch /\ id > lastRow /\ table'[id] = batch[id - lastRow]
    BY InsertTyped
  <1>2. Rows' = Rows \cup InBatch
    <2>1. Rows' \subseteq Rows \cup InBatch
      BY <1>1 DEF Rows, Range, InBatch, ToSet
    <2>2. Rows \subseteq Rows'
      BY <1>1 DEF Rows, Range
    <2>3. InBatch \subseteq Rows'
      BY <1>1 DEF Rows, Range, InBatch, ToSet
    <2> QED BY <2>1, <2>2, <2>3
  <1>3. InBatch' = {} /\ InChan' = InChan /\ InItem' = InItem /\ InQueue' = InQueue
    BY SetNone DEF InBatch, InChan, InItem, InQueue
  <1>4. InTurn(accepted, table')
    <2> SUFFICES ASSUME NEW i \in DOMAIN table', NEW j \in DOMAIN table', i < j
                 PROVE  Precedes(accepted, table'[i], table'[j])
      BY DEF InTurn
    <2>0. lastRow \in Nat /\ DOMAIN table \subseteq 1..lastRow /\ DOMAIN batch = 1..Len(batch) /\ i \in Int /\ j \in Int
      <3>1. lastRow \in Nat /\ DOMAIN table \subseteq 1..lastRow /\ DOMAIN batch = 1..Len(batch) /\ Len(batch) \in Nat
        BY DEF DatabaseTyped, BackendTyped
      <3>2. DOMAIN table' \subseteq Int
        BY InsertTyped DEF DatabaseTyped
      <3> QED BY <3>1, <3>2
    <2>1. CASE i \in DOMAIN table /\ j \in DOMAIN table
      BY <2>1, <1>1 DEF InLine, InTurn
    <2>2. CASE i \in DOMAIN table /\ j - lastRow \in DOMAIN batch /\ table'[j] = batch[j - lastRow]
      <3>1. table'[i] \in Rows /\ table'[j] \in InBatch
        BY <2>2, <1>1 DEF Rows, Range, InBatch, ToSet
      <3> QED BY <3>1 DEF InLine, Below
    <2>3. CASE /\ i - lastRow \in DOMAIN batch /\ table'[i] = batch[i - lastRow]
               /\ j - lastRow \in DOMAIN batch /\ table'[j] = batch[j - lastRow]
      <3>1. i - lastRow < j - lastRow
        BY <2>0
      <3> QED BY <2>3, <3>1 DEF InLine, InTurn
    <2>4. ~(i > lastRow /\ j \in DOMAIN table)
      BY <2>0
    <2> QED BY <1>1, <2>1, <2>2, <2>3, <2>4
  <1>5. InTurn(accepted', table') /\ InTurn(accepted', batch')
    BY <1>4, SetNone
  <1>6. InLine'
    BY <1>2, <1>3, <1>5 DEF InLine, Below
  <1> QED BY <1>2, <1>3, <1>6

\* Rows in turn, of records accepted once, hold a record once.
LEMMA RowsDistinct ==
  ASSUME UsageTyped, InLine, Distinct(accepted), NEW i \in DOMAIN table, NEW j \in DOMAIN table, table[i] = table[j]
  PROVE  i = j
  <1>1. i \in Int /\ j \in Int
    BY DEF DatabaseTyped
  <1>2. ASSUME i < j \/ j < i PROVE FALSE
    <2>1. accepted \in Seq(Call)
      BY DEF ManagerTyped
    <2>2. Precedes(accepted, table[i], table[i])
      BY <1>2 DEF InLine, InTurn
    <2> QED BY <2>1, <2>2, PrecedesOnce
  <1> QED BY <1>1, <1>2

LEMMA CleanupMoves ==
  ASSUME UsageTyped, InLine, Distinct(accepted), NEW aged \in SUBSET DOMAIN table,
         table' = Restrict(table, DOMAIN table \ aged), lastRow' = lastRow,
         UNCHANGED <<accepted, batch, chan, item, queue>>
  PROVE  /\ InLine' /\ Rows' = Rows \ {table[id] : id \in aged} /\ {table[id] : id \in aged} \subseteq Rows
         /\ InBatch' = InBatch /\ InChan' = InChan /\ InItem' = InItem /\ InQueue' = InQueue
  <1>1. DOMAIN table' = DOMAIN table \ aged /\ \A id \in DOMAIN table' : table'[id] = table[id]
    BY CleanupRows
  <1>2. Rows' = Rows \ {table[id] : id \in aged}
    BY <1>1, RowsDistinct DEF Rows, Range
  <1>3. {table[id] : id \in aged} \subseteq Rows
    BY DEF Rows, Range
  <1>4. InBatch' = InBatch /\ InChan' = InChan /\ InItem' = InItem /\ InQueue' = InQueue
    BY DEF InBatch, InChan, InItem, InQueue
  <1>5. InTurn(accepted', table')
    BY <1>1 DEF InLine, InTurn
  <1>6. InLine'
    BY <1>2, <1>4, <1>5 DEF InLine, Below
  <1> QED BY <1>2, <1>3, <1>4, <1>6

LEMMA PublishMoves ==
  ASSUME UsageTyped, InLine, Logged, NEW r \in Call, ~once[r],
         accepted' = Append(accepted, r), queue' = Append(queue, r),
         UNCHANGED <<table, batch, chan, item>>
  PROVE  /\ InLine' /\ Distinct(accepted') /\ ToSet(accepted)' = ToSet(accepted) \cup {r}
         /\ Rows' = Rows /\ InBatch' = InBatch /\ InChan' = InChan /\ InItem' = InItem
         /\ InQueue' = InQueue \cup {r}
  <1>1. accepted \in Seq(Call) /\ queue \in Seq(Call)
    BY DEF ManagerTyped
  <1>2. r \notin ToSet(accepted) /\ Distinct(accepted)
    BY DEF Logged
  <1>3. /\ \A a, b : Precedes(accepted, a, b) => Precedes(accepted', a, b)
        /\ \A a \in ToSet(accepted) : Precedes(accepted', a, r)
        /\ Distinct(accepted')
    BY <1>1, <1>2, PrecedesOn
  <1>4. ToSet(accepted') = ToSet(accepted) \cup {r} /\ ToSet(queue') = ToSet(queue) \cup {r}
    BY <1>1, SetAppend
  <1>5. Rows' = Rows /\ InBatch' = InBatch /\ InChan' = InChan /\ InItem' = InItem
        /\ InQueue' = InQueue \cup {r}
    BY <1>4 DEF Rows, InBatch, InChan, InItem, InQueue
  <1>6. InTurn(accepted', table') /\ InTurn(accepted', batch') /\ InTurn(accepted', chan')
        /\ InTurn(accepted', item') /\ InTurn(accepted', queue)
    BY <1>3 DEF InLine, InTurn
  <1>7. \A a \in Rows \cup InBatch \cup InChan \cup InItem \cup InQueue : Precedes(accepted', a, r)
    BY <1>3 DEF Logged
  <1>8. InTurn(accepted', queue')
    <2>1. Below(accepted', ToSet(queue), {r})
      BY <1>7 DEF Below, InQueue
    <2> QED BY <1>1, <1>6, <2>1, TurnAppend
  <1>9. InLine'
    BY <1>3, <1>5, <1>6, <1>7, <1>8 DEF InLine, Below
  <1> QED BY <1>3, <1>4, <1>5, <1>9

Anywhere == Rows \cup InBatch \cup InChan \cup InItem \cup InQueue
InMemory == InBatch \cup InChan \cup InItem \cup InQueue

\* What was published and not lost is somewhere, and in memory only in the boot
\* in which it was published.
Found ==
  \A r \in Call :
    /\ r \in Anywhere <=> once[r] /\ fate[r] = "none"
    /\ ~once[r] => fate[r] = "none"
    /\ once[r] => born[r] <= boots
    /\ r \in InMemory => born[r] = boots

LEMMA PlacesApart ==
  ASSUME UsageTyped, InLine, Logged
  PROVE  /\ Rows \cap InMemory = {}
         /\ InBatch \cap (InChan \cup InItem \cup InQueue) = {}
         /\ InChan \cap (InItem \cup InQueue) = {}
         /\ InItem \cap InQueue = {}
  <1>1. accepted \in Seq(Call)
    BY DEF ManagerTyped
  <1>2. \A a : ~Precedes(accepted, a, a)
    BY <1>1, PrecedesOnce DEF Logged
  <1> QED BY <1>2 DEF InLine, Below, InMemory

LEMMA LoggedKept ==
  ASSUME Logged, accepted' = accepted, \A r \in Call : once[r] => once'[r],
         ToSet(accepted) \subseteq Call, Anywhere' \subseteq Anywhere
  PROVE  Logged'
  BY DEF Logged, Anywhere

LEMMA FoundKept ==
  ASSUME Found, Anywhere' = Anywhere, InMemory' \subseteq InMemory,
         UNCHANGED <<once, fate, born, boots>>
  PROVE  Found'
  BY DEF Found

LEMMA FoundLost ==
  ASSUME Found, FateTyped, NEW S \in SUBSET Anywhere,
         NEW how \in {"disabled", "full", "failed", "expired", "crash"}, Lose(S, how),
         Anywhere' = Anywhere \ S, InMemory' \subseteq InMemory,
         UNCHANGED <<once, born, boots>>
  PROVE  Found'
  <1>1. \A r \in Call : fate'[r] = IF r \in S THEN how ELSE fate[r]
    BY DEF Lose
  <1> QED BY <1>1 DEF Found

-----------------------------------------------------------------------------
(* The counters                                                            *)

Backend == Rows \cup InBatch \cup InChan
HandedAt(r) ==
  /\ once[r] /\ born[r] = boots
  /\ \/ r \in Backend
     \/ r \in InItem /\ dispatch = "enqueue"
     \/ fate[r] \in {"full", "failed", "expired"}

LEMMA HandedIs == Handed = {r \in Call : HandedAt(r)} /\ Handed' = {r \in Call : HandedAt(r)'}
  BY DEF Handed, HandedAt, Backend, Unwritten, InBatch, InChan, InItem, Rows

LEMMA CountersKept ==
  ASSUME CountersAgree, \A r \in Call : HandedAt(r)' <=> HandedAt(r),
         \A r \in Call : HandedAt(r) => failed'[r] = failed[r],
         UNCHANGED <<counters, base>>, Alive' => Alive
  PROVE  CountersAgree'
  <1>1. Handed' = Handed
    BY HandedIs
  <1>2. {r \in Handed' : failed'[r]} = {r \in Handed : failed[r]}
    BY <1>1, HandedIs
  <1> QED BY <1>1, <1>2 DEF CountersAgree

LEMMA CountedFields ==
  ASSUME NEW c \in Count
  PROVE  /\ Counted(c, TRUE).total = c.total + 1 /\ Counted(c, FALSE).total = c.total + 1
         /\ Counted(c, TRUE).failure = c.failure + 1 /\ Counted(c, FALSE).failure = c.failure
         /\ Counted(c, TRUE).success = c.success /\ Counted(c, FALSE).success = c.success + 1
  BY DEF Counted, Count

LEMMA CountersBumped ==
  ASSUME UsageTyped, CountersAgree, Alive, NEW x \in Call, ~HandedAt(x), HandedAt(x)',
         \A r \in Call \ {x} : HandedAt(r)' <=> HandedAt(r),
         failed' = failed, base' = base, counters' = Counted(counters, failed[x])
  PROVE  CountersAgree'
  <1>1. Handed' = Handed \cup {x} /\ x \notin Handed /\ Handed \subseteq Call
    BY HandedIs
  <1>2. IsFiniteSet(Handed)
    BY <1>1, UsageAssumption, FS_Subset
  <1>3. Cardinality(Handed') = Cardinality(Handed) + 1 /\ Cardinality(Handed) \in Nat
    BY <1>1, <1>2, FS_AddElement, FS_CardinalityType
  <1> DEFINE F == {r \in Handed : failed[r]}
             G == {r \in Handed' : failed'[r]}
  <1>4. IsFiniteSet(F) /\ Cardinality(F) \in Nat
    BY <1>2, FS_Subset, FS_CardinalityType
  <1>5. counters \in Count /\ base \in Count
    BY DEF PluginTyped
  <1>6. /\ counters.total \in Nat /\ counters.failure \in Nat /\ counters.success \in Nat
        /\ base.total \in Nat /\ base.failure \in Nat /\ base.success \in Nat
    BY <1>5 DEF Count
  <1>7. /\ counters.total = base.total + Cardinality(Handed)
        /\ counters.failure = base.failure + Cardinality(F)
        /\ counters.total - base.total = (counters.success - base.success)
                                       + (counters.failure - base.failure)
    BY DEF CountersAgree
  <1>8. CASE failed[x] = TRUE
    <2>1. G = F \cup {x} /\ x \notin F
      BY <1>1, <1>8
    <2>2. Cardinality(G) = Cardinality(F) + 1
      BY <1>4, <2>1, FS_AddElement
    <2>3. /\ counters'.total = counters.total + 1 /\ counters'.failure = counters.failure + 1
          /\ counters'.success = counters.success
      BY <1>5, <1>8, CountedFields
    <2> HIDE DEF F
    <2>4. /\ counters'.total = base.total + Cardinality(Handed')
          /\ counters'.failure = base.failure + Cardinality(G)
          /\ counters'.total - base.total = (counters'.success - base.success)
                                       + (counters'.failure - base.failure)
      <3> HIDE DEF G
      <3> QED BY <1>3, <1>4, <1>6, <1>7, <2>2, <2>3
    <2> QED BY <2>4 DEF CountersAgree
  <1>9. CASE failed[x] = FALSE
    <2>1. G = F
      BY <1>1, <1>9
    <2>3. /\ counters'.total = counters.total + 1 /\ counters'.failure = counters.failure
          /\ counters'.success = counters.success + 1
      BY <1>5, <1>9, CountedFields
    <2> HIDE DEF F
    <2>4. /\ counters'.total = base.total + Cardinality(Handed')
          /\ counters'.failure = base.failure + Cardinality(G)
          /\ counters'.total - base.total = (counters'.success - base.success)
                                       + (counters'.failure - base.failure)
      <3> HIDE DEF G
      <3> QED BY <1>3, <1>4, <1>6, <1>7, <2>1, <2>3
    <2> QED BY <2>4 DEF CountersAgree
  <1>10. failed[x] = TRUE \/ failed[x] = FALSE
    BY DEF CallsTyped
  <1> QED BY <1>8, <1>9, <1>10

-----------------------------------------------------------------------------
(* The steps                                                               *)

UsageInv == InLine /\ Logged /\ Found /\ CountersAgree

LEMMA AcceptedCalls == UsageTyped => ToSet(accepted) \subseteq Call
  BY DEF ManagerTyped, ToSet

\* Steps that move nothing and publish nothing.
LEMMA InvStays ==
  ASSUME UsageTyped, UsageInv, UNCHANGED Sequences,
         UNCHANGED <<once, born, failed, fate, boots, counters, base>>,
         dispatch' = dispatch \/ "enqueue" \notin {dispatch, dispatch'}, Alive' => Alive
  PROVE  UsageInv'
  <1>1. InLine' /\ Rows' = Rows /\ InBatch' = InBatch /\ InChan' = InChan /\ InItem' = InItem
        /\ InQueue' = InQueue
    BY LineStays DEF UsageInv
  <1>2. Anywhere' = Anywhere /\ InMemory' = InMemory /\ Backend' = Backend
    BY <1>1 DEF Anywhere, InMemory, Backend
  <1>3. Logged'
    BY <1>2, AcceptedCalls, LoggedKept DEF UsageInv, Sequences
  <1>4. Found'
    BY <1>2, FoundKept DEF UsageInv
  <1>5. \A r \in Call : HandedAt(r)' <=> HandedAt(r)
    BY <1>1, <1>2 DEF HandedAt
  <1>6. CountersAgree'
    BY <1>5, CountersKept DEF UsageInv
  <1> QED BY <1>1, <1>3, <1>4, <1>6 DEF UsageInv

LEMMA InvCall ==
  ASSUME UsageTyped, UsageInv, NEW r \in Call,
         Arrive(r) \/ Leave(r) \/ \E f \in BOOLEAN : Publish(r, f)
  PROVE  UsageInv'
  <1>1. CASE Arrive(r) \/ Leave(r)
    <2>1. UNCHANGED Sequences /\ UNCHANGED <<once, born, failed, fate, boots, counters, base, dispatch, service>>
      BY <1>1 DEF Arrive, Leave, manager, plugin, backend, database, Sequences
    <2> QED BY <2>1, InvStays DEF Alive
  <1>2. ASSUME NEW f \in BOOLEAN, Publish(r, f) PROVE UsageInv'
    <2>1. ~once[r] /\ once' = [once EXCEPT ![r] = TRUE] /\ failed' = [failed EXCEPT ![r] = f]
          /\ born' = [born EXCEPT ![r] = boots]
          /\ UNCHANGED <<dispatch, item, counters, base, table, batch, chan, boots, service>>
      BY <1>2 DEF Publish, plugin, backend, database
    <2>2. \A q \in Call \ {r} : once'[q] = once[q] /\ failed'[q] = failed[q] /\ born'[q] = born[q]
      BY <2>1 DEF CallsTyped
    <2>3. once'[r] /\ born'[r] = boots
      BY <2>1 DEF CallsTyped
    <2>4. r \notin Anywhere /\ fate[r] = "none"
      BY <2>1 DEF UsageInv, Found
    <2>5. /\ \/ /\ Lose({r}, "closed") /\ UNCHANGED <<queue, accepted>>
             \/ /\ queue' = Append(queue, r) /\ accepted' = Append(accepted, r) /\ fate' = fate
      BY <1>2 DEF Publish
    <2>6. \A q \in Call \ {r} : fate'[q] = fate[q]
      BY <2>5 DEF Lose
    <2>7. InLine' /\ Logged' /\ Rows' = Rows /\ InBatch' = InBatch /\ InChan' = InChan /\ InItem' = InItem
          /\ \/ InQueue' = InQueue /\ fate'[r] = "closed"
             \/ InQueue' = InQueue \cup {r} /\ fate'[r] = "none"
      <3>1. CASE Lose({r}, "closed") /\ UNCHANGED <<queue, accepted>>
        <4>1. UNCHANGED Sequences
          BY <3>1, <2>1 DEF Sequences
        <4>2. InLine' /\ Rows' = Rows /\ InBatch' = InBatch /\ InChan' = InChan /\ InItem' = InItem
              /\ InQueue' = InQueue
          BY <4>1, LineStays DEF UsageInv
        <4>3. Logged'
          <5>1. \A q \in Call : once[q] => once'[q]
            BY <2>2, <2>3
          <5>2. Anywhere' = Anywhere
            BY <4>2 DEF Anywhere
          <5> QED BY <3>1, <5>1, <5>2, AcceptedCalls, LoggedKept DEF UsageInv
        <4>4. fate'[r] = "closed"
          BY <3>1 DEF Lose
        <4> QED BY <4>2, <4>3, <4>4
      <3>2. CASE queue' = Append(queue, r) /\ accepted' = Append(accepted, r) /\ fate' = fate
        <4>1. /\ InLine' /\ Distinct(accepted') /\ ToSet(accepted)' = ToSet(accepted) \cup {r}
              /\ Rows' = Rows /\ InBatch' = InBatch /\ InChan' = InChan /\ InItem' = InItem
              /\ InQueue' = InQueue \cup {r}
          BY <2>1, <3>2, PublishMoves DEF UsageInv
        <4>2. \A q \in ToSet(accepted)' : once'[q]
          BY <4>1, <2>2, <2>3, AcceptedCalls DEF UsageInv, Logged
        <4>3. Logged'
          BY <4>1, <4>2 DEF UsageInv, Logged
        <4> QED BY <3>2, <4>1, <4>3, <2>4
      <3> QED BY <2>5, <3>1, <3>2
    <2>8. Found'
      <3>1. SUFFICES ASSUME NEW q \in Call
                     PROVE  /\ q \in Anywhere' <=> once'[q] /\ fate'[q] = "none"
                            /\ ~once'[q] => fate'[q] = "none"
                            /\ once'[q] => born'[q] <= boots'
                            /\ q \in InMemory' => born'[q] = boots'
        BY DEF Found
      <3>2. CASE q = r
        <4>1. boots \in Nat
          BY UsageAssumption DEF ServiceTyped
        <4> QED BY <2>1, <2>3, <2>4, <2>7, <3>2, <4>1 DEF Anywhere, InMemory
      <3>3. CASE q # r
        <4>1. (q \in Anywhere' <=> q \in Anywhere) /\ (q \in InMemory' <=> q \in InMemory)
          BY <2>7, <3>3 DEF Anywhere, InMemory
        <4> QED BY <2>1, <2>2, <2>6, <3>3, <4>1 DEF UsageInv, Found
      <3> QED BY <3>2, <3>3
    <2>9. CountersAgree'
      <3>1. ~HandedAt(r)
        BY <2>1 DEF HandedAt
      <3>2. ~HandedAt(r)'
        BY <2>4, <2>7 DEF HandedAt, Backend, Anywhere
      <3>3. \A q \in Call \ {r} : HandedAt(q)' <=> HandedAt(q)
        BY <2>1, <2>2, <2>6, <2>7 DEF HandedAt, Backend
      <3> QED BY <2>1, <2>2, <3>1, <3>2, <3>3, CountersKept DEF UsageInv, Alive
    <2> QED BY <2>7, <2>8, <2>9 DEF UsageInv
  <1> QED BY <1>1, <1>2

\* What the dispatcher has in hand.
LEMMA ItemInHand ==
  ASSUME UsageTyped, Alive, dispatch \in {"handle", "enqueue"}
  PROVE  item[1] \in Call /\ InItem = {item[1]}
  <1>1. item \in Seq(Call) /\ Len(item) = 1
    BY DEF ManagerTyped, OneItem
  <1>2. item[1] \in Call /\ DOMAIN item = {1}
    BY <1>1
  <1> QED BY <1>2 DEF InItem, ToSet

LEMMA InvTake ==
  ASSUME UsageTyped, UsageInv, Take
  PROVE  UsageInv'
  <1>1. PICK x \in Call : InQueue = {x} \cup InQueue' /\ InItem' = {x}
    BY TakeMoves DEF UsageInv
  <1>2. InLine' /\ Rows' = Rows /\ InBatch' = InBatch /\ InChan' = InChan
    BY TakeMoves DEF UsageInv
  <1>3. Alive /\ dispatch = "wait" /\ dispatch' = "handle"
        /\ UNCHANGED <<once, failed, born, accepted, counters, base, fate, service, boots>>
    BY DEF Take, calls, plugin
  <1>4. InItem = {}
    <2>0. item \in Seq(Call) /\ Len(item) \in Nat /\ Len(item) <= 1 /\ Len(item) # 1
      BY <1>3 DEF ManagerTyped, OneItem
    <2>1. item \in Seq(Call) /\ Len(item) = 0
      BY <2>0
    <2>2. DOMAIN item = {}
      BY <2>1
    <2> QED BY <2>2 DEF InItem, ToSet
  <1>5. Anywhere' = Anywhere /\ InMemory' = InMemory /\ Backend' = Backend
    BY <1>1, <1>2, <1>4 DEF Anywhere, InMemory, Backend
  <1>6. Logged'
    BY <1>3, <1>5, AcceptedCalls, LoggedKept DEF UsageInv
  <1>7. Found'
    BY <1>3, <1>5, FoundKept DEF UsageInv
  <1>8. \A r \in Call : HandedAt(r)' <=> HandedAt(r)
    BY <1>3, <1>5 DEF HandedAt
  <1>9. CountersAgree'
    BY <1>3, <1>8, CountersKept DEF UsageInv, Alive
  <1> QED BY <1>2, <1>6, <1>7, <1>9 DEF UsageInv

LEMMA InvSkip ==
  ASSUME UsageTyped, UsageInv, Skip
  PROVE  UsageInv'
  <1>0. PICK x : x = item[1]
    OBVIOUS
  <1>1. Alive /\ dispatch = "handle" /\ dispatch' = "wait" /\ item' = <<>> /\ Lose({x}, "disabled")
        /\ UNCHANGED <<once, failed, born, accepted, queue, counters, base, chan, batch, table,
                       service, boots>>
    BY <1>0 DEF Skip, calls, plugin, backend, database
  <1>2. x \in Call /\ InItem = {x}
    BY <1>0, <1>1, ItemInHand
  <1>3. InLine' /\ Rows' = Rows /\ InItem' = {}
    BY <1>1, LineEmptied DEF UsageInv
  <1>4. InBatch' = InBatch /\ InChan' = InChan /\ InQueue' = InQueue
    BY <1>1 DEF InBatch, InChan, InQueue
  <1>5. x \notin Rows \cup InBatch \cup InChan \cup InQueue
    BY <1>2, PlacesApart DEF UsageInv, InMemory
  <1>6. Anywhere' = Anywhere \ {x} /\ InMemory' \subseteq InMemory /\ Backend' = Backend
        /\ {x} \in SUBSET Anywhere
    BY <1>2, <1>3, <1>4, <1>5 DEF Anywhere, InMemory, Backend
  <1>7. Logged'
    BY <1>1, <1>6, AcceptedCalls, LoggedKept DEF UsageInv
  <1>8. Found'
    BY <1>1, <1>6, FoundLost DEF UsageInv
  <1>9. \A r \in Call : HandedAt(r)' <=> HandedAt(r)
    <2>1. \A r \in Call : fate'[r] = IF r \in {x} THEN "disabled" ELSE fate[r]
      BY <1>1 DEF Lose
    <2>2. fate[x] = "none"
      BY <1>2, <1>6 DEF UsageInv, Found
    <2> QED BY <1>1, <1>3, <1>6, <2>1, <2>2 DEF HandedAt
  <1>10. CountersAgree'
    BY <1>1, <1>9, CountersKept DEF UsageInv, Alive
  <1> QED BY <1>3, <1>7, <1>8, <1>10 DEF UsageInv

LEMMA InvRecord ==
  ASSUME UsageTyped, UsageInv, Record
  PROVE  UsageInv'
  <1>0. PICK x : x = item[1]
    OBVIOUS
  <1>1. Alive /\ dispatch = "handle" /\ dispatch' = "enqueue" /\ counters' = Counted(counters, failed[x])
        /\ UNCHANGED <<once, failed, born, accepted, queue, item, base, chan, batch, table,
                       fate, service, boots>>
    BY <1>0 DEF Record, calls, backend, database
  <1>2. x \in Call /\ InItem = {x}
    BY <1>0, <1>1, ItemInHand
  <1>3. InLine' /\ Rows' = Rows /\ InBatch' = InBatch /\ InChan' = InChan /\ InItem' = InItem
        /\ InQueue' = InQueue
    BY <1>1, LineStays DEF UsageInv, Sequences
  <1>4. Anywhere' = Anywhere /\ InMemory' = InMemory /\ Backend' = Backend
    BY <1>3 DEF Anywhere, InMemory, Backend
  <1>5. Logged'
    BY <1>1, <1>4, AcceptedCalls, LoggedKept DEF UsageInv
  <1>6. Found'
    BY <1>1, <1>4, FoundKept DEF UsageInv
  <1>7. once[x] /\ fate[x] = "none" /\ born[x] = boots
    BY <1>2 DEF UsageInv, Found, Anywhere, InMemory
  <1>8. x \notin Backend
    BY <1>2, PlacesApart DEF UsageInv, InMemory, Backend
  <1>9. ~HandedAt(x) /\ HandedAt(x)'
    BY <1>1, <1>2, <1>3, <1>7, <1>8 DEF HandedAt
  <1>10. \A r \in Call \ {x} : HandedAt(r)' <=> HandedAt(r)
    BY <1>1, <1>2, <1>3, <1>4 DEF HandedAt
  <1>11. CountersAgree'
    BY <1>1, <1>2, <1>9, <1>10, CountersBumped DEF UsageInv
  <1> QED BY <1>3, <1>5, <1>6, <1>11 DEF UsageInv

LEMMA InvEnqueue ==
  ASSUME UsageTyped, UsageInv, Enqueue
  PROVE  UsageInv'
  <1>0. PICK x : x = item[1]
    OBVIOUS
  <1>1. Alive /\ dispatch = "enqueue" /\ dispatch' = "wait" /\ item' = <<>>
        /\ UNCHANGED <<once, failed, born, accepted, queue, counters, base, batch, table,
                       service, boots>>
        /\ (\/ chan' = chan \o item /\ fate' = fate
            \/ chan' = chan /\ Lose({x}, "full"))
    BY <1>0 DEF Enqueue, calls, plugin, database
  <1>2. x \in Call /\ InItem = {x}
    BY <1>0, <1>1, ItemInHand
  <1>3. \/ chan' = chan \o item /\ fate' = fate
        \/ chan' = chan /\ Lose({x}, "full")
    BY <1>1
  <1>4. once[x] /\ fate[x] = "none" /\ born[x] = boots
    BY <1>2 DEF UsageInv, Found, Anywhere, InMemory
  <1>5. x \notin Rows \cup InBatch \cup InChan \cup InQueue
    BY <1>2, PlacesApart DEF UsageInv, InMemory
  <1>6. CASE chan' = chan \o item /\ fate' = fate
    <2>1. /\ InLine' /\ Rows' = Rows /\ InBatch' = InBatch /\ InQueue' = InQueue
          /\ InChan' = InChan \cup InItem /\ InItem' = {}
      BY <1>1, <1>6, EnqueueMoves DEF UsageInv
    <2>2. Anywhere' = Anywhere /\ InMemory' = InMemory /\ Backend' = Backend \cup InItem
      BY <2>1 DEF Anywhere, InMemory, Backend
    <2>3. Logged'
      BY <1>1, <2>2, AcceptedCalls, LoggedKept DEF UsageInv
    <2>4. Found'
      BY <1>1, <1>6, <2>2, FoundKept DEF UsageInv
    <2>5. \A r \in Call : HandedAt(r)' <=> HandedAt(r)
      BY <1>1, <1>6, <2>1, <2>2 DEF HandedAt
    <2>6. CountersAgree'
      BY <1>1, <2>5, CountersKept DEF UsageInv, Alive
    <2> QED BY <2>1, <2>3, <2>4, <2>6 DEF UsageInv
  <1>7. CASE chan' = chan /\ Lose({x}, "full")
    <2>1. InLine' /\ Rows' = Rows /\ InItem' = {}
      BY <1>1, <1>7, LineEmptied DEF UsageInv
    <2>2. InBatch' = InBatch /\ InChan' = InChan /\ InQueue' = InQueue
      BY <1>1, <1>7 DEF InBatch, InChan, InQueue
    <2>3. Anywhere' = Anywhere \ {x} /\ InMemory' \subseteq InMemory /\ Backend' = Backend
          /\ {x} \in SUBSET Anywhere
      BY <1>2, <1>5, <2>1, <2>2 DEF Anywhere, InMemory, Backend
    <2>4. Logged'
      BY <1>1, <2>3, AcceptedCalls, LoggedKept DEF UsageInv
    <2>5. Found'
      BY <1>1, <1>7, <2>3, FoundLost DEF UsageInv
    <2>6. \A r \in Call : HandedAt(r)' <=> HandedAt(r)
      <3>1. \A r \in Call : fate'[r] = IF r \in {x} THEN "full" ELSE fate[r]
        BY <1>7 DEF Lose
      <3> QED BY <1>1, <1>2, <1>4, <2>1, <2>3, <3>1 DEF HandedAt
    <2>7. CountersAgree'
      BY <1>1, <2>6, CountersKept DEF UsageInv, Alive
    <2> QED BY <2>1, <2>4, <2>5, <2>7 DEF UsageInv
  <1> QED BY <1>3, <1>6, <1>7

LEMMA InvReceive ==
  ASSUME UsageTyped, UsageInv, Receive
  PROVE  UsageInv'
  <1>1. PICK x \in Call : InChan = {x} \cup InChan' /\ InBatch' = InBatch \cup {x}
    BY ReceiveMoves DEF UsageInv
  <1>2. InLine' /\ Rows' = Rows /\ InItem' = InItem /\ InQueue' = InQueue
    BY ReceiveMoves DEF UsageInv
  <1>3. UNCHANGED <<once, failed, born, accepted, counters, base, dispatch, fate, service, boots>>
    BY DEF Receive, Others, calls, manager, plugin
  <1>4. Anywhere' = Anywhere /\ InMemory' = InMemory /\ Backend' = Backend
    BY <1>1, <1>2 DEF Anywhere, InMemory, Backend
  <1>5. Logged'
    BY <1>3, <1>4, AcceptedCalls, LoggedKept DEF UsageInv
  <1>6. Found'
    BY <1>3, <1>4, FoundKept DEF UsageInv
  <1>7. \A r \in Call : HandedAt(r)' <=> HandedAt(r)
    BY <1>2, <1>3, <1>4 DEF HandedAt
  <1>8. CountersAgree'
    BY <1>3, <1>7, CountersKept DEF UsageInv, Alive
  <1> QED BY <1>2, <1>5, <1>6, <1>8 DEF UsageInv

\* Records that had reached the backend are lost.
LEMMA InvLost ==
  ASSUME UsageTyped, UsageInv, InLine', NEW S \in SUBSET Backend, NEW how \in {"failed", "expired"},
         Lose(S, how), Anywhere' = Anywhere \ S, Backend' = Backend \ S, InItem' = InItem,
         InMemory' \subseteq InMemory,
         UNCHANGED <<once, failed, born, accepted, counters, base, dispatch, service, boots>>
  PROVE  UsageInv'
  <1>1. S \in SUBSET Anywhere
    BY DEF Backend, Anywhere
  <1>2. Logged'
    BY AcceptedCalls, LoggedKept DEF UsageInv
  <1>3. Found'
    BY <1>1, FoundLost DEF UsageInv
  <1>4. \A r \in Call : fate'[r] = IF r \in S THEN how ELSE fate[r]
    BY DEF Lose
  <1>5. \A r \in Call : HandedAt(r)' <=> HandedAt(r)
    BY <1>4 DEF HandedAt
  <1>6. CountersAgree'
    BY <1>5, CountersKept DEF UsageInv, Alive
  <1> QED BY <1>2, <1>3, <1>6 DEF UsageInv

LEMMA InvFlush ==
  ASSUME UsageTyped, UsageInv, Flush
  PROVE  UsageInv'
  <1>1. batch' = <<>>
        /\ UNCHANGED <<once, failed, born, accepted, counters, base, dispatch, service, boots,
                       chan, item, queue>>
    BY DEF Flush, Others, calls, manager, plugin
  <1>2. CASE Insert /\ fate' = fate
    <2>1. /\ InLine' /\ Rows' = Rows \cup InBatch /\ InBatch' = {}
          /\ InChan' = InChan /\ InItem' = InItem /\ InQueue' = InQueue
      BY <1>1, <1>2, InsertMoves DEF UsageInv
    <2>2. Anywhere' = Anywhere /\ InMemory' \subseteq InMemory /\ Backend' = Backend
      BY <2>1 DEF Anywhere, InMemory, Backend
    <2>3. Logged'
      BY <1>1, <2>2, AcceptedCalls, LoggedKept DEF UsageInv
    <2>4. Found'
      BY <1>1, <1>2, <2>2, FoundKept DEF UsageInv
    <2>5. \A r \in Call : HandedAt(r)' <=> HandedAt(r)
      BY <1>1, <1>2, <2>1, <2>2 DEF HandedAt
    <2>6. CountersAgree'
      BY <1>1, <2>5, CountersKept DEF UsageInv, Alive
    <2> QED BY <2>1, <2>3, <2>4, <2>6 DEF UsageInv
  <1>3. CASE Lose(ToSet(batch), "failed") /\ UNCHANGED database
    <2>1. InLine' /\ Rows' = Rows /\ InBatch' = {}
      BY <1>1, <1>3, LineEmptied DEF UsageInv, database
    <2>2. InChan' = InChan /\ InItem' = InItem /\ InQueue' = InQueue
      BY <1>1 DEF InChan, InItem, InQueue
    <2>3. InBatch \cap (Rows \cup InChan \cup InItem \cup InQueue) = {}
      BY PlacesApart DEF UsageInv, InMemory
    <2>4. Anywhere' = Anywhere \ InBatch /\ Backend' = Backend \ InBatch /\ InMemory' \subseteq InMemory
          /\ InBatch \in SUBSET Backend
      BY <2>1, <2>2, <2>3 DEF Anywhere, InMemory, Backend
    <2>5. Lose(InBatch, "failed")
      BY <1>3 DEF InBatch
    <2> QED BY <1>1, <2>1, <2>2, <2>4, <2>5, InvLost
  <1> QED BY <1>2, <1>3 DEF Flush

LEMMA InvCleanup ==
  ASSUME UsageTyped, UsageInv, Cleanup
  PROVE  UsageInv'
  <1>1. PICK aged \in SUBSET DOMAIN table \ {{}} :
          /\ table' = Restrict(table, DOMAIN table \ aged)
          /\ Lose({table[id] : id \in aged}, "expired")
    BY DEF Cleanup
  <1>2. UNCHANGED <<once, failed, born, accepted, counters, base, dispatch, service, boots,
                    batch, chan, item, queue, lastRow>>
    BY DEF Cleanup, Others, calls, manager, plugin, backend
  <1> DEFINE S == {table[id] : id \in aged}
  <1>3. Distinct(accepted)
    BY DEF UsageInv, Logged
  <1>4. /\ InLine' /\ Rows' = Rows \ S /\ S \subseteq Rows
        /\ InBatch' = InBatch /\ InChan' = InChan /\ InItem' = InItem /\ InQueue' = InQueue
    BY <1>1, <1>2, <1>3, CleanupMoves DEF UsageInv
  <1>5. Lose(S, "expired")
    BY <1>1
  <1> HIDE DEF S
  <1>6. S \cap InMemory = {}
    BY <1>4, PlacesApart DEF UsageInv
  <1>7. Anywhere' = Anywhere \ S /\ Backend' = Backend \ S /\ InMemory' \subseteq InMemory
        /\ S \in SUBSET Backend
    BY <1>4, <1>6 DEF Anywhere, InMemory, Backend
  <1> QED BY <1>2, <1>4, <1>5, <1>7, InvLost

LEMMA InvExit ==
  ASSUME UsageTyped, UsageInv, Exit \/ Crash
  PROVE  UsageInv'
  <1>1. batch' = <<>> /\ chan' = <<>> /\ item' = <<>> /\ queue' = <<>> /\ service' = "exited"
        /\ UNCHANGED <<once, born, accepted, table, boots>>
    BY DEF Exit, Crash, Exited, database
  <1>2. InLine' /\ Rows' = Rows /\ InBatch' = {} /\ InChan' = {} /\ InItem' = {} /\ InQueue' = {}
    BY <1>1, LineEmptied DEF UsageInv
  <1>3. Rows \cap InMemory = {}
    BY PlacesApart DEF UsageInv
  <1>4. Anywhere' = Anywhere \ InMemory /\ InMemory' = {} /\ InMemory \in SUBSET Anywhere
    BY <1>2, <1>3 DEF Anywhere, InMemory
  <1>5. Logged'
    BY <1>1, <1>4, AcceptedCalls, LoggedKept DEF UsageInv
  <1>6. Dispatched \cup Unwritten = InMemory
    BY DEF Dispatched, Unwritten, InMemory, InBatch, InChan, InItem, InQueue
  <1>7. \A r \in Call : /\ r \notin InMemory => fate'[r] = fate[r]
                        /\ r \in InMemory => fate'[r] \in {"undispatched", "unwritten", "crash"}
    <2>1. CASE Exit
      BY <2>1, <1>6 DEF Exit
    <2>2. CASE Crash
      BY <2>2, <1>6 DEF Crash, Lose
    <2> QED BY <2>1, <2>2
  <1>8. Found'
    <2>1. SUFFICES ASSUME NEW r \in Call
                   PROVE  /\ r \in Anywhere' <=> once'[r] /\ fate'[r] = "none"
                          /\ ~once'[r] => fate'[r] = "none"
                          /\ once'[r] => born'[r] <= boots'
                          /\ r \in InMemory' => born'[r] = boots'
      BY DEF Found
    <2> QED BY <1>1, <1>4, <1>7 DEF UsageInv, Found
  <1>9. CountersAgree'
    BY <1>1 DEF CountersAgree, Alive
  <1> QED BY <1>2, <1>5, <1>8, <1>9 DEF UsageInv

LEMMA InvBoot ==
  ASSUME UsageTyped, UsageInv, Boot
  PROVE  UsageInv'
  <1>1. /\ service = "exited" /\ boots' = boots + 1 /\ counters' = base'
        /\ UNCHANGED <<once, failed, born, accepted, queue, item, chan, batch, table, fate>>
    BY DEF Boot, calls, database
  <1>2. batch = <<>> /\ item = <<>> /\ chan = <<>> /\ queue = <<>>
    BY <1>1 DEF Ended, Alive
  <1>3. InLine' /\ Rows' = Rows /\ InBatch' = InBatch /\ InChan' = InChan /\ InItem' = InItem
        /\ InQueue' = InQueue
    BY <1>1, LineStays DEF UsageInv, Sequences
  <1>4. Anywhere' = Anywhere /\ InMemory' = {}
    BY <1>2, <1>3, SetNone DEF Anywhere, InMemory, InBatch, InChan, InItem, InQueue
  <1>5. Logged'
    BY <1>1, <1>4, AcceptedCalls, LoggedKept DEF UsageInv
  <1>6. boots \in Nat /\ \A r \in Call : born[r] \in Nat
    BY UsageAssumption DEF ServiceTyped, CallsTyped
  <1>7. Found'
    BY <1>1, <1>4, <1>6 DEF UsageInv, Found
  <1>8. \A r \in Call : ~HandedAt(r)'
    BY <1>1, <1>6 DEF HandedAt, UsageInv, Found
  <1>9. Handed' = {}
    BY <1>8, HandedIs
  <1>10. {r \in Handed' : failed'[r]} = {}
    BY <1>9
  <1>11. counters' \in Count /\ base' \in Count
    BY BootTyped DEF PluginTyped
  <1>12. base'.total \in Nat /\ base'.failure \in Nat /\ base'.success \in Nat
    BY <1>11 DEF Count
  <1>13. CountersAgree'
    BY <1>1, <1>9, <1>10, <1>12, FS_EmptySet DEF CountersAgree
  <1> QED BY <1>3, <1>5, <1>7, <1>13 DEF UsageInv

LEMMA InvInit == UsageInit => UsageInv
  <1> SUFFICES ASSUME UsageInit PROVE UsageInv
    OBVIOUS
  <1>1. /\ accepted = <<>> /\ table = <<>> /\ batch = <<>> /\ chan = <<>> /\ item = <<>> /\ queue = <<>>
        /\ counters = NoCount /\ base = NoCount
    BY DEF UsageInit
  <1>2. Rows = {} /\ InBatch = {} /\ InChan = {} /\ InItem = {} /\ InQueue = {} /\ ToSet(accepted) = {}
    BY <1>1, SetNone DEF Rows, Range, InBatch, InChan, InItem, InQueue
  <1>3. InLine
    BY <1>1, <1>2, SetNone DEF InLine, Below
  <1>4. Logged
    BY <1>1, <1>2 DEF Logged, Distinct
  <1>5. \A r \in Call : once[r] = FALSE /\ fate[r] = "none"
    BY DEF UsageInit
  <1>6. Found
    BY <1>2, <1>5 DEF Found, Anywhere, InMemory
  <1>7. Handed = {} /\ {r \in Handed : failed[r]} = {}
    <2>1. \A r \in Call : ~HandedAt(r)
      BY <1>5 DEF HandedAt
    <2> QED BY <2>1, HandedIs
  <1>8. CountersAgree
    BY <1>1, <1>7, FS_EmptySet DEF CountersAgree, NoCount
  <1> QED BY <1>3, <1>4, <1>6, <1>8 DEF UsageInv

LEMMA InvNext == UsageTyped /\ UsageInv /\ [UsageNext]_usageVars => UsageInv'
  <1> SUFFICES ASSUME UsageTyped, UsageInv, [UsageNext]_usageVars PROVE UsageInv'
    OBVIOUS
  <1> USE DEF calls, manager, plugin, backend, database, Others, Rest
  <1>1. CASE DispatcherStep
    <2>1. CASE DispatcherEnds \/ SetStatisticsEnabled
      <3>1. UNCHANGED Sequences
            /\ UNCHANGED <<once, born, failed, fate, boots, counters, base, service>>
            /\ (dispatch' = dispatch \/ "enqueue" \notin {dispatch, dispatch'})
        BY <2>1 DEF DispatcherEnds, SetStatisticsEnabled, Sequences
      <3> QED BY <3>1, InvStays DEF Alive
    <2> QED BY <1>1, <2>1, InvTake, InvSkip, InvRecord, InvEnqueue DEF DispatcherStep
  <1>2. CASE WriterStep
    <2>1. CASE Tick \/ SeesStop \/ Drained \/ CleanerSeesStop
      <3>1. UNCHANGED Sequences
            /\ UNCHANGED <<once, born, failed, fate, boots, counters, base, dispatch, service>>
        BY <2>1 DEF Tick, SeesStop, Drained, CleanerSeesStop, Sequences
      <3> QED BY <3>1, InvStays DEF Alive
    <2> QED BY <1>2, <2>1, InvReceive, InvFlush, InvCleanup DEF WriterStep
  <1>3. CASE StopStep \/ UNCHANGED usageVars
    <2>1. UNCHANGED Sequences
          /\ UNCHANGED <<once, born, failed, fate, boots, counters, base, dispatch>>
      BY <1>3 DEF StopStep, usageVars, BeginShutdown, StopBackend, HttpExpired, BackendStopped,
                  StopDefault, Sequences
    <2>2. Alive' => Alive
      BY <1>3 DEF StopStep, usageVars, BeginShutdown, StopBackend, HttpExpired, BackendStopped,
                  StopDefault, Alive
    <2> QED BY <2>1, <2>2, InvStays
  <1>4. CASE \E r \in Call : Arrive(r) \/ Leave(r) \/ \E f \in BOOLEAN : Publish(r, f)
    BY <1>4, InvCall
  <1> QED BY <1>1, <1>2, <1>3, <1>4, UsageSteps, InvExit, InvBoot

-----------------------------------------------------------------------------
(* What a stop finds                                                       *)

\* The record is written, or was in a transaction that failed, or the writer has
\* still to come to it.
Coming(r) ==
  \/ r \in Rows \/ fate[r] \in {"failed", "expired"}
  \/ r \in InBatch /\ writer # "done"
  \/ r \in InChan /\ writer \notin {"lastflush", "done"}

\* Where the shutdown and the writer are when stopChan is closed.
Stopped ==
  /\ stopping => service \in {"backend", "default", "exit", "exited"}
  /\ Alive /\ writer \in {"drain", "drainflush", "lastflush", "done"} => stopping
  /\ service \in {"default", "exit"} /\ stopping => writer = "done"

Owing == Stopped /\ (stopping /\ Alive => \A r \in owed : Coming(r))

LEMMA OwingStays ==
  ASSUME Owing, UNCHANGED <<stopping, owed>>, service' = service,
         writer' = writer \/ (Alive /\ writer # "done" /\ (stopping \/ writer' \in {"select", "flush"})),
         stopping /\ Alive => \A r \in owed : Coming(r) => Coming(r)'
  PROVE  Owing'
  <1>1. Stopped'
    BY Zenon DEF Owing, Stopped, Alive
  <1> QED BY Zenon, <1>1 DEF Owing, Alive

\* Steps that leave the backend and what it holds alone.
LEMMA OwingIdle ==
  ASSUME Owing, UNCHANGED <<stopping, owed, service, writer, table, batch, chan, fate>>
  PROVE  Owing'
  <1>1. \A r : Coming(r) => Coming(r)'
    BY DEF Coming, Rows, InBatch, InChan
  <1> QED BY <1>1, OwingStays

LEMMA OwingCall ==
  ASSUME UsageTyped, UsageInv, Owing, NEW r \in Call,
         Arrive(r) \/ Leave(r) \/ \E f \in BOOLEAN : Publish(r, f)
  PROVE  Owing'
  <1>1. UNCHANGED <<stopping, owed, service, writer, table, batch, chan>>
    BY DEF Arrive, Leave, Publish, backend, database
  <1>2. fate' = fate \/ (~once[r] /\ Lose({r}, "closed"))
    BY DEF Arrive, Leave, Publish
  <1>3. \A q \in owed : fate[q] \in {"failed", "expired"} => fate'[q] = fate[q]
    <2>1. CASE fate' = fate
      BY <2>1
    <2>2. CASE ~once[r] /\ Lose({r}, "closed")
      <3>1. fate[r] = "none"
        BY <2>2 DEF UsageInv, Found
      <3>2. owed \subseteq Call
        BY DEF BackendTyped
      <3> QED BY <2>2, <3>1, <3>2 DEF Lose
    <2> QED BY <1>2, <2>1, <2>2
  <1>4. \A q \in owed : Coming(q) => Coming(q)'
    BY <1>1, <1>3 DEF Coming, Rows, InBatch, InChan
  <1> QED BY <1>1, <1>4, OwingStays

\* The dispatcher may add to what the backend has, and lose what it has not.
LEMMA OwingDispatch ==
  ASSUME UsageTyped, UsageInv, Owing, DispatcherStep
  PROVE  Owing'
  <1>1. UNCHANGED <<stopping, owed, service, writer, table, batch>>
    BY DEF DispatcherStep, Take, DispatcherEnds, Skip, Record, Enqueue, SetStatisticsEnabled,
           backend, database
  <1>2. CASE Skip \/ Enqueue
    <2>0. PICK x : x = item[1]
      OBVIOUS
    <2>1. Alive /\ dispatch \in {"handle", "enqueue"}
      BY <1>2 DEF Skip, Enqueue
    <2>2. x \in Call /\ InItem = {x}
      BY <2>0, <2>1, ItemInHand
    <2>3. \/ chan' = chan \o item /\ fate' = fate
          \/ chan' = chan /\ (Lose({x}, "full") \/ Lose({x}, "disabled"))
      BY <2>0, <1>2 DEF Skip, Enqueue, backend
    <2>4. InChan \subseteq InChan'
      <3>1. chan \in Seq(Call) /\ item \in Seq(Call)
        BY DEF ManagerTyped, BackendTyped
      <3>2. ToSet(chan \o item) = ToSet(chan) \cup ToSet(item)
        BY <3>1, TurnConcat
      <3> QED BY <2>3, <3>2 DEF InChan
    <2>5. fate[x] = "none"
      BY <2>2 DEF UsageInv, Found, Anywhere
    <2>6. \A q \in owed : fate[q] \in {"failed", "expired"} => fate'[q] = fate[q]
      <3>1. owed \subseteq Call
        BY DEF BackendTyped
      <3> QED BY <2>3, <2>5, <3>1 DEF Lose
    <2>7. \A q \in owed : Coming(q) => Coming(q)'
      BY <1>1, <2>4, <2>6 DEF Coming, Rows, InBatch
    <2> QED BY <1>1, <2>7, OwingStays
  <1>3. CASE Take \/ DispatcherEnds \/ Record \/ SetStatisticsEnabled
    <2>1. UNCHANGED <<chan, fate>>
      BY <1>3 DEF Take, DispatcherEnds, Record, SetStatisticsEnabled, backend
    <2> QED BY <1>1, <2>1, OwingIdle
  <1> QED BY <1>2, <1>3 DEF DispatcherStep

LEMMA OwingWrite ==
  ASSUME UsageTyped, UsageInv, Owing, WriterStep
  PROVE  Owing'
  <1> USE DEF Others
  <1>0. owed \subseteq Call
    BY DEF BackendTyped
  <1>1. UNCHANGED <<stopping, owed, service>>
    BY DEF WriterStep, Receive, Tick, SeesStop, Drained, Flush, Cleanup, CleanerSeesStop, backend
  <1>2. CASE Receive
    <2>1. PICK x \in Call : InChan = {x} \cup InChan' /\ InBatch' = InBatch \cup {x}
      BY <1>2, ReceiveMoves DEF UsageInv
    <2>2. Rows' = Rows
      BY <1>2, ReceiveMoves DEF UsageInv
    <2>3. fate' = fate /\ Alive /\ writer \in {"select", "drain"}
          /\ (writer' \in {writer, "drainflush"} \/ writer' = "flush")
          /\ (writer = "select" => writer' \in {"select", "flush"})
      BY <1>2 DEF Receive
    <2>4. \A q : Coming(q) => Coming(q)'
      BY <2>1, <2>2, <2>3 DEF Coming
    <2>5. writer = "drain" => stopping
      BY <2>3 DEF Owing, Stopped
    <2>6. stopping \/ writer' \in {"select", "flush"}
      BY <2>3, <2>5
    <2> QED BY <1>1, <2>3, <2>4, <2>6, OwingStays
  <1>3. CASE Tick \/ SeesStop
    <2>1. UNCHANGED <<table, batch, chan, fate>> /\ Alive /\ writer = "select"
          /\ writer' \in {"flush", "drain"} /\ (writer' = "flush" \/ stopping)
      BY <1>3 DEF Tick, SeesStop, database
    <2>2. \A q : Coming(q) => Coming(q)'
      BY <2>1 DEF Coming, Rows, InBatch, InChan
    <2> QED BY <1>1, <2>1, <2>2, OwingStays
  <1>4. CASE Drained
    <2>1. UNCHANGED <<table, batch, chan, fate>> /\ Alive /\ writer = "drain" /\ chan = <<>>
          /\ writer' = IF batch = <<>> THEN "done" ELSE "lastflush"
      BY <1>4 DEF Drained, database
    <2>2. InChan = {} /\ (batch = <<>> => InBatch = {})
      BY <2>1, SetNone DEF InChan, InBatch
    <2>3. \A q : Coming(q) => Coming(q)'
      BY <2>1, <2>2 DEF Coming, Rows, InBatch, InChan
    <2>4. stopping
      BY <2>1 DEF Owing, Stopped
    <2> QED BY <1>1, <2>1, <2>3, <2>4, OwingStays
  <1>5. CASE Flush
    <2>1. /\ Alive /\ writer \in {"flush", "drainflush", "lastflush"} /\ batch' = <<>>
          /\ writer' = CASE writer = "flush" -> "select" [] writer = "drainflush" -> "drain"
                         [] writer = "lastflush" -> "done"
          /\ UNCHANGED <<accepted, chan, item, queue>>
          /\ (\/ Insert /\ fate' = fate
              \/ Lose(ToSet(batch), "failed") /\ table' = table)
      BY <1>5 DEF Flush, manager, database
    <2>2. \/ writer = "flush" /\ writer' = "select"
          \/ writer = "drainflush" /\ writer' = "drain"
          \/ writer = "lastflush" /\ writer' = "done"
      BY <2>1
    <2>3. InChan' = InChan
      BY <2>1 DEF InChan
    <2>4. \A q \in owed : Coming(q) => Coming(q)'
      <3>1. CASE Insert /\ fate' = fate
        <4>1. Rows' = Rows \cup InBatch
          BY <2>1, <3>1, InsertMoves DEF UsageInv
        <4> QED BY <2>2, <2>3, <3>1, <4>1 DEF Coming
      <3>2. CASE Lose(ToSet(batch), "failed") /\ table' = table
        <4>1. Rows' = Rows
          BY <3>2 DEF Rows
        <4>2. \A q \in owed : fate'[q] = IF q \in InBatch THEN "failed" ELSE fate[q]
          BY <1>0, <3>2 DEF Lose, InBatch
        <4> QED BY <2>2, <2>3, <4>1, <4>2 DEF Coming
      <3> QED BY <2>1, <3>1, <3>2
    <2>5. writer \in {"drainflush", "lastflush"} => stopping
      BY <2>1 DEF Owing, Stopped
    <2>6. stopping \/ writer' \in {"select", "flush"}
      BY <2>2, <2>5
    <2> QED BY <1>1, <2>1, <2>2, <2>4, <2>6, OwingStays
  <1>6. CASE Cleanup
    <2>1. UNCHANGED <<accepted, batch, chan, item, queue, writer, lastRow>>
      BY <1>6 DEF Cleanup, manager, backend
    <2>2. PICK aged \in SUBSET DOMAIN table \ {{}} :
            /\ table' = Restrict(table, DOMAIN table \ aged)
            /\ Lose({table[id] : id \in aged}, "expired")
      BY <1>6 DEF Cleanup
    <2>3. PICK S : S = {table[id] : id \in aged}
      OBVIOUS
    <2>4. Rows' = Rows \ S
      BY <2>1, <2>2, <2>3, CleanupMoves DEF UsageInv, Logged
    <2>5. \A q \in owed : fate'[q] = IF q \in S THEN "expired" ELSE fate[q]
      BY <1>0, <2>2, <2>3 DEF Lose
    <2>6. \A q \in owed : Coming(q) => Coming(q)'
      BY <2>1, <2>4, <2>5 DEF Coming, InBatch, InChan
    <2> QED BY <1>1, <2>1, <2>6, OwingStays
  <1>7. CASE CleanerSeesStop
    <2>1. UNCHANGED <<writer, table, batch, chan, fate>>
      BY <1>7 DEF CleanerSeesStop, database
    <2> QED BY <1>1, <2>1, OwingIdle
  <1> QED BY <1>2, <1>3, <1>4, <1>5, <1>6, <1>7 DEF WriterStep

LEMMA OwingStop ==
  ASSUME UsageTyped, Owing, StopStep
  PROVE  Owing'
  <1>1. UNCHANGED <<table, batch, chan, fate, writer>>
    BY DEF StopStep, Rest, BeginShutdown, StopBackend, HttpExpired, BackendStopped, StopDefault,
           backend, database
  <1>2. \A r : Rows' = Rows /\ InBatch' = InBatch /\ InChan' = InChan
    BY <1>1 DEF Rows, InBatch, InChan
  <1>3. CASE StopBackend
    <2>1. service = "http" /\ service' = "backend" /\ stopping' = TRUE
          /\ owed' = ToSet(chan) \cup ToSet(batch)
      BY <1>3 DEF StopBackend
    <2>2. Alive /\ ~stopping
      BY Zenon, <2>1 DEF Owing, Stopped, Alive
    <2>3. writer \notin {"drain", "drainflush", "lastflush", "done"}
      BY <2>2 DEF Owing, Stopped
    <2>4. \A r \in owed' : Coming(r)'
      BY <1>1, <1>2, <2>1, <2>3 DEF Coming, InBatch, InChan
    <2>5. Stopped'
      BY Zenon, <1>1, <2>1 DEF Stopped
    <2> QED BY Zenon, <2>4, <2>5 DEF Owing
  <1>4. CASE ~StopBackend
    <2>1. UNCHANGED <<stopping, owed>>
          /\ \/ service = "run" /\ service' = "http"
             \/ service = "http" /\ service' = "default"
             \/ service = "backend" /\ service' = "default" /\ writer = "done"
             \/ service = "default" /\ service' = "exit"
      BY <1>4 DEF StopStep, Rest, BeginShutdown, HttpExpired, BackendStopped, StopDefault, backend
    <2>2. Alive
      BY <2>1 DEF Alive
    <2>3. stopping => service \notin {"run", "http"}
      BY Zenon, <2>1 DEF Owing, Stopped
    <2>4. Stopped'
      <3>1. stopping' => service' \in {"backend", "default", "exit", "exited"}
        BY Zenon, <2>1, <2>3
      <3>2. writer' \in {"drain", "drainflush", "lastflush", "done"} => stopping'
        BY Zenon, <1>1, <2>1, <2>2 DEF Owing, Stopped
      <3>3. service' \in {"default", "exit"} /\ stopping' => writer' = "done"
        BY Zenon, <1>1, <2>1, <2>3 DEF Owing, Stopped
      <3> QED BY Zenon, <3>1, <3>2, <3>3 DEF Stopped
    <2>5. \A r : Coming(r) => Coming(r)'
      BY <1>1, <1>2 DEF Coming
    <2> QED BY Zenon, <2>1, <2>2, <2>4, <2>5 DEF Owing
  <1> QED BY <1>3, <1>4

LEMMA OwingExit ==
  ASSUME Owing, Exit \/ Crash
  PROVE  Owing'
  <1>1. service' = "exited"
    BY DEF Exit, Crash, Exited
  <1> QED BY Zenon, <1>1 DEF Owing, Stopped, Alive

LEMMA OwingBoot ==
  ASSUME Owing, Boot
  PROVE  Owing'
  <1>1. service' = "run" /\ stopping' = FALSE /\ writer' = "select"
    BY DEF Boot
  <1> QED BY Zenon, <1>1 DEF Owing, Stopped

LEMMA OwingInit == UsageInit => Owing
  <1> SUFFICES ASSUME UsageInit PROVE Owing
    OBVIOUS
  <1>1. stopping = FALSE /\ writer = "select" /\ service = "run"
    BY DEF UsageInit
  <1> QED BY Zenon, <1>1 DEF Owing, Stopped

LEMMA OwingNext ==
  UsageTyped /\ UsageInv /\ Owing /\ [UsageNext]_usageVars => Owing'
  <1> SUFFICES ASSUME UsageTyped, UsageInv, Owing, [UsageNext]_usageVars PROVE Owing'
    OBVIOUS
  <1>1. CASE UNCHANGED usageVars
    <2>1. UNCHANGED <<stopping, owed, service, writer, table, batch, chan, fate>>
      BY <1>1 DEF usageVars, backend, database
    <2> QED BY <2>1, OwingIdle
  <1> QED BY <1>1, UsageSteps, OwingCall, OwingDispatch, OwingWrite, OwingStop, OwingExit, OwingBoot

LEMMA OwingFlushes == Owing => StopFlushes
  <1> SUFFICES ASSUME Owing, stopping, service \in {"default", "exit"}, NEW r \in owed
               PROVE  r \in Rows \/ fate[r] \in {"failed", "expired"}
    BY DEF StopFlushes
  <1>1. Alive /\ writer = "done"
    BY Zenon DEF Owing, Stopped, Alive
  <1>2. Coming(r)
    BY Zenon, <1>1 DEF Owing
  <1> QED BY <1>1, <1>2 DEF Coming

-----------------------------------------------------------------------------
(* The theorems                                                            *)

LEMMA InvAccounted == UsageTyped /\ UsageInv => Accounted
  <1> SUFFICES ASSUME UsageTyped, UsageInv PROVE Accounted
    OBVIOUS
  <1>1. accepted \in Seq(Call) /\ batch \in Seq(Call) /\ chan \in Seq(Call) /\ item \in Seq(Call)
        /\ queue \in Seq(Call)
    BY DEF ManagerTyped, BackendTyped
  <1>2. \A a : ~Precedes(accepted, a, a)
    BY <1>1, PrecedesOnce DEF UsageInv, Logged
  <1>3. \A a, b : Before(a, b) <=> Precedes(accepted, a, b)
    BY DEF Before, Precedes
  <1> DEFINE bc == batch \o chan
             bci == bc \o item
  <1>4. bc \in Seq(Call) /\ bci \in Seq(Call)
    BY <1>1, ConcatProperties
  <1>5. ToSet(bc) = InBatch \cup InChan /\ InTurn(accepted, bc)
    <2>1. InTurn(accepted, batch) /\ InTurn(accepted, chan) /\ Below(accepted, ToSet(batch), ToSet(chan))
      BY DEF UsageInv, InLine, InBatch, InChan, Below
    <2> QED BY <1>1, <2>1, TurnConcat DEF InBatch, InChan
  <1> HIDE DEF bc
  <1>6. ToSet(bci) = InBatch \cup InChan \cup InItem /\ InTurn(accepted, bci)
    <2>1. InTurn(accepted, item) /\ Below(accepted, ToSet(bc), ToSet(item))
      BY <1>5 DEF UsageInv, InLine, InItem, Below
    <2> QED BY <1>1, <1>4, <1>5, <2>1, TurnConcat DEF InItem
  <1> HIDE DEF bci
  <1>7. ToSet(Waiting) = InMemory /\ InTurn(accepted, Waiting)
    <2>1. InTurn(accepted, queue) /\ Below(accepted, ToSet(bci), ToSet(queue))
      BY <1>6 DEF UsageInv, InLine, InQueue, Below
    <2>2. Waiting = bci \o queue
      BY DEF Waiting, bci, bc
    <2> QED BY <1>1, <1>4, <1>6, <2>1, <2>2, TurnConcat DEF InQueue, InMemory
  <1>8. InOrder
    <2>1. \A i, j \in DOMAIN table : i < j => Before(table[i], table[j])
      BY <1>3 DEF UsageInv, InLine, InTurn
    <2>2. \A i, j \in DOMAIN Waiting : i < j => Before(Waiting[i], Waiting[j])
      BY <1>3, <1>7 DEF InTurn
    <2>3. \A a \in Rows, b \in ToSet(Waiting) : Before(a, b)
      BY <1>3, <1>7 DEF UsageInv, InLine, Below, InMemory
    <2> QED BY <2>1, <2>2, <2>3 DEF InOrder
  <1>9. Placed
    <2>1. \A r \in Call : r \in Rows \cup ToSet(Waiting) <=> once[r] /\ fate[r] = "none"
      BY <1>7 DEF UsageInv, Found, Anywhere, InMemory
    <2>2. IsInjective(table)
      BY RowsDistinct DEF UsageInv, Logged, IsInjective
    <2>3. IsInjective(Waiting)
      <3>1. Waiting \in Seq(Call)
        BY <1>1, <1>4, ConcatProperties DEF Waiting, bci, bc
      <3>2. DOMAIN Waiting \subseteq Nat
        BY <3>1
      <3>3. \A i, j \in DOMAIN Waiting : i = j \/ i < j \/ j < i
        BY <3>2
      <3> QED BY <1>2, <1>7, <3>3 DEF IsInjective, InTurn
    <2>4. Rows \cap ToSet(Waiting) = {}
      BY <1>7, PlacesApart DEF UsageInv
    <2> QED BY <2>1, <2>2, <2>3, <2>4 DEF Placed
  <1> QED BY <1>8, <1>9 DEF Accounted, UsageInv

LEMMA UsageInvariant == UsageSpec => [](UsageTyped /\ UsageInv /\ Owing)
  <1> HIDE DEF UsageTyped
  <1>1. UsageInit => UsageTyped /\ UsageInv /\ Owing
    BY UsageInitTyped, InvInit, OwingInit
  <1>2. UsageTyped /\ UsageInv /\ Owing /\ [UsageNext]_usageVars => (UsageTyped /\ UsageInv /\ Owing)'
    BY UsageNextTyped, InvNext, OwingNext
  <1> QED BY <1>1, <1>2, PTL DEF UsageSpec

\* For any calls, buffers, batches and restarts: a published record is in one of
\* the five places, once, or was lost for one reason; rows are numbered in the
\* order in which the calls reported; and the counters are what the database knew
\* at the start and what was handed over since (types.go, logger_plugin.go,
\* sqlite_backend.go).
THEOREM RecordsAccounted == UsageSpec => []Accounted
  <1> HIDE DEF UsageTyped
  <1> QED BY UsageInvariant, InvAccounted, PTL

\* When SQLiteBackend.Stop has returned, all that was in the channel and in the
\* batch when it closed stopChan has been written, or has been in a transaction
\* that failed: the draining loop leaves nothing behind.
THEOREM StopWritesAll == UsageSpec => []StopFlushes
  <1> QED BY UsageInvariant, OwingFlushes, PTL

=============================================================================
