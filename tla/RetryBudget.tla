---------------------------- MODULE RetryBudget ----------------------------
(***************************************************************************)
(* The retry loop of Manager.Execute / ExecuteCount / ExecuteStream        *)
(* (internal/provider/manager.go) together with the lock-free token        *)
(* bucket it draws on (internal/resilience/retry.go, RetryBudget).         *)
(*                                                                         *)
(* Every request is a goroutine.  Its first attempt is free; each later    *)
(* attempt must take a token and gives it back when the attempt is over.   *)
(* TryAcquire and Release are compare-and-swap loops, so the load of the   *)
(* counter and the swap are separate steps and other goroutines may move   *)
(* the counter in between.  What one attempt does with the providers is    *)
(* abstracted to its outcome (see AuthExecution for its inside).           *)
(***************************************************************************)
EXTENDS Integers, FiniteSets

CONSTANTS
  Request,       \* the concurrent requests
  Streaming,     \* those of them that come through ExecuteStream
  ConfigCapacity,\* the argument of NewRetryBudget
  RequestRetry   \* m.requestRetry: the extra attempts a request may make

ASSUME RetryAssumption ==
  /\ IsFiniteSet(Request)
  /\ Streaming \subseteq Request
  /\ ConfigCapacity \in Int
  /\ RequestRetry \in Nat

VARIABLES
  capacity,  \* RetryBudget.capacity
  pc,        \* where each request is in its retry loop
  current,   \* the counter value a request loaded in its CAS loop
  attempt,   \* the loop variable of the request
  held,      \* acquiredBudget, TRUE until the token is handed back
  outcome    \* how the request's latest attempt ended

vars == <<capacity, pc, current, attempt, held, outcome>>

\* NewRetryBudget: a capacity that is not positive becomes 50.
MaxCapacity == IF ConfigCapacity <= 0 THEN 50 ELSE ConfigCapacity

\* attempts := retryTimes + 1; if attempts < 1 { attempts = 1 }
MaxAttempts == RequestRetry + 1

Steps == {"attempt", "acquire", "acquireCas", "release", "releaseCas",
          "decide", "streaming", "done"}
Outcomes == {"none", "ok", "error"}

Init ==
  /\ capacity = MaxCapacity
  /\ pc = [r \in Request |-> "attempt"]
  /\ current = [r \in Request |-> 0]
  /\ attempt = [r \in Request |-> 0]
  /\ held = [r \in Request |-> FALSE]
  /\ outcome = [r \in Request |-> "none"]

Goto(r, step) == pc' = [pc EXCEPT ![r] = step]

-----------------------------------------------------------------------------
(* RetryBudget.TryAcquire                                                  *)

\* Mutant: the budget check is off by one and lets the counter go below zero.
TryAcquireLoadPastZero(r) ==
  /\ pc[r] = "acquire"
  /\ current' = [current EXCEPT ![r] = capacity]
  /\ Goto(r, IF capacity < 0 THEN "done" ELSE "acquireCas")
  /\ UNCHANGED <<capacity, attempt, held, outcome>>

\* current := rb.capacity.Load(); with no token left the request breaks out
\* of its loop and returns the error of its previous attempt.
TryAcquireLoad(r) ==
  /\ pc[r] = "acquire"
  /\ \/ /\ capacity <= 0
        /\ Goto(r, "done")
        /\ UNCHANGED current
     \/ /\ capacity > 0
        /\ current' = [current EXCEPT ![r] = capacity]
        /\ Goto(r, "acquireCas")
  /\ UNCHANGED <<capacity, attempt, held, outcome>>

\* rb.capacity.CompareAndSwap(current, current-1), retried when it fails.
TryAcquireCas(r) ==
  /\ pc[r] = "acquireCas"
  /\ \/ /\ capacity = current[r]
        /\ capacity' = current[r] - 1
        /\ held' = [held EXCEPT ![r] = TRUE]
        /\ Goto(r, "attempt")
     \/ /\ capacity # current[r]
        /\ Goto(r, "acquire")
        /\ UNCHANGED <<capacity, held>>
  /\ UNCHANGED <<current, attempt, outcome>>

(* RetryBudget.Release                                                     *)

\* Where the loop goes once the token question is settled: a success returns
\* (a stream keeps running in its own goroutine), an error is considered for
\* another attempt.
AfterAttempt(r, o) ==
  IF o = "ok" THEN (IF r \in Streaming THEN "streaming" ELSE "done")
              ELSE "decide"

\* current := rb.capacity.Load(); a full bucket makes Release return at once.
ReleaseLoad(r) ==
  /\ pc[r] = "release"
  /\ IF capacity >= MaxCapacity
       THEN /\ held' = [held EXCEPT ![r] = FALSE]
            /\ Goto(r, AfterAttempt(r, outcome[r]))
            /\ UNCHANGED current
       ELSE /\ current' = [current EXCEPT ![r] = capacity]
            /\ Goto(r, "releaseCas")
            /\ UNCHANGED held
  /\ UNCHANGED <<capacity, attempt, outcome>>

\* rb.capacity.CompareAndSwap(current, current+1), retried when it fails.
ReleaseCas(r) ==
  /\ pc[r] = "releaseCas"
  /\ \/ /\ capacity = current[r]
        /\ capacity' = current[r] + 1
        /\ held' = [held EXCEPT ![r] = FALSE]
        /\ Goto(r, AfterAttempt(r, outcome[r]))
     \/ /\ capacity # current[r]
        /\ Goto(r, "release")
        /\ UNCHANGED <<capacity, held>>
  /\ UNCHANGED <<current, attempt, outcome>>

-----------------------------------------------------------------------------
(* The loop of Manager.Execute and its two siblings                        *)

\* executeProvidersOnce returns; a token is released before anything else
\* when the attempt was paid for with one.
EndAttempt(r) ==
  /\ pc[r] = "attempt"
  /\ \E o \in {"ok", "error"} :
       /\ outcome' = [outcome EXCEPT ![r] = o]
       /\ Goto(r, IF held[r] THEN "release" ELSE AfterAttempt(r, o))
  /\ UNCHANGED <<capacity, current, attempt, held>>

\* Mutant: the attempt counter is not advanced.
DecideWithoutCounting(r) ==
  /\ pc[r] = "decide"
  /\ \/ Goto(r, "done")
     \/ attempt[r] < MaxAttempts - 1 /\ Goto(r, "acquire")
  /\ UNCHANGED <<capacity, current, attempt, held, outcome>>

\* shouldRetryAfterError and waitForAvailableAuth: the last attempt never
\* retries, any other may (the error's category and the credentials decide).
Decide(r) ==
  /\ pc[r] = "decide"
  /\ \/ /\ Goto(r, "done")
        /\ UNCHANGED attempt
     \/ /\ attempt[r] < MaxAttempts - 1
        /\ attempt' = [attempt EXCEPT ![r] = @ + 1]
        /\ Goto(r, "acquire")
  /\ UNCHANGED <<capacity, current, held, outcome>>

\* The chunk channel that ExecuteStream returned is closed.
EndStream(r) ==
  /\ pc[r] = "streaming"
  /\ Goto(r, "done")
  /\ UNCHANGED <<capacity, current, attempt, held, outcome>>

\* All requests have returned: the program idles.
Idle ==
  /\ \A r \in Request : pc[r] = "done"
  /\ UNCHANGED vars

Step(r) ==
  \/ TryAcquireLoad(r)
  \/ TryAcquireCas(r)
  \/ ReleaseLoad(r)
  \/ ReleaseCas(r)
  \/ EndAttempt(r)
  \/ Decide(r)
  \/ EndStream(r)

Next == (\E r \in Request : Step(r)) \/ Idle

Spec == Init /\ [][Next]_vars

\* The scheduler runs every runnable goroutine, an upstream call ends by its
\* own timeouts, and a client reads or abandons its stream.
FairSpec == Spec /\ \A r \in Request : WF_vars(Step(r))

-----------------------------------------------------------------------------
(* Properties                                                              *)

TypeOK ==
  /\ capacity \in 0..MaxCapacity
  /\ pc \in [Request -> Steps]
  /\ current \in [Request -> 0..MaxCapacity]
  /\ attempt \in [Request -> 0..RequestRetry]
  /\ held \in [Request -> BOOLEAN]
  /\ outcome \in [Request -> Outcomes]

Holders == {r \in Request : held[r]}

\* No token is lost or duplicated by racing compare-and-swap loops: what is
\* in the bucket and what the requests hold always adds up to the maximum.
BudgetConserved == capacity + Cardinality(Holders) = MaxCapacity

\* The point of the budget: at most MaxCapacity requests are inside a retry
\* attempt at the same time, whatever the number of requests.
Retrying == {r \in Request : pc[r] = "attempt" /\ attempt[r] > 0}
RetriesBounded == Cardinality(Retrying) <= MaxCapacity

\* No way out of the retry loop leaks a token: once every request has returned
\* the bucket is full again.
QuiescentBudgetFull ==
  (\A r \in Request : pc[r] \in {"streaming", "done"}) => capacity = MaxCapacity

\* The early return of Release (bucket already full) never swallows a token
\* that a request owns.
ReleaseNeverClamped ==
  [][\A r \in Request : held[r] /\ ~held'[r] => capacity' = capacity + 1]_vars

\* The two CAS loops together implement a counting semaphore: each completed
\* TryAcquire or Release takes effect in one step.
Permits == INSTANCE Semaphore
  WITH Client <- Request, Size <- MaxCapacity, free <- capacity, holders <- Holders
ImplementsSemaphore == Permits!SemSpec

\* Every request returns: the CAS loops and the retry loop all end.
Termination == <>(\A r \in Request : pc[r] = "done")

\* The comment on Release (internal/resilience/retry.go:241, "Should be called
\* after a retry attempt completes (success or failure)") read for streams: a
\* retried stream keeps its token until it has ended, so that at most
\* MaxCapacity retried attempts, running streams included, are in progress.
RetriedStreams == {r \in Request : pc[r] = "streaming" /\ attempt[r] > 0}
RetriedStreamsBounded == Cardinality(Retrying \cup RetriedStreams) <= MaxCapacity

=============================================================================
