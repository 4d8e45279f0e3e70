----------------------------- MODULE Gobreaker -----------------------------
(***************************************************************************)
(* The circuit breaker of github.com/sony/gobreaker as the wrappers in     *)
(* internal/resilience configure and use it.  A breaker is a record; its   *)
(* operations are functions on that record, each of them run under the     *)
(* library's mutex, so one step of a caller applies one of them.           *)
(* ReadyToTrip is this repository's own; the rest is the library.          *)
(***************************************************************************)
EXTENDS Integers

CONSTANTS
  MaxRequests,      \* calls admitted while half-open, and successes to close
  FailureThreshold, \* consecutive failures that open it
  MinRequests       \* calls of a generation before it may open at all

ASSUME BreakerAssumption ==
  /\ MaxRequests \in Nat \ {0}
  /\ FailureThreshold \in Nat \ {0}
  /\ MinRequests \in Nat \ {0}

BreakerStates == {"closed", "open", "half"}

Breaker == [state : BreakerStates, gen : Nat, requests : Nat, failures : Nat,
            consecFailures : Nat, consecSuccesses : Nat]

NewBreaker == [state |-> "closed", gen |-> 0, requests |-> 0, failures |-> 0,
               consecFailures |-> 0, consecSuccesses |-> 0]

\* toNewGeneration: counts restart and reports of older calls no longer count.
NewGeneration(b, s) == [NewBreaker EXCEPT !.state = s, !.gen = b.gen + 1]

\* beforeRequest: ErrOpenState when open, ErrTooManyRequests when the half-open
\* quota is used up, otherwise the call is counted.
Admits(b) == \/ b.state = "closed"
             \/ b.state = "half" /\ b.requests < MaxRequests
CountRequest(b) == [b EXCEPT !.requests = @ + 1]

\* The failure ratio of the default configuration is one half.
ReadyToTrip(b) ==
  /\ b.requests >= MinRequests
  /\ \/ b.consecFailures >= FailureThreshold
     \/ 2 * b.failures >= b.requests

OnSuccess(b) ==
  LET c == [b EXCEPT !.consecSuccesses = @ + 1, !.consecFailures = 0]
  IN IF b.state = "half" /\ c.consecSuccesses >= MaxRequests
       THEN NewGeneration(b, "closed") ELSE c

OnFailure(b) ==
  LET c == [b EXCEPT !.failures = @ + 1, !.consecFailures = @ + 1, !.consecSuccesses = 0]
  IN CASE b.state = "closed" -> IF ReadyToTrip(c) THEN NewGeneration(b, "open") ELSE c
       [] b.state = "half"   -> NewGeneration(b, "open")
       [] OTHER              -> b

\* afterRequest: a report of another generation is dropped.
Report(b, gen, success) ==
  IF gen # b.gen THEN b
  ELSE IF success THEN OnSuccess(b) ELSE OnFailure(b)

\* currentState when the clock has passed the expiry: an open breaker turns
\* half-open, a closed one starts a new counting interval.
ClockExpired(b) ==
  CASE b.state = "open"   -> NewGeneration(b, "half")
    [] b.state = "closed" -> NewGeneration(b, "closed")
    [] OTHER              -> b

=============================================================================
