--------------------------- MODULE AuthExecution ---------------------------
(***************************************************************************)
(* Non-streaming execution: Manager.Execute, executeProvidersOnce,         *)
(* executeWithProvider (internal/provider/execution.go), the choice of a   *)
(* credential and the bookkeeping of results (auth_registry.go).           *)
(*                                                                         *)
(* Every request is a goroutine.  The state it shares with the others is   *)
(* made of separate atomics (the active-request counter, the model state   *)
(* pointer, the metadata pointer), so choosing a credential and recording  *)
(* a result are several steps each.  One model is requested; a credential  *)
(* is "blocked" while its state for that model is unavailable with a retry *)
(* time in the future, and time is the action Expire.                      *)
(***************************************************************************)
EXTENDS Integers, Sequences, FiniteSets, Gobreaker

CONSTANTS
  Request,      \* concurrent requests
  Provider,     \* the providers that serve the requested model
  Auth,         \* the credentials
  ProviderOf,   \* the provider of each credential
  RequestRetry, \* extra passes over the providers
  Answers,      \* bound: the outcomes upstream gives in this instance
  MaxGen        \* bound: breaker generations the clock may start

\* What an upstream call can end with, by the error category of the answer.
\* "fail" stands for the auth, quota and transient categories.
Outcome == {"ok", "user", "notfound", "fail", "revoked", "unknown",
            "canceled", "notready"}

ASSUME ExecutionAssumption ==
  /\ IsFiniteSet(Request)
  /\ IsFiniteSet(Provider)
  /\ ProviderOf \in [Auth -> Provider]
  /\ RequestRetry \in Nat
  /\ Answers \subseteq Outcome
  /\ MaxGen \in Nat

NoAuth == "none"

VARIABLES
  breaker,     \* Manager.breakers
  active,      \* AuthEntry.Quota.ActiveRequests
  blocked,     \* the entry's model state blocks the requested model
  metaStatus,  \* AuthMetadata.Status
  disabled,    \* AuthEntry.disabled
  legacyDisabled, \* Disabled in Manager.auths, the older copy of the credentials
  pc,          \* where each request is
  order,       \* selectProviders' result
  idx,         \* position in order
  tried,       \* the credentials this provider pass has used
  auth,        \* the credential in hand
  gen,         \* the breaker generation the running call was admitted in
  answer,      \* how the running call ended
  err,         \* the error the pass would return
  attempt,     \* Manager.Execute's loop variable
  calls        \* history: upstream calls per credential in this provider pass

shared == <<breaker, active, blocked, metaStatus, disabled, legacyDisabled>>
local == <<pc, order, idx, tried, auth, gen, answer, err, attempt, calls>>
vars == <<shared, local>>

Refusal == {"open", "toomany"}
PassError == {"none", "circuit_open", "unavailable", "cooldown"}
               \cup (Outcome \ {"ok"}) \cup Refusal

\* categoryFromError(err).ShouldFallback()
ShouldFallback(e) == e \in {"fail", "cooldown", "toomany"}

\* DefaultIsSuccessful: nil and the errors that are the user's own fault.
IsSuccessful(o) == o \in {"ok", "user", "notfound", "canceled"}

Steps == {"idle", "provider", "pick", "claim", "call", "upstream", "mark",
          "markState", "markMeta", "okState", "okMeta", "decide", "done"}

NoCalls == [a \in Auth |-> 0]

Init ==
  /\ breaker = [p \in Provider |-> NewBreaker]
  /\ active = [a \in Auth |-> 0]
  /\ blocked = [a \in Auth |-> FALSE]
  /\ metaStatus = [a \in Auth |-> "active"]
  /\ disabled = [a \in Auth |-> FALSE]
  /\ legacyDisabled = [a \in Auth |-> FALSE]
  /\ pc = [r \in Request |-> "idle"]
  /\ order = [r \in Request |-> <<>>]
  /\ idx = [r \in Request |-> 0]
  /\ tried = [r \in Request |-> {}]
  /\ auth = [r \in Request |-> NoAuth]
  /\ gen = [r \in Request |-> 0]
  /\ answer = [r \in Request |-> "none"]
  /\ err = [r \in Request |-> "none"]
  /\ attempt = [r \in Request |-> 0]
  /\ calls = [r \in Request |-> NoCalls]

Goto(r, step) == pc' = [pc EXCEPT ![r] = step]
Fail(r, e) == err' = [err EXCEPT ![r] = e]
Current(r) == order[r][idx[r]]
Usable(a) == ~disabled[a] /\ metaStatus[a] # "disabled" /\ ~blocked[a]

-----------------------------------------------------------------------------
(* Choosing providers and credentials                                      *)

Orderings(S) ==
  {f \in [1..Cardinality(S) -> S] : \A i, j \in DOMAIN f : i # j => f[i] # f[j]}

\* selectProviders: the providers whose breaker is not open, in the order of
\* their scores (any order here), or all of them when every breaker is open.
SelectProviders ==
  LET notOpen == {p \in Provider : breaker[p].state # "open"}
  IN Orderings(IF notOpen = {} THEN Provider ELSE notOpen)

\* Manager.Execute enters its loop.
Begin(r) ==
  /\ pc[r] = "idle"
  /\ \E o \in SelectProviders : order' = [order EXCEPT ![r] = o]
  /\ idx' = [idx EXCEPT ![r] = 1]
  /\ Goto(r, "provider")
  /\ UNCHANGED <<shared, tried, auth, gen, answer, err, attempt, calls>>

\* executeWithProvider returns: its locals are gone.
ForgetPass(r) ==
  /\ tried' = [tried EXCEPT ![r] = {}]
  /\ calls' = [calls EXCEPT ![r] = NoCalls]
  /\ auth' = [auth EXCEPT ![r] = NoAuth]
  /\ answer' = [answer EXCEPT ![r] = "none"]

\* The pass leaves a provider with an error and moves on.
LeaveProvider(r, e) ==
  /\ Fail(r, e)
  /\ idx' = [idx EXCEPT ![r] = @ + 1]
  /\ ForgetPass(r)
  /\ Goto(r, "provider")

\* Manager.Execute returns: its locals are gone.
Finish(r) ==
  /\ order' = [order EXCEPT ![r] = <<>>]
  /\ idx' = [idx EXCEPT ![r] = 0]
  /\ attempt' = [attempt EXCEPT ![r] = 0]
  /\ Fail(r, "none")
  /\ Goto(r, "done")

\* executeWithProvider up to its loop: an open breaker skips the provider.
EnterProvider(r) ==
  /\ pc[r] = "provider"
  /\ IF idx[r] > Len(order[r])
       THEN /\ Goto(r, "decide")
            /\ UNCHANGED <<idx, tried, auth, answer, err, calls>>
       ELSE IF breaker[Current(r)].state = "open"
       THEN LeaveProvider(r, "circuit_open")
       ELSE /\ Goto(r, "pick")
            /\ UNCHANGED <<idx, tried, auth, answer, err, calls>>
  /\ UNCHANGED <<shared, order, gen, attempt>>

\* pickNextFromRegistry and AuthRegistry.Pick up to the choice: the usable
\* credential with the fewest active requests.  "answer" still holds the last
\* error of this provider, which wins over Pick's own error.
Pick(r) ==
  /\ pc[r] = "pick"
  /\ LET entries == {a \in Auth : /\ ProviderOf[a] = Current(r)
                                  /\ ~disabled[a] /\ a \notin tried[r]}
         usable == {a \in entries : Usable(a)}
         waiting == {a \in entries : metaStatus[a] # "disabled" /\ blocked[a]}
     IN \/ /\ usable = {}
           /\ LeaveProvider(r, IF answer[r] # "none" THEN answer[r]
                               ELSE IF waiting # {} THEN "cooldown"
                               ELSE "unavailable")
        \/ \E a \in usable :
           /\ \A b \in usable : active[a] <= active[b]
           /\ auth' = [auth EXCEPT ![r] = a]
           /\ Goto(r, "claim")
           /\ UNCHANGED <<idx, tried, answer, err, calls>>
  /\ UNCHANGED <<shared, order, gen, attempt>>

\* Mutant: the credential is not remembered as tried.
ClaimForgetsTried(r) ==
  /\ pc[r] = "claim"
  /\ active' = [active EXCEPT ![auth[r]] = @ + 1]
  /\ Goto(r, "call")
  /\ UNCHANGED <<breaker, blocked, metaStatus, disabled, legacyDisabled, order,
                 idx, tried, auth, gen, answer, err, attempt, calls>>

\* IncrementActiveRequests on the chosen entry; tried[auth.ID] = struct{}{}.
Claim(r) ==
  /\ pc[r] = "claim"
  /\ active' = [active EXCEPT ![auth[r]] = @ + 1]
  /\ tried' = [tried EXCEPT ![r] = @ \cup {auth[r]}]
  /\ Goto(r, "call")
  /\ UNCHANGED <<breaker, blocked, metaStatus, disabled, legacyDisabled, order,
                 idx, auth, gen, answer, err, attempt, calls>>

-----------------------------------------------------------------------------
(* The call through the breaker                                            *)

\* breaker.Execute: admitted, or refused without calling upstream.  A refusal
\* comes back as an error like any other and is charged to the credential.
StartCall(r) ==
  LET b == breaker[Current(r)] IN
  /\ pc[r] = "call"
  /\ \/ /\ Admits(b)
        /\ breaker' = [breaker EXCEPT ![Current(r)] = CountRequest(b)]
        /\ gen' = [gen EXCEPT ![r] = b.gen]
        /\ calls' = [calls EXCEPT ![r][auth[r]] = @ + 1]
        /\ Goto(r, "upstream")
        /\ UNCHANGED answer
     \/ /\ ~Admits(b)
        /\ answer' = [answer EXCEPT ![r] = IF b.state = "open" THEN "open" ELSE "toomany"]
        /\ Goto(r, "mark")
        /\ UNCHANGED <<breaker, gen, calls>>
  /\ UNCHANGED <<active, blocked, metaStatus, disabled, legacyDisabled, order,
                 idx, tried, auth, err, attempt>>

\* Mutant: a call that the caller gave up on is not reported to the breaker.
SettleUnlessCanceled(r, o) ==
  IF o = "canceled" THEN UNCHANGED breaker
  ELSE breaker' = [breaker EXCEPT ![Current(r)] = Report(@, gen[r], IsSuccessful(o))]

\* gobreaker's afterRequest with IsSuccessful, however the call ended.
Settle(r, o) ==
  breaker' = [breaker EXCEPT ![Current(r)] = Report(@, gen[r], IsSuccessful(o))]

\* The executor returns and the breaker is told.  A cancelled context leaves
\* the provider at once, a token that is not ready goes on to the next
\* credential: neither is recorded against the credential.
Return(r) ==
  /\ pc[r] = "upstream"
  /\ \E o \in Answers :
       /\ Settle(r, o)
       /\ CASE o = "canceled" -> LeaveProvider(r, "canceled")
            [] o = "notready" -> /\ Goto(r, "pick")
                                 /\ auth' = [auth EXCEPT ![r] = NoAuth]
                                 /\ UNCHANGED <<idx, tried, answer, err, calls>>
            [] OTHER -> /\ answer' = [answer EXCEPT ![r] = o]
                        /\ Goto(r, IF o = "ok" THEN "okState" ELSE "mark")
                        /\ UNCHANGED <<idx, tried, auth, err, calls>>
  /\ gen' = [gen EXCEPT ![r] = 0]
  /\ UNCHANGED <<active, blocked, metaStatus, disabled, legacyDisabled, order,
                 attempt>>

-----------------------------------------------------------------------------
(* AuthRegistry.MarkResult                                                 *)

\* Mutant: a failure is counted down a second time by whoever reports it.
MarkDecrementTwice(r) ==
  /\ pc[r] = "mark"
  /\ active' = [active EXCEPT ![auth[r]] = IF @ <= 2 THEN 0 ELSE @ - 2]
  /\ IF answer[r] = "user"
       THEN Goto(r, "pick") /\ auth' = [auth EXCEPT ![r] = NoAuth]
       ELSE Goto(r, "markState") /\ UNCHANGED auth
  /\ UNCHANGED <<breaker, blocked, metaStatus, disabled, legacyDisabled, order,
                 idx, tried, gen, answer, err, attempt, calls>>

\* A failure: DecrementActiveRequests (never below zero); a user error stops
\* there, handleFailureResult returns before it touches any state.
MarkDecrement(r) ==
  /\ pc[r] = "mark"
  /\ active' = [active EXCEPT ![auth[r]] = IF @ <= 0 THEN @ ELSE @ - 1]
  /\ IF answer[r] = "user"
       THEN Goto(r, "pick") /\ auth' = [auth EXCEPT ![r] = NoAuth]
       ELSE Goto(r, "markState") /\ UNCHANGED auth
  /\ UNCHANGED <<breaker, blocked, metaStatus, disabled, legacyDisabled, order,
                 idx, tried, gen, answer, err, attempt, calls>>

\* handleFailureResult, first write: the model state becomes unavailable until
\* its retry time.
MarkState(r) ==
  /\ pc[r] = "markState"
  /\ blocked' = [blocked EXCEPT ![auth[r]] = TRUE]
  /\ Goto(r, "markMeta")
  /\ UNCHANGED <<breaker, active, metaStatus, disabled, legacyDisabled, order,
                 idx, tried, auth, gen, answer, err, attempt, calls>>

\* handleFailureResult, second write: metadata status "error", whatever it was.
MarkMeta(r) ==
  /\ pc[r] = "markMeta"
  /\ metaStatus' = [metaStatus EXCEPT ![auth[r]] = "error"]
  /\ auth' = [auth EXCEPT ![r] = NoAuth]
  /\ Goto(r, "pick")
  /\ UNCHANGED <<breaker, active, blocked, disabled, legacyDisabled, order,
                 idx, tried, gen, answer, err, attempt, calls>>

\* handleSuccessResult: the model state is cleared, then the metadata; the
\* active-request counter is left as it is.
OkState(r) ==
  /\ pc[r] = "okState"
  /\ blocked' = [blocked EXCEPT ![auth[r]] = FALSE]
  /\ Goto(r, "okMeta")
  /\ UNCHANGED <<breaker, active, metaStatus, disabled, legacyDisabled, order,
                 idx, tried, auth, gen, answer, err, attempt, calls>>

OkMeta(r) ==
  /\ pc[r] = "okMeta"
  /\ metaStatus' = [metaStatus EXCEPT ![auth[r]] = "active"]
  /\ ForgetPass(r)
  /\ Finish(r)
  /\ UNCHANGED <<breaker, active, blocked, disabled, legacyDisabled, gen>>

-----------------------------------------------------------------------------
(* Manager.Execute after a failed pass                                     *)

\* hasAvailableAuth reads Manager.auths.  Nothing writes model states there:
\* MarkResult goes to the registry only.
Selected(r) == {order[r][i] : i \in 1..Len(order[r])}
HasAvailableAuth(r) ==
  \E a \in Auth : ProviderOf[a] \in Selected(r) /\ ~legacyDisabled[a]

\* Mutant: the error category no longer matters and the bound is dropped.
DecideAlways(r) ==
  /\ pc[r] = "decide"
  /\ idx' = [idx EXCEPT ![r] = 1]
  /\ Goto(r, "provider")
  /\ UNCHANGED <<shared, order, tried, auth, gen, answer, err, attempt, calls>>

\* shouldRetryAfterError; without a retry token or on a timeout of the wait
\* the loop ends as well (RetryBudget models the token).
Decide(r) ==
  /\ pc[r] = "decide"
  /\ \/ Finish(r)
     \/ /\ attempt[r] < RequestRetry
        /\ ShouldFallback(err[r])
        /\ HasAvailableAuth(r)
        /\ attempt' = [attempt EXCEPT ![r] = @ + 1]
        /\ idx' = [idx EXCEPT ![r] = 1]
        /\ Goto(r, "provider")
        /\ UNCHANGED <<order, err>>
  /\ UNCHANGED <<shared, tried, auth, gen, answer, calls>>

-----------------------------------------------------------------------------
(* The environment                                                         *)

\* A retry time passes.
Expire(a) ==
  /\ blocked[a]
  /\ blocked' = [blocked EXCEPT ![a] = FALSE]
  /\ UNCHANGED <<breaker, active, metaStatus, disabled, legacyDisabled, local>>

\* The breaker's interval or open timeout passes.
BreakerClock(p) ==
  /\ breaker[p].gen < MaxGen
  /\ breaker[p].state # "half"
  /\ breaker[p].requests > 0 \/ breaker[p].state = "open"
  /\ breaker' = [breaker EXCEPT ![p] = ClockExpired(@)]
  /\ UNCHANGED <<active, blocked, metaStatus, disabled, legacyDisabled, local>>

\* Manager.Update with Disabled set (a revoked token in refreshAuth, a removed
\* file, the management API).
Disable(a) ==
  /\ ~disabled[a]
  /\ legacyDisabled' = [legacyDisabled EXCEPT ![a] = TRUE]
  /\ metaStatus' = [metaStatus EXCEPT ![a] = "disabled"]
  /\ disabled' = [disabled EXCEPT ![a] = TRUE]
  /\ UNCHANGED <<breaker, active, blocked, local>>

Idle ==
  /\ \A r \in Request : pc[r] = "done"
  /\ UNCHANGED vars

Step(r) ==
  \/ Begin(r) \/ EnterProvider(r) \/ Pick(r) \/ Claim(r)
  \/ StartCall(r) \/ Return(r)
  \/ MarkDecrement(r) \/ MarkState(r) \/ MarkMeta(r) \/ OkState(r) \/ OkMeta(r)
  \/ Decide(r)

Next ==
  \/ \E r \in Request : Step(r)
  \/ \E a \in Auth : Expire(a) \/ Disable(a)
  \/ \E p \in Provider : BreakerClock(p)
  \/ Idle

Spec == Init /\ [][Next]_vars

\* Goroutines are scheduled and upstream calls return (their clients have
\* timeouts); clocks and administrators owe nothing.
FairSpec == Spec /\ \A r \in Request : WF_vars(Step(r))

-----------------------------------------------------------------------------
(* Properties                                                              *)

TypeOK ==
  /\ breaker \in [Provider -> Breaker]
  /\ active \in [Auth -> Nat]
  /\ blocked \in [Auth -> BOOLEAN]
  /\ metaStatus \in [Auth -> {"active", "error", "disabled"}]
  /\ disabled \in [Auth -> BOOLEAN]
  /\ legacyDisabled \in [Auth -> BOOLEAN]
  /\ pc \in [Request -> Steps]
  /\ order \in [Request -> Seq(Provider)]
  /\ idx \in [Request -> Nat]
  /\ tried \in [Request -> SUBSET Auth]
  /\ auth \in [Request -> Auth \cup {NoAuth}]
  /\ gen \in [Request -> Nat]
  /\ answer \in [Request -> {"none"} \cup Outcome \cup Refusal]
  /\ err \in [Request -> PassError]
  /\ attempt \in [Request -> 0..RequestRetry]
  /\ calls \in [Request -> [Auth -> Nat]]

\* The requests that count in a credential's load: claimed, not yet recorded.
InFlight(a) == {r \in Request : auth[r] = a /\ pc[r] \in {"call", "upstream", "mark"}}

\* Pick balances by the active-request counter; it may never show a credential
\* as less loaded than it is, or Pick would pile requests onto it.
ActiveNeverUnder == \A a \in Auth : Cardinality(InFlight(a)) <= active[a]

\* One pass over a provider calls upstream at most once per credential, however
\* often credentials recover while the pass runs.
OneCallPerAuth == \A r \in Request, a \in Auth : calls[r][a] <= 1

\* The calls that run in the breaker's present generation.
CurrentCalls(p) ==
  {r \in Request : pc[r] = "upstream" /\ Current(r) = p /\ gen[r] = breaker[p].gen}

\* A half-open breaker lets only MaxRequests probes through, and each of its
\* slots is a probe that runs or one that succeeded: none is lost on the way.
HalfOpenProbes ==
  \A p \in Provider : breaker[p].state = "half" =>
    /\ Cardinality(CurrentCalls(p)) <= MaxRequests
    /\ breaker[p].requests = breaker[p].consecSuccesses + Cardinality(CurrentCalls(p))

\* How far a call of one credential has got; "pick" comes after it, for the next.
Stage(step) ==
  CASE step = "idle" -> 0      [] step = "provider" -> 1
    [] step = "call" -> 2      [] step = "upstream" -> 3
    [] step \in {"mark", "okState"} -> 4
    [] step \in {"markState", "okMeta"} -> 5
    [] step = "markMeta" -> 6  [] step = "pick" -> 7
    [] step = "claim" -> 8     [] OTHER -> 9

\* A later attempt, in it a later provider, for it a further credential, with it
\* a later stage.
Later(r) ==
  \/ attempt'[r] > attempt[r]
  \/ /\ attempt'[r] = attempt[r]
     /\ \/ idx'[r] > idx[r]
        \/ /\ idx'[r] = idx[r]
           /\ tried[r] \subseteq tried'[r]
           /\ tried[r] = tried'[r] => Stage(pc'[r]) > Stage(pc[r])

\* A request only goes forward, whatever clocks and administrators do: each of
\* its steps ends it or uses up a stage, a credential, a provider or a retry, of
\* which there are finitely many, so that its loops run out.
Advances ==
  [][\A r \in Request :
       pc'[r] # pc[r] => pc[r] # "done" /\ (pc'[r] = "done" \/ Later(r))]_vars

\* Every request is answered.
Answered == \A r \in Request : pc[r] # "idle" ~> pc[r] = "done"

\* auth_registry.go:663-664, "Always decrement active requests for non-success
\* results. This ensures active count stays accurate": the counter is the
\* number of requests in flight.
ActiveAccurate ==
  \A a \in Auth :
    (\A r \in Request : auth[r] = a => pc[r] = "claim")
      => active[a] = Cardinality(InFlight(a))

\* error_category.go:23-24, "permanently revoked OAuth tokens. Should disable
\* auth permanently": a recorded revocation takes the credential out.
RevokedAuthIsDisabled ==
  [][\A r \in Request : pc[r] = "markMeta" /\ pc'[r] = "pick" /\ answer[r] = "revoked"
       => disabled'[auth[r]]]_vars

\* retry.go:112-113, "hasAvailableAuth checks if any auth for the given
\* providers/model is available (not blocked). This is used to determine if a
\* retry would be useful": a retry is decided only with a usable credential.
AvailabilityMatchesPick ==
  \A r \in Request : pc[r] = "decide" /\ HasAvailableAuth(r) =>
    \E a \in Auth : ProviderOf[a] \in Selected(r) /\ Usable(a)

=============================================================================
