---------------------------- MODULE SnapshotCas ----------------------------
(***************************************************************************)
(* internal/provider/auth_entry.go: how the metadata and the model states  *)
(* of a credential are updated.  Each is an immutable snapshot behind an   *)
(* atomic pointer; an update loads it, builds the next one and swaps the   *)
(* pointer if nobody has swapped it since.  After so many failures         *)
(* UpdateMetadata, UpdateModelState and UpdateAllModelStates store their   *)
(* snapshot all the same, and ClearModelState gives up.                    *)
(*                                                                         *)
(* A snapshot is known by its stamp; what it holds is how many updates of  *)
(* each goroutine are in it.                                               *)
(*                                                                         *)
(* Names a reader would expect to be Init, Next, Spec, TypeOK and pc carry *)
(* a prefix or another name, so that one module can hold the proofs of     *)
(* this loop and of RetryBudget's.                                         *)
(***************************************************************************)
EXTENDS Integers

CONSTANTS
  Writer,    \* goroutines that update one credential
  Clearer,   \* those that call ClearModelState
  Attempts,  \* how often the loop tries (100 in the code)
  Rounds     \* bound: updates of each goroutine

ASSUME CasAssumption ==
  /\ Clearer \subseteq Writer
  /\ Attempts \in Nat \ {0}
  /\ Rounds \in Nat

VARIABLES
  snapshot,  \* what the pointer refers to
  old,       \* the snapshot each goroutine has loaded
  failures,  \* failed swaps in the present update
  at,        \* where each goroutine is
  finished,  \* updates each goroutine has returned from
  forced     \* history: some update was stored without a swap, or given up

casVars == <<snapshot, old, failures, at, finished, forced>>

None == [w \in Writer |-> 0]
Snapshot == [stamp : Nat, has : [Writer -> Nat]]
With(s, w) == [stamp |-> snapshot.stamp + 1, has |-> [s.has EXCEPT ![w] = @ + 1]]

CasInit ==
  /\ snapshot = [stamp |-> 0, has |-> None]
  /\ old = [w \in Writer |-> snapshot]
  /\ failures = None /\ finished = None
  /\ at = [w \in Writer |-> "idle"]
  /\ forced = FALSE

Go(w, there) == at' = [at EXCEPT ![w] = there]

Begin(w) ==
  /\ at[w] = "idle"
  /\ finished[w] < Rounds
  /\ failures' = [failures EXCEPT ![w] = 0]
  /\ Go(w, "load")
  /\ UNCHANGED <<snapshot, old, finished, forced>>

Return(w) ==
  /\ Go(w, "idle")
  /\ finished' = [finished EXCEPT ![w] = @ + 1]

Load(w) ==
  /\ at[w] = "load"
  /\ old' = [old EXCEPT ![w] = snapshot]
  /\ Go(w, "swap")
  /\ UNCHANGED <<snapshot, failures, finished, forced>>

\* Mutant: the snapshot is stored without a comparison.
SwapBlindly(w) ==
  /\ at[w] = "swap"
  /\ snapshot' = With(old[w], w)
  /\ Return(w)
  /\ UNCHANGED <<old, failures, forced>>

Swap(w) ==
  /\ at[w] = "swap"
  /\ snapshot.stamp = old[w].stamp
  /\ snapshot' = With(old[w], w)
  /\ Return(w)
  /\ UNCHANGED <<old, failures, forced>>

\* Mutant: the pointer is loaded once, before the loop.
SwapFailsStale(w) ==
  /\ at[w] = "swap"
  /\ snapshot.stamp # old[w].stamp
  /\ failures' = [failures EXCEPT ![w] = @ + 1]
  /\ Go(w, IF failures[w] + 1 < Attempts THEN "swap" ELSE "fallback")
  /\ UNCHANGED <<snapshot, old, finished, forced>>

SwapFails(w) ==
  /\ at[w] = "swap"
  /\ snapshot.stamp # old[w].stamp
  /\ failures' = [failures EXCEPT ![w] = @ + 1]
  /\ Go(w, IF failures[w] + 1 < Attempts THEN "load" ELSE "fallback")
  /\ UNCHANGED <<snapshot, old, finished, forced>>

FallbackLoad(w) ==
  /\ at[w] = "fallback"
  /\ w \notin Clearer
  /\ old' = [old EXCEPT ![w] = snapshot]
  /\ forced' = TRUE
  /\ Go(w, "store")
  /\ UNCHANGED <<snapshot, failures, finished>>

FallbackStore(w) ==
  /\ at[w] = "store"
  /\ snapshot' = With(old[w], w)
  /\ Return(w)
  /\ UNCHANGED <<old, failures, forced>>

ClearGivesUp(w) ==
  /\ at[w] = "fallback"
  /\ w \in Clearer
  /\ forced' = TRUE
  /\ Return(w)
  /\ UNCHANGED <<snapshot, old, failures>>

Update(w) ==
  \/ Begin(w) \/ Load(w) \/ Swap(w) \/ SwapFails(w)
  \/ FallbackLoad(w) \/ FallbackStore(w) \/ ClearGivesUp(w)

CasNext == \E w \in Writer : Update(w)

CasSpec == CasInit /\ [][CasNext]_casVars

-----------------------------------------------------------------------------
(* Properties                                                              *)

CasTypeOK ==
  /\ snapshot \in Snapshot
  /\ old \in [Writer -> Snapshot]
  /\ failures \in [Writer -> 0..Attempts]
  /\ at \in [Writer -> {"idle", "load", "swap", "fallback", "store"}]
  /\ finished \in [Writer -> Nat]
  /\ forced \in BOOLEAN

\* auth_entry.go:610, 629, 647, "atomically updates ... using CAS loop": every
\* update that has returned is in the snapshot, exactly once.
Atomic == \A w \in Writer : snapshot.has[w] = finished[w]

\* The loop itself loses nothing and applies nothing twice, however many
\* goroutines race; only the fall-back can.
LostOnlyByFallback == ~forced => Atomic

\* A swap fails only because another goroutine's update has gone in since the
\* load: each failure is paid for by an update, so with fewer updates than
\* Attempts nobody reaches the fall-back.
FailureMeansProgress ==
  \A w \in Writer : at[w] # "idle" => failures[w] + finished[w] <= snapshot.stamp

=============================================================================
