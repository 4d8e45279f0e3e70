----------------------------- MODULE Semaphore -----------------------------
(***************************************************************************)
(* What the retry budget promises its callers: a counting semaphore.  A    *)
(* client takes a permit in one step when one is left and puts its own     *)
(* permit back in one step; permits are neither created nor destroyed.     *)
(***************************************************************************)
EXTENDS Integers, FiniteSets

CONSTANTS
  Client,  \* who may hold a permit
  Size     \* the number of permits

VARIABLES
  free,    \* permits that nobody holds
  holders  \* the clients that hold a permit, at most one each

semVars == <<free, holders>>

SemInit == free = Size /\ holders = {}

Acquire(c) ==
  /\ free > 0
  /\ c \notin holders
  /\ free' = free - 1
  /\ holders' = holders \cup {c}

Release(c) ==
  /\ c \in holders
  /\ free' = free + 1
  /\ holders' = holders \ {c}

SemNext == \E c \in Client : Acquire(c) \/ Release(c)

SemSpec == SemInit /\ [][SemNext]_semVars

=============================================================================
