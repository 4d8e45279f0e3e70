-------------------------- MODULE MCAuthExecution --------------------------
(* Model-checking instances of AuthExecution. *)
EXTENDS AuthExecution, TLC

CONSTANTS p1, p2

\* Every credential serves the one provider, or the credentials are split.
OneProvider == [a \in Auth |-> p1]
TwoProviders == LET first == CHOOSE a \in Auth : TRUE
                IN [a \in Auth |-> IF a = first THEN p1 ELSE p2]

Symmetry == Permutations(Request) \cup Permutations(Auth)
=============================================================================
