-------------------------- MODULE MCModelRegistry --------------------------
(* Model-checking instances of ModelRegistry. *)
EXTENDS ModelRegistry, TLC

CONSTANTS p1, p2, m1, m2, k1

\* Each client keeps to one provider: one credential file, one type.
FirstClient == CHOOSE c \in Client : TRUE
FixedProviders == [c \in Client |-> IF c = FirstClient THEN {p1} ELSE {p2}]
SharedProvider == [c \in Client |-> {p1}]
AnyProvider == [c \in Client |-> Provider]

\* m1 has a canonical id of its own, m2 has that of m1's name.
OneCanon == [c \in Client |-> [m \in Model |-> IF m = m1 THEN k1 ELSE m1]]
\* One client's list comes from the configuration file, which sets none.
TwoCanons == [c \in Client |-> [m \in Model |-> IF c = FirstClient THEN m ELSE k1]]
=============================================================================
