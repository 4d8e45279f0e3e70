------------------------------ MODULE Catalog ------------------------------
(***************************************************************************)
(* What the model registry promises: at any time the routes are exactly    *)
(* what the registered clients offer, and one client's registration        *)
(* changes nothing of what the others offer.                               *)
(***************************************************************************)
CONSTANTS
  Client,  \* the credentials
  Route    \* what a client can offer: a model at a provider

VARIABLES
  offer,   \* the routes each client offers
  routes   \* the routes requests can take

catalogVars == <<offer, routes>>

CatalogInit ==
  /\ offer = [c \in Client |-> {}]
  /\ routes = {}

\* A client replaces what it offers; the empty offer is its departure.
Offer(c, R) ==
  /\ offer' = [offer EXCEPT ![c] = R]
  /\ routes' = UNION {offer'[d] : d \in Client}

CatalogSpec ==
  CatalogInit /\ [][\E c \in Client, R \in SUBSET Route : Offer(c, R)]_catalogVars

=============================================================================
