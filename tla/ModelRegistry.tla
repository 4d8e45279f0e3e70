--------------------------- MODULE ModelRegistry ---------------------------
(***************************************************************************)
(* internal/registry: which client (credential) offers which model at      *)
(* which provider, how many registrations each model has, and the two      *)
(* indices a request is routed by.                                         *)
(*                                                                         *)
(* A writer holds writerMu, changes a deep copy of the state and publishes *)
(* it with one atomic store; a reader works on one snapshot.  Each         *)
(* operation is therefore one action.  Provider keys are never empty at    *)
(* the call sites (internal/service/model_registration.go), so no          *)
(* registration is stored under a bare model id and the look-ups of        *)
(* RegisterClient by bare id find nothing.                                 *)
(***************************************************************************)
EXTENDS Integers, FiniteSets

CONSTANTS
  Client,      \* the credentials
  Provider,    \* provider keys
  Model,       \* model ids
  Id,          \* model ids and canonical ids: what a request may ask for
  Copies,      \* bound: how often one list may name a model
  MaxCount,    \* bound: the largest count of one registration
  ProvidersOf, \* the provider keys each client registers under
  CanonOf      \* the canonical id each client gives each model

NoProvider == "none"

ASSUME RegistryAssumption ==
  /\ IsFiniteSet(Client) /\ NoProvider \notin Provider
  /\ Model \subseteq Id
  /\ Copies \in Nat \ {0}
  /\ MaxCount \in Nat
  /\ ProvidersOf \in [Client -> SUBSET Provider]
  /\ CanonOf \in [Client -> [Model -> Id]]

VARIABLES
  count,          \* registryState.models: Count of each registration, 0 = absent
  info,           \* canonical id in the registration's Info
  modelIDIndex,   \* pairs <<model, provider>>
  canonicalIndex, \* triples <<canonical id, provider, model>>
  clientModels,   \* how often each client's list names each model
  clientProvider  \* the provider each client is registered under

vars == <<count, info, modelIDIndex, canonicalIndex, clientModels, clientProvider>>

Key == Provider \X Model
Listing == [Model -> 0..Copies]
NoModels == [m \in Model |-> 0]

Init ==
  /\ count = [k \in Key |-> 0]
  /\ info \in [Key -> Id]
  /\ modelIDIndex = {}
  /\ canonicalIndex = {}
  /\ clientModels = [c \in Client |-> NoModels]
  /\ clientProvider = [c \in Client |-> NoProvider]

-----------------------------------------------------------------------------
(* Changing the registrations of one client                                *)

\* Mutant: a registration that a list names twice is given back once.
LessOnce(old, new) == IF new < old THEN 1 ELSE 0

\* How many registrations of a model a client gives back and takes.
Less(old, new) == IF new < old THEN old - new ELSE 0

More(old, new) == IF old < new THEN new - old ELSE 0

\* What removeModelRegistration, called Less times under the old provider, and
\* then addModelRegistration, called More times under the new one, make of the
\* counts.  A count that reaches zero deletes the registration.
Counts(oldP, p, old, new) ==
  [k \in Key |->
    LET left == IF k[1] = oldP /\ Less(old[k[2]], new[k[2]]) > 0
                  THEN IF count[k] > Less(old[k[2]], new[k[2]])
                         THEN count[k] - Less(old[k[2]], new[k[2]]) ELSE 0
                  ELSE count[k]
    IN left + (IF k[1] = p THEN More(old[k[2]], new[k[2]]) ELSE 0)]

Removed(after) == {k \in Key : count[k] > 0 /\ after[k] = 0}
Created(after) == {k \in Key : count[k] = 0 /\ after[k] > 0}
Grown(after)   == {k \in Key : after[k] > count[k]}

\* Mutant: a deleted registration stays in the index by model id.
ReindexForgetsModel(after, canon) ==
  /\ info' = [k \in Key |-> IF k \in Grown(after) THEN canon[k[2]] ELSE info[k]]
  /\ modelIDIndex' = modelIDIndex \cup {<<k[2], k[1]>> : k \in Created(after)}
  /\ canonicalIndex' =
       (canonicalIndex \ {<<info[k], k[1], k[2]>> : k \in Removed(after)})
          \cup {<<canon[k[2]], k[1], k[2]>> : k \in Created(after)}

\* Mutant: a deleted registration stays in the index by canonical id.
ReindexForgetsCanonical(after, canon) ==
  /\ info' = [k \in Key |-> IF k \in Grown(after) THEN canon[k[2]] ELSE info[k]]
  /\ modelIDIndex' = (modelIDIndex \ {<<k[2], k[1]>> : k \in Removed(after)})
                        \cup {<<k[2], k[1]>> : k \in Created(after)}
  /\ canonicalIndex' =
       canonicalIndex \cup {<<canon[k[2]], k[1], k[2]>> : k \in Created(after)}

\* A new registration enters both indices, a deleted one leaves them (the
\* canonical index under the id in its Info); one more registration of a known
\* model replaces its Info and leaves the indices alone.
Reindex(after, canon) ==
  /\ info' = [k \in Key |-> IF k \in Grown(after) THEN canon[k[2]] ELSE info[k]]
  /\ modelIDIndex' = (modelIDIndex \ {<<k[2], k[1]>> : k \in Removed(after)})
                        \cup {<<k[2], k[1]>> : k \in Created(after)}
  /\ canonicalIndex' =
       (canonicalIndex \ {<<info[k], k[1], k[2]>> : k \in Removed(after)})
          \cup {<<canon[k[2]], k[1], k[2]>> : k \in Created(after)}

Change(c, p, new) ==
  LET after == Counts(clientProvider[c], p, clientModels[c], new) IN
  /\ count' = after
  /\ Reindex(after, CanonOf[c])

\* RegisterClient with a list that names at least one model.
RegisterClient(c, p, new) ==
  /\ new # NoModels
  /\ Change(c, p, new)
  /\ \A k \in Key : count'[k] <= MaxCount
  /\ clientModels' = [clientModels EXCEPT ![c] = new]
  /\ clientProvider' = [clientProvider EXCEPT ![c] = p]

\* Mutant: a client that leaves gives back one model only.
UnregisterFirst(c) ==
  \E m \in Model :
    /\ clientModels[c][m] > 0
    /\ Change(c, NoProvider, [clientModels[c] EXCEPT ![m] = 0])
    /\ clientModels' = [clientModels EXCEPT ![c] = NoModels]
    /\ clientProvider' = [clientProvider EXCEPT ![c] = NoProvider]

\* UnregisterClient, and RegisterClient with an empty list.
UnregisterClient(c) ==
  /\ clientModels[c] # NoModels
  /\ Change(c, NoProvider, NoModels)
  /\ clientModels' = [clientModels EXCEPT ![c] = NoModels]
  /\ clientProvider' = [clientProvider EXCEPT ![c] = NoProvider]

Next == \E c \in Client :
  \/ \E p \in ProvidersOf[c], new \in Listing : RegisterClient(c, p, new)
  \/ UnregisterClient(c)

Spec == Init /\ [][Next]_vars

-----------------------------------------------------------------------------
(* Reading a snapshot                                                      *)

\* GetModelProviders: by canonical id, and by model id when that finds nothing.
GetModelProviders(q) ==
  LET canonical == {k \in Key : <<q, k[1], k[2]>> \in canonicalIndex /\ count[k] > 0}
  IN IF canonical # {} THEN {k[1] : k \in canonical}
     ELSE {p \in Provider : q \in Model /\ <<q, p>> \in modelIDIndex /\ count[<<p, q>>] > 0}

\* GetModelIDForProvider: the first mapping of the canonical id, or the id itself.
ModelIDsForProvider(q, p) ==
  LET mapped == {m \in Model : <<q, p, m>> \in canonicalIndex}
  IN IF mapped # {} THEN mapped ELSE {q}

ClientSupportsModel(c, m) == m \in Model /\ clientModels[c][m] > 0

-----------------------------------------------------------------------------
(* Properties                                                              *)

TypeOK ==
  /\ count \in [Key -> Nat]
  /\ info \in [Key -> Id]
  /\ modelIDIndex \subseteq Model \X Provider
  /\ canonicalIndex \subseteq Id \X Provider \X Model
  /\ clientModels \in [Client -> Listing]
  /\ clientProvider \in [Client -> Provider \cup {NoProvider}]

\* The places a model has on the lists of the clients of a provider.
Places(k) ==
  {x \in Client \X (1..Copies) :
     clientProvider[x[1]] = k[1] /\ x[2] <= clientModels[x[1]][k[2]]}

\* The reference counts are exact: a model is deleted with its last client and
\* never before, whatever lists with repetitions the clients register.
CountsExact == \A k \in Key : count[k] = Cardinality(Places(k))

\* Both indices name exactly the registrations there are, the canonical index
\* under the canonical id of each.
IndexExact ==
  /\ modelIDIndex = {<<k[2], k[1]>> : k \in {k \in Key : count[k] > 0}}
  /\ canonicalIndex = {<<info[k], k[1], k[2]>> : k \in {k \in Key : count[k] > 0}}

\* A request goes where it can be served: for each provider that the registry
\* routes an id to, the id is translated to a model that some client of that
\* provider supports.
RouteResolves ==
  \A q \in Id : \A p \in GetModelProviders(q) : \A m \in ModelIDsForProvider(q, p) :
    \E c \in Client : clientProvider[c] = p /\ ClientSupportsModel(c, m)

\* The registry is a catalog of what its clients offer.
Routes == {k \in Key : count[k] > 0}
Offers == [c \in Client |->
             {k \in Key : clientProvider[c] = k[1] /\ clientModels[c][k[2]] > 0}]
Abstract == INSTANCE Catalog WITH Route <- Key, offer <- Offers, routes <- Routes
ImplementsCatalog == Abstract!CatalogSpec

\* The index by model id names the registrations there are, even when clients
\* change their provider.
ModelIndexExact == modelIDIndex = {<<k[2], k[1]>> : k \in Routes}

\* internal/watcher/hash_utilities.go:216-217, "returns true if the auth change
\* requires model re-registration. Material changes: Provider, ...": after it
\* has re-registered, a client's models are registered under its provider.
ProviderFollowsClient ==
  \A c \in Client, m \in Model :
    clientModels[c][m] > 0 => count[<<clientProvider[c], m>>] > 0

\* internal/registry/model_builder.go:215, "Canonical sets the canonical ID for
\* cross-provider routing": a model is found under the canonical id its client
\* gives it.
CanonicalRouting ==
  \A c \in Client, m \in Model :
    clientModels[c][m] > 0 => <<CanonOf[c][m], clientProvider[c], m>> \in canonicalIndex

=============================================================================
