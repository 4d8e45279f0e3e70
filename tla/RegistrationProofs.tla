------------------------- MODULE RegistrationProofs -------------------------
(***************************************************************************)
(* Theorems about ModelRegistry and CredentialUpdates: what is registered  *)
(* of a credential, and how the credential gets there from its file.       *)
(*                                                                         *)
(* ModelRegistry, for any clients, providers, models and lists: what the   *)
(* code counts right only when a client keeps its provider, and indexes    *)
(* right only when the clients of a provider agree on a model's canonical  *)
(* id, is proved from just these assumptions.                              *)
(*                                                                         *)
(* CredentialUpdates, for any credentials, scanners and capacity of the    *)
(* channel: wherever an update waits, the youngest that waits is the last  *)
(* dispatched (InTurn); what the file holds is known to the watcher or a   *)
(* scan is to come, and what the watcher knows is dispatched or about to   *)
(* be (Followed).                                                          *)
(***************************************************************************)
EXTENDS ModelRegistry, CredentialUpdates, FiniteSetTheorems, TLAPS

-----------------------------------------------------------------------------
(* The model registry                                                      *)

\* A credential keeps its type: a client registers under one provider only.
ProviderKept == \A c \in Client : \A p, q \in ProvidersOf[c] : p = q

\* The clients of a provider give a model the same canonical id.
CanonAgreed ==
  \A c, d \in Client : ProvidersOf[c] \cap ProvidersOf[d] # {} => CanonOf[c] = CanonOf[d]

LEMMA KeyPair == \A k \in Key : k = <<k[1], k[2]>> /\ k[1] \in Provider /\ k[2] \in Model
  BY DEF Key

LEMMA Steps ==
  ASSUME TypeOK, NEW c \in Client, NEW p, NEW new \in Listing
  PROVE  /\ Counts(clientProvider[c], p, clientModels[c], new) \in [Key -> Nat]
         /\ CanonOf[c] \in [Model -> Id]
  <1>1. ASSUME NEW k \in Key
        PROVE  /\ count[k] \in Nat /\ clientModels[c][k[2]] \in Nat /\ new[k[2]] \in Nat
    BY KeyPair, RegistryAssumption DEF TypeOK, Listing
  <1>2. ASSUME NEW i \in Nat, NEW j \in Nat
        PROVE  Less(i, j) \in Nat /\ More(i, j) \in Nat
    BY DEF Less, More
  <1>3. Counts(clientProvider[c], p, clientModels[c], new) \in [Key -> Nat]
    <2> DEFINE left(k) == IF k[1] = clientProvider[c] /\ Less(clientModels[c][k[2]], new[k[2]]) > 0
                          THEN IF count[k] > Less(clientModels[c][k[2]], new[k[2]])
                               THEN count[k] - Less(clientModels[c][k[2]], new[k[2]]) ELSE 0
                          ELSE count[k]
               more(k) == IF k[1] = p THEN More(clientModels[c][k[2]], new[k[2]]) ELSE 0
    <2>1. ASSUME NEW k \in Key PROVE left(k) \in Nat /\ more(k) \in Nat
      <3>1. PICK i, j, n \in Nat : i = clientModels[c][k[2]] /\ j = new[k[2]] /\ n = count[k]
        BY <1>1
      <3>2. Less(i, j) \in Nat /\ More(i, j) \in Nat
        BY <1>2
      <3> QED BY <3>1, <3>2
    <2>2. \A k \in Key : left(k) + more(k) \in Nat
      BY <2>1
    <2>3. Counts(clientProvider[c], p, clientModels[c], new)
            = [k \in Key |-> left(k) + more(k)]
      BY DEF Counts
    <2> HIDE DEF left, more
    <2> QED BY <2>2, <2>3
  <1> QED BY <1>3, RegistryAssumption

-----------------------------------------------------------------------------
(* Types, and the index by model id                                        *)

Indexed == TypeOK /\ ModelIndexExact

LEMMA ReindexKeeps ==
  ASSUME Indexed, NEW after \in [Key -> Nat], NEW canon \in [Model -> Id],
         count' = after, Reindex(after, canon)
  PROVE  /\ info' \in [Key -> Id]
         /\ modelIDIndex' \subseteq Model \X Provider
         /\ canonicalIndex' \subseteq Id \X Provider \X Model
         /\ ModelIndexExact'
  <1>1. info' \in [Key -> Id]
    BY KeyPair DEF Reindex, Indexed, TypeOK
  <1>2. modelIDIndex' = {<<k[2], k[1]>> : k \in {k \in Key : after[k] > 0}}
    <2>1. ASSUME NEW k \in Key
          PROVE  <<k[2], k[1]>> \in modelIDIndex' <=> after[k] > 0
      <3>1. <<k[2], k[1]>> \in modelIDIndex <=> count[k] > 0
        <4>1. ASSUME NEW l \in Key, <<k[2], k[1]>> = <<l[2], l[1]>> PROVE l = k
          BY <4>1, KeyPair
        <4> QED BY <4>1 DEF Indexed, ModelIndexExact, Routes
      <3>2. <<k[2], k[1]>> \in {<<l[2], l[1]>> : l \in Removed(after)} <=> k \in Removed(after)
        <4>1. ASSUME NEW l \in Key, <<k[2], k[1]>> = <<l[2], l[1]>> PROVE l = k
          BY <4>1, KeyPair
        <4> QED BY <4>1 DEF Removed
      <3>3. <<k[2], k[1]>> \in {<<l[2], l[1]>> : l \in Created(after)} <=> k \in Created(after)
        <4>1. ASSUME NEW l \in Key, <<k[2], k[1]>> = <<l[2], l[1]>> PROVE l = k
          BY <4>1, KeyPair
        <4> QED BY <4>1 DEF Created
      <3>4. count[k] \in Nat /\ after[k] \in Nat
        BY DEF Indexed, TypeOK
      <3> QED
        BY <3>1, <3>2, <3>3, <3>4 DEF Reindex, Removed, Created
    <2>2. ASSUME NEW x \in modelIDIndex' PROVE \E k \in Key : x = <<k[2], k[1]>>
      BY <2>2 DEF Reindex, Indexed, ModelIndexExact, Routes, Created
    <2> QED BY <2>1, <2>2
  <1>3. modelIDIndex' \subseteq Model \X Provider
    BY <1>2, KeyPair
  <1>4. canonicalIndex' \subseteq Id \X Provider \X Model
    <2>1. ASSUME NEW k \in Key PROVE <<canon[k[2]], k[1], k[2]>> \in Id \X Provider \X Model
      BY KeyPair
    <2> QED BY <2>1 DEF Reindex, Indexed, TypeOK, Created
  <1>5. ModelIndexExact'
    BY <1>2 DEF ModelIndexExact, Routes
  <1> QED BY <1>1, <1>3, <1>4, <1>5

LEMMA ChangeKeeps ==
  ASSUME Indexed, NEW c \in Client, NEW p \in Provider \cup {NoProvider},
         NEW new \in Listing, Change(c, p, new),
         clientModels' = [clientModels EXCEPT ![c] = new],
         clientProvider' = [clientProvider EXCEPT ![c] = p]
  PROVE  Indexed'
  <1> DEFINE after == Counts(clientProvider[c], p, clientModels[c], new)
  <1>1. after \in [Key -> Nat] /\ CanonOf[c] \in [Model -> Id]
    BY Steps DEF Indexed
  <1>2. count' = after /\ Reindex(after, CanonOf[c])
    BY DEF Change
  <1>3. /\ info' \in [Key -> Id] /\ modelIDIndex' \subseteq Model \X Provider
        /\ canonicalIndex' \subseteq Id \X Provider \X Model /\ ModelIndexExact'
    BY <1>1, <1>2, ReindexKeeps
  <1>4. clientModels' \in [Client -> Listing]
        /\ clientProvider' \in [Client -> Provider \cup {NoProvider}]
    BY DEF Indexed, TypeOK
  <1> QED BY <1>1, <1>2, <1>3, <1>4 DEF Indexed, TypeOK

LEMMA NoModelsListed == NoModels \in Listing
  BY RegistryAssumption DEF NoModels, Listing

\* Both actions are a change of one client's list and provider.
LEMMA StepIsChange ==
  ASSUME Next
  PROVE  \E c \in Client, new \in Listing, p \in Provider \cup {NoProvider} :
           /\ Change(c, p, new)
           /\ clientModels' = [clientModels EXCEPT ![c] = new]
           /\ clientProvider' = [clientProvider EXCEPT ![c] = p]
           /\ p = NoProvider => new = NoModels /\ clientModels[c] # NoModels
           /\ p # NoProvider => new # NoModels /\ p \in ProvidersOf[c]
  <1>1. PICK c \in Client : (\E p \in ProvidersOf[c], new \in Listing : RegisterClient(c, p, new))
                            \/ UnregisterClient(c)
    BY DEF Next
  <1>2. CASE \E p \in ProvidersOf[c], new \in Listing : RegisterClient(c, p, new)
    <2>1. PICK p \in ProvidersOf[c], new \in Listing : RegisterClient(c, p, new)
      BY <1>2
    <2>2. p \in Provider /\ p # NoProvider
      BY RegistryAssumption
    <2> QED BY <2>1, <2>2 DEF RegisterClient
  <1>3. CASE UnregisterClient(c)
    BY <1>3, NoModelsListed DEF UnregisterClient
  <1> QED BY <1>1, <1>2, <1>3

LEMMA IndexedAlways == Spec => []Indexed
  <1>1. Init => Indexed
    <2> SUFFICES ASSUME Init PROVE Indexed
      OBVIOUS
    <2>1. clientModels \in [Client -> Listing]
      BY NoModelsListed DEF Init
    <2>2. \A k \in Key : count[k] = 0
      BY DEF Init
    <2>3. ModelIndexExact
      BY <2>2 DEF Init, ModelIndexExact, Routes
    <2> QED BY <2>1, <2>3 DEF Init, Indexed, TypeOK
  <1>2. Indexed /\ [Next]_vars => Indexed'
    <2>1. ASSUME Indexed, UNCHANGED vars PROVE Indexed'
      BY <2>1 DEF Indexed, TypeOK, ModelIndexExact, Routes, vars
    <2>2. ASSUME Indexed, Next PROVE Indexed'
      BY <2>2, StepIsChange, ChangeKeeps
    <2> QED BY <2>1, <2>2
  <1> QED BY <1>1, <1>2, PTL DEF Spec

\* Every variable has its type.
THEOREM RegistryTypeCorrect == Spec => []TypeOK
  BY IndexedAlways, PTL DEF Indexed

\* The index by model id names exactly the registrations there are, even when
\* clients change their provider and disagree about canonical ids.
THEOREM ModelIndexFollows == Spec => []ModelIndexExact
  BY IndexedAlways, PTL DEF Indexed

-----------------------------------------------------------------------------
(* The counts                                                              *)

\* How many places a client's list gives a registration.
Own(provs, lists, c, k) == IF provs[c] = k[1] THEN lists[c][k[2]] ELSE 0

PlacesOf(provs, lists, k) ==
  {x \in Client \X (1..Copies) : provs[x[1]] = k[1] /\ x[2] <= lists[x[1]][k[2]]}

\* The places of all other clients.
Others(provs, lists, c, k) == {x \in PlacesOf(provs, lists, k) : x[1] # c}

LEMMA FinitelyManyPlaces == IsFiniteSet(Client \X (1..Copies))
  <1>1. IsFiniteSet(1..Copies)
    BY FS_Interval, RegistryAssumption
  <1>2. IsFiniteSet(Client)
    BY RegistryAssumption
  <1> QED BY <1>1, <1>2, FS_Product

LEMMA PlacesSplit ==
  ASSUME NEW lists \in [Client -> Listing], NEW provs, NEW c \in Client, NEW k \in Key
  PROVE  /\ Own(provs, lists, c, k) \in Nat
         /\ Cardinality(Others(provs, lists, c, k)) \in Nat
         /\ Cardinality(PlacesOf(provs, lists, k))
              = Cardinality(Others(provs, lists, c, k)) + Own(provs, lists, c, k)
         /\ IsFiniteSet(PlacesOf(provs, lists, k))
  <1> DEFINE n == Own(provs, lists, c, k)
             mine == {c} \X (1..n)
             others == Others(provs, lists, c, k)
             all == PlacesOf(provs, lists, k)
  <1>1. n \in 0..Copies
    BY KeyPair, RegistryAssumption DEF Own, Listing
  <1>2. IsFiniteSet(Client \X (1..Copies))
    BY FinitelyManyPlaces
  <1>3. IsFiniteSet(all) /\ IsFiniteSet(others) /\ Cardinality(others) \in Nat
    <2>1. all \in SUBSET (Client \X (1..Copies)) /\ others \in SUBSET all
      BY DEF PlacesOf, Others
    <2> HIDE DEF all, others
    <2>2. IsFiniteSet(all)
      BY <1>2, <2>1, FS_Subset
    <2>3. IsFiniteSet(others)
      BY <2>1, <2>2, FS_Subset
    <2> QED BY <2>2, <2>3, FS_CardinalityType
  <1>4. IsFiniteSet(mine) /\ Cardinality(mine) = n
    <2>1. IsFiniteSet({c}) /\ Cardinality({c}) = 1
      BY FS_Singleton
    <2>2. IsFiniteSet(1..n) /\ Cardinality(1..n) = n
      BY <1>1, FS_Interval
    <2>3. Cardinality({c} \X (1..n)) = 1 * n /\ IsFiniteSet({c} \X (1..n))
      <3> DEFINE one == {c}
                 upto == 1..n
      <3>1. /\ IsFiniteSet(one) /\ Cardinality(one) = 1
            /\ IsFiniteSet(upto) /\ Cardinality(upto) = n
        BY <2>1, <2>2
      <3> HIDE DEF one, upto, n
      <3>2. /\ IsFiniteSet(one \X upto)
            /\ Cardinality(one \X upto) = Cardinality(one) * Cardinality(upto)
        BY <3>1, FS_Product
      <3> QED BY <3>1, <3>2 DEF one, upto
    <2> QED BY <1>1, <2>3
  <1>5. all = others \cup mine
    <2>1. ASSUME NEW x \in all, x[1] = c PROVE x \in mine
      <3>1. x = <<x[1], x[2]>> /\ x[2] \in 1..Copies /\ provs[c] = k[1]
            /\ x[2] <= lists[c][k[2]]
        BY <2>1 DEF PlacesOf
      <3>2. x[2] \in 1..n
        BY <1>1, <3>1 DEF Own
      <3> QED BY <2>1, <3>1, <3>2
    <2>2. ASSUME NEW x \in mine PROVE x \in all
      <3>1. x = <<c, x[2]>> /\ x[1] = c /\ x[2] \in 1..n
        OBVIOUS
      <3>2. n # 0
        BY <3>1
      <3>3. provs[c] = k[1] /\ n = lists[c][k[2]]
        BY <3>2 DEF Own
      <3>4. x[2] \in 1..Copies /\ x[2] <= lists[c][k[2]]
        BY <1>1, <3>1, <3>3, RegistryAssumption
      <3> QED BY <3>1, <3>3, <3>4 DEF PlacesOf
    <2> QED BY <2>1, <2>2 DEF Others
  <1>6. others \cap mine = {}
    BY DEF Others
  <1> HIDE DEF mine, others, all, n
  <1>7. Cardinality(all) = Cardinality(others) + Cardinality(mine) - Cardinality({})
    BY <1>3, <1>4, <1>5, <1>6, FS_Union
  <1> QED
    BY <1>1, <1>3, <1>4, <1>7, FS_EmptySet DEF mine, others, all, n

\* Whatever a step changes of one client's list, the others keep their places.
LEMMA OthersKept ==
  ASSUME TypeOK, NEW c \in Client, NEW k \in Key, NEW p, NEW new
  PROVE  Others([clientProvider EXCEPT ![c] = p], [clientModels EXCEPT ![c] = new], c, k)
           = Others(clientProvider, clientModels, c, k)
  BY DEF TypeOK, Others, PlacesOf

\* A client that is registered nowhere has an empty list.
Registered ==
  \A c \in Client :
    /\ clientProvider[c] = NoProvider <=> clientModels[c] = NoModels
    /\ clientProvider[c] # NoProvider => clientProvider[c] \in ProvidersOf[c]

Counted == Indexed /\ Registered /\ CountsExact

LEMMA CountsKept ==
  ASSUME Counted, ProviderKept, NEW c \in Client, NEW new \in Listing,
         NEW p \in Provider \cup {NoProvider}, Change(c, p, new),
         clientModels' = [clientModels EXCEPT ![c] = new],
         clientProvider' = [clientProvider EXCEPT ![c] = p],
         p = NoProvider => new = NoModels /\ clientModels[c] # NoModels,
         p # NoProvider => new # NoModels /\ p \in ProvidersOf[c]
  PROVE  CountsExact' /\ Registered'
  <1> DEFINE oldP == clientProvider[c]
             old == clientModels[c]
  <1>t. TypeOK
    BY DEF Counted, Indexed
  <1>1. oldP = p \/ oldP = NoProvider \/ p = NoProvider
    BY DEF ProviderKept, Counted, Registered
  <1>2. /\ oldP = NoProvider => old = NoModels
        /\ clientModels' \in [Client -> Listing]
    BY <1>t DEF Counted, Registered, TypeOK
  <1>3. ASSUME NEW k \in Key
        PROVE  count'[k] = Cardinality(PlacesOf(clientProvider', clientModels', k))
    <2> DEFINE rest == Cardinality(Others(clientProvider, clientModels, c, k))
               was == Own(clientProvider, clientModels, c, k)
               is == Own(clientProvider', clientModels', c, k)
               i == old[k[2]]
               j == new[k[2]]
    <2>1. /\ rest \in Nat /\ was \in Nat
          /\ count[k] = rest + was
      <3>1. count[k] = Cardinality(PlacesOf(clientProvider, clientModels, k))
        BY DEF Counted, CountsExact, Places, PlacesOf
      <3>2. /\ Own(clientProvider, clientModels, c, k) \in Nat
            /\ Cardinality(Others(clientProvider, clientModels, c, k)) \in Nat
            /\ Cardinality(PlacesOf(clientProvider, clientModels, k))
                 = Cardinality(Others(clientProvider, clientModels, c, k))
                   + Own(clientProvider, clientModels, c, k)
        <4> DEFINE lists == clientModels
                   provs == clientProvider
        <4>1. lists \in [Client -> Listing]
          BY <1>t DEF TypeOK
        <4> HIDE DEF lists, provs
        <4>2. /\ Own(provs, lists, c, k) \in Nat
              /\ Cardinality(Others(provs, lists, c, k)) \in Nat
              /\ Cardinality(PlacesOf(provs, lists, k))
                   = Cardinality(Others(provs, lists, c, k)) + Own(provs, lists, c, k)
          BY <4>1, PlacesSplit
        <4> QED BY <4>2 DEF lists, provs
      <3> QED
        BY <3>1, <3>2
    <2>2. /\ is \in Nat
          /\ Cardinality(PlacesOf(clientProvider', clientModels', k)) = rest + is
      <3>1. Others(clientProvider', clientModels', c, k)
              = Others(clientProvider, clientModels, c, k)
        BY <1>t, OthersKept
      <3> HIDE DEF rest, is
      <3>2. /\ Own(clientProvider', clientModels', c, k) \in Nat
            /\ Cardinality(PlacesOf(clientProvider', clientModels', k))
                 = Cardinality(Others(clientProvider', clientModels', c, k))
                   + Own(clientProvider', clientModels', c, k)
        <4> DEFINE lists == clientModels'
                   provs == clientProvider'
        <4>1. lists \in [Client -> Listing]
          BY <1>2
        <4> HIDE DEF lists, provs
        <4>2. /\ Own(provs, lists, c, k) \in Nat
              /\ Cardinality(Others(provs, lists, c, k)) \in Nat
              /\ Cardinality(PlacesOf(provs, lists, k))
                   = Cardinality(Others(provs, lists, c, k)) + Own(provs, lists, c, k)
          BY <4>1, PlacesSplit
        <4> QED BY <4>2 DEF lists, provs
      <3> QED BY <3>1, <3>2 DEF rest, is
    <2>3. /\ was = IF oldP = k[1] THEN i ELSE 0
          /\ is = IF p = k[1] THEN j ELSE 0
          /\ i \in Nat /\ j \in Nat
          /\ k[1] # NoProvider
          /\ oldP = NoProvider => i = 0
          /\ p = NoProvider => j = 0
      BY <1>t, <1>2, KeyPair, RegistryAssumption DEF Own, TypeOK, Listing, NoModels
    <2>4. count'[k] =
            (IF k[1] = oldP /\ Less(i, j) > 0
             THEN IF count[k] > Less(i, j) THEN count[k] - Less(i, j) ELSE 0
             ELSE count[k])
            + (IF k[1] = p THEN More(i, j) ELSE 0)
      BY DEF Change, Counts
    <2> HIDE DEF rest, was, is, i, j, oldP
    <2>5. count'[k] = rest + is
      <3>1. CASE k[1] = oldP /\ k[1] = p
        BY <2>1, <2>2, <2>3, <2>4, <3>1 DEF Less, More
      <3>2. CASE k[1] = oldP /\ k[1] # p
        <4>1. p = NoProvider
          BY <1>1, <2>3, <3>2
        <4> QED
          BY <2>1, <2>2, <2>3, <2>4, <3>2, <4>1 DEF Less, More
      <3>3. CASE k[1] # oldP /\ k[1] = p
        <4>1. oldP = NoProvider
          BY <1>1, <2>3, <3>3
        <4> QED
          BY <2>1, <2>2, <2>3, <2>4, <3>3, <4>1 DEF Less, More
      <3>4. CASE k[1] # oldP /\ k[1] # p
        BY <2>1, <2>2, <2>3, <2>4, <3>4
      <3> QED BY <3>1, <3>2, <3>3, <3>4
    <2> QED BY <2>2, <2>5
  <1>4. CountsExact'
    BY <1>3 DEF CountsExact, Places, PlacesOf
  <1>5. Registered'
    BY <1>t DEF Counted, Registered, TypeOK
  <1> QED BY <1>4, <1>5

LEMMA CountedAlways == ASSUME ProviderKept PROVE Spec => []Counted
  <1>1. Init => CountsExact /\ Registered
    <2> SUFFICES ASSUME Init PROVE CountsExact /\ Registered
      OBVIOUS
    <2>1. ASSUME NEW k \in Key PROVE Places(k) = {}
      <3>1. \A x \in Client \X (1..Copies) : clientProvider[x[1]] = NoProvider
        BY DEF Init
      <3> QED
        BY <3>1, KeyPair, RegistryAssumption DEF Places
    <2>2. CountsExact
      BY <2>1, FS_EmptySet DEF CountsExact, Init
    <2> QED BY <2>2 DEF Init, Registered
  <1>2. Indexed /\ CountsExact /\ Registered /\ [Next]_vars => (CountsExact /\ Registered)'
    <2>1. ASSUME Counted, UNCHANGED vars PROVE (CountsExact /\ Registered)'
      BY <2>1 DEF Counted, CountsExact, Places, Registered, vars
    <2>2. ASSUME Counted, Next PROVE (CountsExact /\ Registered)'
      BY <2>2, StepIsChange, CountsKept
    <2> QED BY <2>1, <2>2 DEF Counted
  <1> QED BY <1>1, <1>2, IndexedAlways, PTL DEF Spec, Counted

\* A model is deleted with the last place on a list that names it, and never
\* before, if every client keeps its provider.
THEOREM CountsFollow == ASSUME ProviderKept PROVE Spec => []CountsExact
  BY CountedAlways, PTL DEF Counted

-----------------------------------------------------------------------------
(* The catalog                                                             *)

\* A registration is counted as long as a client lists it.
LEMMA CountedIsOffered ==
  ASSUME Counted, NEW k \in Key
  PROVE  count[k] > 0 <=> \E c \in Client : clientProvider[c] = k[1]
                                            /\ clientModels[c][k[2]] > 0
  <1>1. /\ count[k] \in Nat /\ count[k] = Cardinality(Places(k))
        /\ \A c \in Client : clientModels[c][k[2]] \in 0..Copies
    BY KeyPair DEF Counted, Indexed, TypeOK, CountsExact, Listing
  <1>2. IsFiniteSet(Places(k))
    <2>1. Places(k) \in SUBSET (Client \X (1..Copies))
      BY DEF Places
    <2> QED BY <2>1, FinitelyManyPlaces, FS_Subset
  <1>3. count[k] > 0 <=> Places(k) # {}
    BY <1>1, <1>2, FS_EmptySet
  <1>4. ASSUME NEW x \in Places(k)
        PROVE  x[1] \in Client /\ clientProvider[x[1]] = k[1] /\ clientModels[x[1]][k[2]] > 0
    BY <1>1, <1>4, RegistryAssumption DEF Places
  <1>5. ASSUME NEW c \in Client, clientProvider[c] = k[1], clientModels[c][k[2]] > 0
        PROVE  <<c, 1>> \in Places(k)
    BY <1>1, <1>5, RegistryAssumption DEF Places
  <1> QED BY <1>3, <1>4, <1>5

RoutesAreOffers == Routes = UNION {Offers[d] : d \in Client}

LEMMA RoutesOffered == Counted => RoutesAreOffers
  <1> SUFFICES ASSUME Counted PROVE RoutesAreOffers
    OBVIOUS
  <1>1. ASSUME NEW k \in Key
        PROVE  k \in Routes <=> \E d \in Client : k \in Offers[d]
    BY <1>1, CountedIsOffered DEF Routes, Offers
  <1>2. Routes \subseteq Key /\ \A d \in Client : Offers[d] \subseteq Key
    BY DEF Routes, Offers
  <1> QED BY <1>1, <1>2 DEF RoutesAreOffers

\* What requests can be routed to is what the registered clients offer: the
\* registry implements the catalog.
THEOREM RegistryIsCatalog == ASSUME ProviderKept PROVE Spec => ImplementsCatalog
  <1>1. Counted' => RoutesAreOffers'
    BY RoutesOffered, PTL
  <1>2. Init => Abstract!CatalogInit
    <2> SUFFICES ASSUME Init PROVE Abstract!CatalogInit
      OBVIOUS
    <2>1. Routes = {}
      BY DEF Init, Routes
    <2>2. \A c \in Client, k \in Key : ~(clientModels[c][k[2]] > 0)
      BY KeyPair DEF Init, NoModels
    <2>3. Offers = [c \in Client |-> {}]
      BY <2>2 DEF Offers
    <2> QED BY <2>1, <2>3 DEF Abstract!CatalogInit
  <1>3. Counted /\ Counted' /\ [Next]_vars
          => [\E c \in Client, R \in SUBSET Key : Abstract!Offer(c, R)]_Abstract!catalogVars
    <2> SUFFICES ASSUME Counted, Counted', [Next]_vars
                 PROVE  \/ \E c \in Client, R \in SUBSET Key : Abstract!Offer(c, R)
                        \/ UNCHANGED Abstract!catalogVars
      OBVIOUS
    <2>1. CASE UNCHANGED vars
      BY <2>1 DEF vars, Abstract!catalogVars, Offers, Routes
    <2>2. CASE Next
      <3>1. PICK c \in Client, new \in Listing, p \in Provider \cup {NoProvider} :
              /\ clientModels' = [clientModels EXCEPT ![c] = new]
              /\ clientProvider' = [clientProvider EXCEPT ![c] = p]
        BY <2>2, StepIsChange
      <3>2. Offers' = [Offers EXCEPT ![c] = Offers'[c]]
        BY <3>1 DEF Offers, Counted, Indexed, TypeOK
      <3>3. Offers'[c] \in SUBSET Key
        BY DEF Offers
      <3>4. Routes' = UNION {Offers'[d] : d \in Client}
        BY <1>1 DEF RoutesAreOffers
      <3> QED
        BY <3>2, <3>3, <3>4 DEF Abstract!Offer
    <2> QED BY <2>1, <2>2
  <1> QED
    BY <1>2, <1>3, CountedAlways, PTL
       DEF Spec, ImplementsCatalog, Abstract!CatalogSpec

-----------------------------------------------------------------------------
(* The index by canonical id                                               *)

\* The canonical id in the Info of a registration is the one that the clients
\* of its provider give the model.
InfoAgrees ==
  \A k \in Key, c \in Client :
    count[k] > 0 /\ k[1] \in ProvidersOf[c] => info[k] = CanonOf[c][k[2]]

Canonical == Indexed /\ InfoAgrees /\ IndexExact

\* Only registrations under the client's new provider become more.
LEMMA GrownUnder ==
  ASSUME TypeOK, NEW c \in Client, NEW p, NEW new \in Listing,
         NEW k \in Grown(Counts(clientProvider[c], p, clientModels[c], new))
  PROVE  k[1] = p
  <1> SUFFICES ASSUME k[1] # p PROVE FALSE
    OBVIOUS
  <1> DEFINE i == clientModels[c][k[2]]
             j == new[k[2]]
             n == count[k]
  <1>1. k \in Key /\ i \in Nat /\ j \in Nat /\ n \in Nat
    BY KeyPair, RegistryAssumption DEF Grown, TypeOK, Listing
  <1>2. Less(i, j) \in Nat
    BY <1>1 DEF Less
  <1>3. (IF k[1] = clientProvider[c] /\ Less(i, j) > 0
         THEN IF n > Less(i, j) THEN n - Less(i, j) ELSE 0
         ELSE n) + 0 > n
    BY <1>1 DEF Grown, Counts
  <1> QED BY <1>1, <1>2, <1>3

LEMMA CanonicalKept ==
  ASSUME Canonical, CanonAgreed, NEW c \in Client, NEW new \in Listing,
         NEW p \in Provider \cup {NoProvider}, Change(c, p, new),
         p # NoProvider => p \in ProvidersOf[c]
  PROVE  InfoAgrees' /\ canonicalIndex' = {<<info'[k], k[1], k[2]>> :
                                             k \in {k \in Key : count'[k] > 0}}
  <1> DEFINE after == Counts(clientProvider[c], p, clientModels[c], new)
             canon == CanonOf[c]
  <1>1. TypeOK /\ after \in [Key -> Nat] /\ canon \in [Model -> Id]
    BY Steps DEF Canonical, Indexed
  <1>2. count' = after /\ Reindex(after, canon)
    BY DEF Change
  <1>3. ASSUME NEW k \in Grown(after) PROVE k[1] \in ProvidersOf[c]
    <2>1. k \in Key /\ k[1] = p
      BY <1>1, GrownUnder DEF Grown
    <2> QED BY <2>1, KeyPair, RegistryAssumption
  <1> HIDE DEF after
  <1>4. ASSUME NEW k \in Key
        PROVE  /\ k \in Grown(after) => info'[k] = canon[k[2]]
               /\ k \notin Grown(after) => info'[k] = info[k]
               /\ count[k] \in Nat /\ after[k] \in Nat /\ count'[k] = after[k]
    BY <1>1, <1>2 DEF Reindex, TypeOK
  <1>5. InfoAgrees'
    <2> SUFFICES ASSUME NEW k \in Key, NEW d \in Client,
                        count'[k] > 0, k[1] \in ProvidersOf[d]
                 PROVE  info'[k] = CanonOf[d][k[2]]
      BY DEF InfoAgrees
    <2>1. CASE k \in Grown(after)
      BY <1>3, <1>4, <2>1 DEF CanonAgreed
    <2>2. CASE k \notin Grown(after)
      BY <1>4, <2>2 DEF Grown, Canonical, InfoAgrees
    <2> QED BY <2>1, <2>2
  \* A registration that stays keeps the id it is indexed under.
  <1>6. ASSUME NEW k \in Key, count[k] > 0 PROVE info'[k] = info[k]
    BY <1>3, <1>4, <1>6 DEF Canonical, InfoAgrees
  <1>7. ASSUME NEW k \in Key, count[k] = 0, after[k] > 0 PROVE info'[k] = canon[k[2]]
    BY <1>4, <1>7 DEF Grown
  <1>8. ASSUME NEW k \in Key, count'[k] > 0
        PROVE  <<info'[k], k[1], k[2]>> \in canonicalIndex'
    <2>1. CASE count[k] > 0
      <3>1. <<info[k], k[1], k[2]>> \in canonicalIndex
        BY <2>1 DEF Canonical, IndexExact
      <3>2. ASSUME NEW l \in Removed(after), <<info[k], k[1], k[2]>> = <<info[l], l[1], l[2]>>
            PROVE  FALSE
        <4>1. l \in Key /\ l = k
          BY <3>2, KeyPair DEF Removed
        <4> QED BY <1>4, <1>8, <4>1, <3>2 DEF Removed
      <3> QED BY <1>2, <1>6, <2>1, <3>1, <3>2 DEF Reindex
    <2>2. CASE count[k] = 0
      <3>1. k \in Created(after) /\ info'[k] = canon[k[2]]
        BY <1>4, <1>7, <1>8, <2>2 DEF Created
      <3> QED BY <1>2, <3>1 DEF Reindex
    <2> QED BY <1>4, <2>1, <2>2
  <1>9. ASSUME NEW x \in canonicalIndex'
        PROVE  \E k \in Key : count'[k] > 0 /\ x = <<info'[k], k[1], k[2]>>
    <2>1. CASE x \in canonicalIndex
                 /\ x \notin {<<info[k], k[1], k[2]>> : k \in Removed(after)}
      <3>1. PICK k \in Key : count[k] > 0 /\ x = <<info[k], k[1], k[2]>>
        BY <2>1 DEF Canonical, IndexExact
      <3>2. after[k] # 0
        BY <2>1, <3>1 DEF Removed
      <3> QED BY <1>4, <1>6, <3>1, <3>2
    <2>2. CASE x \in {<<canon[k[2]], k[1], k[2]>> : k \in Created(after)}
      <3>1. PICK k \in Created(after) : x = <<canon[k[2]], k[1], k[2]>>
        BY <2>2
      <3>2. k \in Key /\ count[k] = 0 /\ after[k] > 0
        BY <3>1 DEF Created
      <3> QED BY <1>4, <1>7, <3>1, <3>2
    <2> QED BY <1>2, <1>9, <2>1, <2>2 DEF Reindex
  <1> QED BY <1>5, <1>8, <1>9

LEMMA CanonicalAlways == ASSUME CanonAgreed PROVE Spec => []Canonical
  <1>1. Init => InfoAgrees /\ IndexExact
    BY DEF Init, InfoAgrees, IndexExact
  <1>2. Canonical /\ Indexed' /\ [Next]_vars => (InfoAgrees /\ IndexExact)'
    <2>1. ASSUME Canonical, UNCHANGED vars PROVE (InfoAgrees /\ IndexExact)'
      BY <2>1 DEF Canonical, InfoAgrees, IndexExact, vars
    <2>2. ASSUME Canonical, Indexed', Next PROVE (InfoAgrees /\ IndexExact)'
      <3>1. PICK c \in Client, new \in Listing, p \in Provider \cup {NoProvider} :
              Change(c, p, new) /\ (p # NoProvider => p \in ProvidersOf[c])
        BY <2>2, StepIsChange
      <3>2. /\ InfoAgrees'
            /\ canonicalIndex' = {<<info'[k], k[1], k[2]>> :
                                    k \in {k \in Key : count'[k] > 0}}
        BY <2>2, <3>1, CanonicalKept
      <3>3. modelIDIndex' = {<<k[2], k[1]>> : k \in {k \in Key : count'[k] > 0}}
        BY <2>2 DEF Indexed, ModelIndexExact, Routes
      <3> QED BY <3>2, <3>3 DEF IndexExact
    <2> QED BY <2>1, <2>2
  <1> QED BY <1>1, <1>2, IndexedAlways, PTL DEF Spec, Canonical

\* Both indices name exactly the registrations there are, if the clients of a
\* provider agree about canonical ids.
THEOREM IndexFollows == ASSUME CanonAgreed PROVE Spec => []IndexExact
  BY CanonicalAlways, PTL DEF Canonical

\* Wherever the registry sends a request there is a client that supports the
\* model the requested id is translated to.
THEOREM RoutesResolve == ASSUME ProviderKept, CanonAgreed PROVE Spec => []RouteResolves
  <1>1. Counted /\ Canonical => RouteResolves
    <2> SUFFICES ASSUME Counted, Canonical,
                        NEW q \in Id, NEW p \in GetModelProviders(q),
                        NEW m \in ModelIDsForProvider(q, p)
                 PROVE  \E c \in Client : clientProvider[c] = p /\ ClientSupportsModel(c, m)
      BY DEF RouteResolves
    <2>1. ASSUME NEW k \in Key, count[k] > 0, k[1] = p, k[2] = m
          PROVE  \E c \in Client : clientProvider[c] = p /\ ClientSupportsModel(c, m)
      BY <2>1, KeyPair, CountedIsOffered DEF ClientSupportsModel
    <2>2. CASE m \in Model /\ <<q, p, m>> \in canonicalIndex
      <3>1. PICK k \in Key : count[k] > 0 /\ <<q, p, m>> = <<info[k], k[1], k[2]>>
        BY <2>2 DEF Canonical, IndexExact
      <3> QED BY <2>1, <3>1
    <2>3. CASE m = q /\ {n \in Model : <<q, p, n>> \in canonicalIndex} = {}
      <3>1. {k \in Key : <<q, k[1], k[2]>> \in canonicalIndex /\ count[k] > 0} = {}
        <4>1. ASSUME NEW k \in Key, <<q, k[1], k[2]>> \in canonicalIndex, count[k] > 0, k[1] = p
              PROVE  FALSE
          BY <2>3, <4>1, KeyPair
        <4> QED BY <4>1 DEF GetModelProviders
      <3>2. /\ p \in Provider /\ q \in Model /\ count[<<p, q>>] > 0
        BY <3>1 DEF GetModelProviders
      <3>3. <<p, q>> \in Key
        BY <3>2 DEF Key
      <3> QED BY <2>1, <2>3, <3>2, <3>3
    <2> QED BY <2>2, <2>3 DEF ModelIDsForProvider
  <1> QED BY <1>1, CountedAlways, CanonicalAlways, PTL

-----------------------------------------------------------------------------
(* The way of an update                                                    *)

Scans == [at : Place, seen : [Credential -> Update]]

\* What has been read of the files are contents.
SeenTyped == \A s \in Scanner : scan[s].at \in {"hash", "prepare"} => scan[s].seen \in [Credential -> Content]

UpdatesTyped == UpdatesTypeOK /\ SeenTyped

\* The hashes are still to come.
Starting == \E s \in Scanner : scan[s].at \in {"start", "hash"}

\* What has been seen of a file are contents it has had, and what has been
\* forgotten is not in currentAuths.
Known ==
  \A c \in Credential :
    /\ file[c] \in had[c]
    /\ Starting \/ lastAuthHashes[c] \in had[c]
    /\ \A s \in Scanner : scan[s].at = "hash" => scan[s].seen[c] \in had[c]
    /\ c \in forgotten => currentAuths[c] = Absent

\* The event loop does not scan while it handles an event, and does not start.
LoopFree ==
  /\ scan[EventLoop].at \notin {"start", "hash"}
  /\ handling # NoFile => scan[EventLoop].at = "idle"

\* One scan at a time is past its snapshot.
Scanning(s) == scan[s].at \in {"prepare", "dispatch"}
OneScan == \A s, t \in Scanner : Scanning(s) /\ Scanning(t) => s = t

\* A scan is about to read the directory, or an event will make one.
ScanToCome(c) ==
  \/ \E s \in Scanner : scan[s].at \in {"start", "hash", "snapshot"}
  \/ c \in events /\ lastAuthHashes[c] # file[c]
  \/ handling = c /\ file[c] \notin {Absent, lastAuthHashes[c]}

\* The watcher knows, or is about to know, what the file holds.
Read ==
  \A c \in Credential :
    ScanToCome(c) \/ c \in unnoticed
      \/ IF \E s \in Scanner : scan[s].at = "prepare"
         THEN \A s \in Scanner : scan[s].at = "prepare" => scan[s].seen[c] = file[c]
         ELSE currentAuths[c] = file[c]

\* It has dispatched what it knows, or is about to.
Reported ==
  \A c \in Credential \ forgotten :
    IF \E s \in Scanner : scan[s].at = "dispatch"
    THEN \A s \in Scanner : scan[s].at = "dispatch" => Newer(latest, scan[s].seen)[c] = currentAuths[c]
    ELSE latest[c] = currentAuths[c]

Followed == LoopFree /\ Known /\ (~overlapped => OneScan /\ Read /\ Reported)

-----------------------------------------------------------------------------
(* Types                                                                   *)

LEMMA ContentKnown ==
  /\ NoUpdate \notin Content /\ Content \subseteq Update /\ Absent \in Content
  /\ \A x \in Update : x # NoUpdate => x \in Content
  BY UpdatesAssumption DEF Content, Update, NoUpdate, Absent

LEMMA ScanMoves ==
  ASSUME UpdatesTyped, NEW s \in Scanner, NEW r \in Scans,
         r.at \in {"hash", "prepare"} => r.seen \in [Credential -> Content],
         scan' = [scan EXCEPT ![s] = r]
  PROVE  /\ scan' \in [Scanner -> Scans] /\ SeenTyped'
         /\ scan'[s] = r /\ \A t \in Scanner \ {s} : scan'[t] = scan[t]
  BY DEF UpdatesTyped, UpdatesTypeOK, SeenTyped, Scans

LEMMA ScanBegins ==
  ASSUME UpdatesTyped, NEW s \in Scanner, scan' = [scan EXCEPT ![s].at = "snapshot"]
  PROVE  \E r \in Scans : r.at = "snapshot" /\ scan' = [scan EXCEPT ![s] = r]
  <1>1. scan[s] \in Scans
    BY DEF UpdatesTyped, UpdatesTypeOK, Scans
  <1> DEFINE r == [scan[s] EXCEPT !.at = "snapshot"]
  <1>2. r \in Scans /\ r.at = "snapshot"
    BY <1>1 DEF Scans, Place
  <1>3. scan' = [scan EXCEPT ![s] = r]
    OBVIOUS
  <1> QED
    BY <1>2, <1>3

LEMMA IdleTyped == Idle \in Scans /\ Idle.at = "idle"
  BY DEF Idle, Nothing, Update, Scans, Place

LEMMA DifferencesTyped ==
  ASSUME UpdatesTyped, NEW seen \in [Credential -> Content]
  PROVE  Differences(seen) \in [Credential -> Update]
  BY ContentKnown DEF Differences, Update

LEMMA NewerTyped ==
  ASSUME NEW S, Content \subseteq S, NEW older \in [Credential -> S], NEW newer \in [Credential -> Update]
  PROVE  Newer(older, newer) \in [Credential -> S]
  BY ContentKnown DEF Newer

LEMMA UpdatesInitTyped == UpdatesInit => UpdatesTyped
  <1> SUFFICES ASSUME UpdatesInit PROVE UpdatesTyped
    OBVIOUS
  <1>1. PICK s \in Scanner \ {EventLoop} :
          scan = [t \in Scanner |-> IF t = s THEN [Idle EXCEPT !.at = "start"] ELSE Idle]
    BY DEF UpdatesInit
  <1>2. [Idle EXCEPT !.at = "start"] = [at |-> "start", seen |-> Nothing]
    BY DEF Idle
  <1>3. scan \in [Scanner -> Scans]
    BY <1>1, <1>2, IdleTyped DEF Idle, Nothing, Update, Scans, Place
  <1>4. \A t \in Scanner : scan[t].at \notin {"hash", "prepare"}
    BY <1>1, <1>2 DEF Idle
  <1>5. NoFiles \in [Credential -> Content] /\ Nothing \in [Credential -> Update]
    BY ContentKnown DEF NoFiles, Nothing, Update
  <1>6. had \in [Credential -> SUBSET Content]
    BY DEF UpdatesInit
  <1>7. authUpdates \in Seq(Credential \X Content) /\ Len(authUpdates) <= QueueSize
    BY UpdatesAssumption DEF UpdatesInit
  <1>8. /\ file \in [Credential -> Content] /\ lastAuthHashes = NoFiles
        /\ events = {} /\ changes = 0 /\ currentAuths = NoFiles
        /\ pendingWrites = {} /\ handling = NoFile
        /\ pendingUpdates = Nothing /\ batch = Nothing
        /\ auths = file /\ models = NoFiles /\ lastRegisteredVersion = {}
        /\ latest = file /\ overlapped = FALSE
        /\ unnoticed = {} /\ forgotten \subseteq Credential
    BY DEF UpdatesInit
  <1>9. changes \in 0..MaxChanges
    BY <1>8, UpdatesAssumption
  <1>10. UpdatesTypeOK
    BY <1>3, <1>5, <1>6, <1>7, <1>8, <1>9 DEF UpdatesTypeOK, Scans
  <1> QED
    BY <1>4, <1>10 DEF UpdatesTyped, SeenTyped

LEMMA UpdatesNextTyped == UpdatesTyped /\ [UpdatesNext]_updatesVars => UpdatesTyped'
  <1> SUFFICES ASSUME UpdatesTyped, [UpdatesNext]_updatesVars PROVE UpdatesTyped'
    OBVIOUS
  <1> USE DEF sources, pipeline, service, excuses
  <1>a. scan \in [Scanner -> Scans] /\ SeenTyped
    BY DEF UpdatesTyped, UpdatesTypeOK, Scans
  <1>b. ASSUME scan' = scan PROVE scan' \in [Scanner -> Scans] /\ SeenTyped'
    BY <1>a, <1>b DEF SeenTyped
  <1>c. ASSUME NEW s \in Scanner, scan' = [scan EXCEPT ![s].at = "snapshot"]
        PROVE  scan' \in [Scanner -> Scans] /\ SeenTyped'
    <2>1. PICK r \in Scans : r.at = "snapshot" /\ scan' = [scan EXCEPT ![s] = r]
      BY <1>c, ScanBegins
    <2>2. r.at \notin {"hash", "prepare"}
      BY <2>1
    <2> QED
      BY <2>1, <2>2, ScanMoves
  <1>d. file \in [Credential -> Content] /\ file \in [Credential -> Update]
    BY ContentKnown DEF UpdatesTyped, UpdatesTypeOK
  <1>1. ASSUME NEW c \in Credential, NEW v \in Content, EditFile(c, v) PROVE UpdatesTyped'
    <2>1. scan' \in [Scanner -> Scans] /\ SeenTyped'
      BY <1>1, <1>b DEF EditFile
    <2>2. changes' \in 0..MaxChanges
      BY <1>1, UpdatesAssumption DEF EditFile, UpdatesTyped, UpdatesTypeOK
    <2> QED
      BY <1>1, <2>1, <2>2 DEF EditFile, UpdatesTyped, UpdatesTypeOK, Scans
  <1>m. ASSUME NEW c \in Credential, MarkPendingWrite(c) PROVE UpdatesTyped'
    <2>1. scan' \in [Scanner -> Scans] /\ SeenTyped'
      BY <1>m, <1>b DEF MarkPendingWrite
    <2>2. changes' \in 0..MaxChanges
      BY <1>m, UpdatesAssumption DEF MarkPendingWrite, UpdatesTyped, UpdatesTypeOK
    <2> QED
      BY <1>m, <2>1, <2>2 DEF MarkPendingWrite, UpdatesTyped, UpdatesTypeOK, Scans
  <1>k. ASSUME NEW c \in Credential, SkipEvent(c) PROVE UpdatesTyped'
    <2>1. scan' \in [Scanner -> Scans] /\ SeenTyped'
      BY <1>k, <1>b DEF SkipEvent
    <2> QED
      BY <1>k, <2>1 DEF SkipEvent, UpdatesTyped, UpdatesTypeOK, Scans
  <1>2. ASSUME NEW c \in Credential, HandleEvent(c) PROVE UpdatesTyped'
    <2>1. scan' \in [Scanner -> Scans] /\ SeenTyped'
      BY <1>2, <1>b, <1>c, UpdatesAssumption DEF HandleEvent
    <2>2. /\ lastAuthHashes' \in [Credential -> Content]
          /\ handling' \in Credential \cup {NoFile}
      BY <1>2, ContentKnown DEF HandleEvent, UpdatesTyped, UpdatesTypeOK
    <2> QED
      BY <1>2, <2>1, <2>2 DEF HandleEvent, UpdatesTyped, UpdatesTypeOK, Scans
  <1>u. CASE AddOrUpdateClient
    <2>1. scan' \in [Scanner -> Scans] /\ SeenTyped'
      BY <1>u, <1>b, <1>c, UpdatesAssumption DEF AddOrUpdateClient
    <2>2. lastAuthHashes' \in [Credential -> Content] /\ handling' = NoFile
      BY <1>u DEF AddOrUpdateClient, UpdatesTyped, UpdatesTypeOK
    <2> QED
      BY <1>u, <2>1, <2>2 DEF AddOrUpdateClient, UpdatesTyped, UpdatesTypeOK, Scans
  <1>w. ASSUME NEW s \in Scanner, WalkFiles(s) PROVE UpdatesTyped'
    <2>1. [at |-> "hash", seen |-> file] \in Scans
      BY <1>d DEF Scans, Place
    <2>2. scan' \in [Scanner -> Scans] /\ SeenTyped'
      BY <1>w, <1>d, <2>1, ScanMoves DEF WalkFiles
    <2> QED
      BY <1>w, <2>2 DEF WalkFiles, UpdatesTyped, UpdatesTypeOK, Scans
  <1>h. ASSUME NEW s \in Scanner, SwapHashes(s) PROVE UpdatesTyped'
    <2>1. [at |-> "snapshot", seen |-> Nothing] \in Scans
      BY DEF Scans, Place, Nothing, Update
    <2>2. scan' \in [Scanner -> Scans] /\ SeenTyped'
      BY <1>h, <2>1, ScanMoves DEF SwapHashes
    <2>3. lastAuthHashes' \in [Credential -> Content]
      BY <1>h DEF SwapHashes, UpdatesTyped, SeenTyped
    <2> QED
      BY <1>h, <2>2, <2>3 DEF SwapHashes, UpdatesTyped, UpdatesTypeOK, Scans
  <1>3. ASSUME NEW s \in Scanner, ReloadConfig(s) PROVE UpdatesTyped'
    <2>1. scan' \in [Scanner -> Scans] /\ SeenTyped'
      BY <1>3, <1>c DEF ReloadConfig
    <2>2. changes' \in 0..MaxChanges
      BY <1>3, UpdatesAssumption DEF ReloadConfig, UpdatesTyped, UpdatesTypeOK
    <2>3. /\ currentAuths' \in [Credential -> Content]
          /\ forgotten' \subseteq Credential
      BY <1>3, ContentKnown DEF ReloadConfig, UpdatesTyped, UpdatesTypeOK
    <2> QED
      BY <1>3, <2>1, <2>2, <2>3 DEF ReloadConfig, UpdatesTyped, UpdatesTypeOK, Scans
  <1>4. ASSUME NEW s \in Scanner, SnapshotCoreAuths(s) PROVE UpdatesTyped'
    <2>1. [at |-> "prepare", seen |-> file] \in Scans
      BY <1>d DEF Scans, Place
    <2>2. scan' \in [Scanner -> Scans] /\ SeenTyped'
      BY <1>4, <1>d, <2>1, ScanMoves DEF SnapshotCoreAuths
    <2> QED
      BY <1>4, <2>2 DEF SnapshotCoreAuths, UpdatesTyped, UpdatesTypeOK, Scans
  <1>5. ASSUME NEW s \in Scanner, PrepareAuthUpdates(s) PROVE UpdatesTyped'
    <2> DEFINE found == Differences(scan[s].seen)
               next == IF found = Nothing THEN Idle ELSE [at |-> "dispatch", seen |-> found]
    <2>1. scan[s].seen \in [Credential -> Content]
      BY <1>5 DEF PrepareAuthUpdates, UpdatesTyped, SeenTyped
    <2>2. next \in Scans /\ next.at \notin {"hash", "prepare"}
      BY <2>1, DifferencesTyped, IdleTyped DEF Idle, Scans, Place
    <2>3. scan' = [scan EXCEPT ![s] = next]
      BY <1>5 DEF PrepareAuthUpdates
    <2> HIDE DEF next
    <2>4. scan' \in [Scanner -> Scans] /\ SeenTyped'
      BY <2>2, <2>3, ScanMoves
    <2>5. forgotten' \subseteq Credential
      BY <1>5 DEF PrepareAuthUpdates, UpdatesTyped, UpdatesTypeOK
    <2> QED
      BY <1>5, <2>1, <2>4, <2>5 DEF PrepareAuthUpdates, UpdatesTyped, UpdatesTypeOK, Scans
  <1>6. ASSUME NEW s \in Scanner, DispatchAuthUpdates(s) PROVE UpdatesTyped'
    <2>1. scan[s].seen \in [Credential -> Update]
      BY <1>a DEF Scans
    <2>2. pendingUpdates' \in [Credential -> Update] /\ latest' \in [Credential -> Content]
      BY <1>6, <2>1, NewerTyped, ContentKnown DEF DispatchAuthUpdates, UpdatesTyped, UpdatesTypeOK
    <2>3. scan' \in [Scanner -> Scans] /\ SeenTyped'
      BY <1>6, IdleTyped, ScanMoves DEF DispatchAuthUpdates
    <2> QED
      BY <1>6, <2>2, <2>3 DEF DispatchAuthUpdates, UpdatesTyped, UpdatesTypeOK, Scans
  <1>7. CASE NextPendingBatch
    <2>1. Nothing \in [Credential -> Update]
      BY DEF Nothing, Update
    <2> QED
      BY <1>7, <2>1 DEF NextPendingBatch, UpdatesTyped, SeenTyped, UpdatesTypeOK
  <1>8. ASSUME NEW c \in Credential, SendUpdate(c) PROVE UpdatesTyped'
    <2>1. batch[c] \in Content
      BY <1>8, ContentKnown DEF SendUpdate, UpdatesTyped, SeenTyped, UpdatesTypeOK
    <2>2. /\ authUpdates \in Seq(Credential \X Content) /\ Len(authUpdates) < QueueSize
          /\ authUpdates' = Append(authUpdates, <<c, batch[c]>>)
          /\ <<c, batch[c]>> \in Credential \X Content
      BY <1>8, <2>1 DEF SendUpdate, UpdatesTyped, SeenTyped, UpdatesTypeOK
    <2>3. authUpdates' \in Seq(Credential \X Content) /\ Len(authUpdates') = Len(authUpdates) + 1
      BY <2>2
    <2>4. Len(authUpdates') <= QueueSize
      BY <2>2, <2>3, UpdatesAssumption
    <2>5. batch' \in [Credential -> Update]
      BY <1>8 DEF SendUpdate, UpdatesTyped, UpdatesTypeOK, Update
    <2> QED
      BY <1>8, <2>3, <2>4, <2>5 DEF SendUpdate, UpdatesTyped, SeenTyped, UpdatesTypeOK
  <1>9. CASE ConsumeAuthUpdate
    <2> DEFINE c == Head(authUpdates)[1]
               v == Head(authUpdates)[2]
    <2>1. /\ authUpdates \in Seq(Credential \X Content) /\ authUpdates # <<>>
          /\ Len(authUpdates) <= QueueSize /\ authUpdates' = Tail(authUpdates)
      BY <1>9 DEF ConsumeAuthUpdate, UpdatesTyped, SeenTyped, UpdatesTypeOK
    <2>2. /\ Head(authUpdates) \in Credential \X Content
          /\ authUpdates' \in Seq(Credential \X Content) /\ Len(authUpdates') = Len(authUpdates) - 1
          /\ Len(authUpdates) \in Nat
      BY <2>1
    <2>3. Len(authUpdates') <= QueueSize
      BY <2>1, <2>2, UpdatesAssumption
    <2>4. c \in Credential /\ v \in Content
      BY <2>2
    <2>5. ApplyAddOrUpdate(c, v) \/ ApplyRemoval(c, v)
      BY <1>9 DEF ConsumeAuthUpdate
    <2> HIDE DEF c, v
    <2>6. /\ auths' \in [Credential -> Content] /\ models' \in [Credential -> Content]
          /\ lastRegisteredVersion' \subseteq Credential
      <3>1. /\ auths \in [Credential -> Content] /\ models \in [Credential -> Content]
            /\ lastRegisteredVersion \subseteq Credential
        BY DEF UpdatesTyped, SeenTyped, UpdatesTypeOK
      <3>2. CASE ApplyAddOrUpdate(c, v)
        BY <2>4, <3>1, <3>2 DEF ApplyAddOrUpdate, RegisterModels
      <3>3. CASE ApplyRemoval(c, v)
        BY <2>4, <3>1, <3>3, ContentKnown DEF ApplyRemoval
      <3> QED
        BY <2>5, <3>2, <3>3
    <2> QED
      BY <1>9, <2>2, <2>3, <2>6 DEF ConsumeAuthUpdate, UpdatesTyped, SeenTyped, UpdatesTypeOK
  <1>10. CASE UNCHANGED updatesVars
    BY <1>10 DEF updatesVars, UpdatesTyped, SeenTyped, UpdatesTypeOK
  <1> QED
    BY <1>1, <1>m, <1>k, <1>2, <1>u, <1>w, <1>h, <1>3, <1>4, <1>5, <1>6, <1>7, <1>8, <1>9, <1>10
    DEF UpdatesNext, Handle, Start, Refresh, DispatchLoop

\* Type correctness: whatever scans, batches and the consumer do, the watcher's
\* and the service's variables have their types and the channel its capacity.
THEOREM UpdatesTypeCorrect == UpdatesSpec => []UpdatesTypeOK
  <1>1. UpdatesTyped => UpdatesTypeOK
    BY DEF UpdatesTyped
  <1> QED
    BY <1>1, UpdatesInitTyped, UpdatesNextTyped, PTL DEF UpdatesSpec

-----------------------------------------------------------------------------
(* The last update wins                                                    *)

Youngest(c, m) == m \in Queued(c) /\ \A j \in Queued(c) : j <= m

\* The update of a credential that will be applied last is the last dispatched.
Due(c) ==
  IF pendingUpdates[c] # NoUpdate THEN pendingUpdates[c] = latest[c]
  ELSE IF batch[c] # NoUpdate THEN batch[c] = latest[c]
  ELSE /\ \A m : Youngest(c, m) => authUpdates[m][2] = latest[c]
       /\ Queued(c) = {} => auths[c] = latest[c]

InTurn ==
  \A c \in Credential :
    /\ Due(c)
    /\ Queued(c) # {} => \E m : Youngest(c, m)

LEMMA DestinedLast == ASSUME UpdatesTyped, InTurn PROVE LastUpdateWins
  <1>1. ASSUME NEW c \in Credential, Queued(c) # {}
        PROVE  Youngest(c, CHOOSE i \in Queued(c) : \A j \in Queued(c) : j <= i)
    <2>1. \E i \in Queued(c) : \A j \in Queued(c) : j <= i
      BY <1>1 DEF InTurn, Youngest
    <2> QED
      BY <2>1 DEF Youngest
  <1>2. ASSUME NEW c \in Credential PROVE Destined(c) = latest[c]
    <2>1. Due(c)
      BY DEF InTurn
    <2> QED
      BY <1>1, <2>1 DEF Due, Destined
  <1> QED
    BY <1>2 DEF LastUpdateWins

\* Where the updates of a credential wait in the channel, after a send
LEMMA QueuedSent ==
  ASSUME UpdatesTyped, NEW c \in Credential, SendUpdate(c), NEW d \in Credential
  PROVE  /\ authUpdates'[Len(authUpdates) + 1] = <<c, batch[c]>>
         /\ \A i \in Queued(d) : i \in 1..Len(authUpdates) /\ authUpdates'[i] = authUpdates[i]
         /\ Queued(d)' = IF d = c THEN Queued(d) \cup {Len(authUpdates) + 1} ELSE Queued(d)
         /\ Len(authUpdates) \in Nat
  <1>1. /\ authUpdates \in Seq(Credential \X Content)
        /\ authUpdates' = Append(authUpdates, <<c, batch[c]>>)
        /\ <<c, batch[c]>> \in Credential \X Content
    BY ContentKnown DEF SendUpdate, UpdatesTyped, UpdatesTypeOK
  <1>2. /\ Len(authUpdates) \in Nat
        /\ authUpdates' \in Seq(Credential \X Content)
        /\ Len(authUpdates') = Len(authUpdates) + 1
        /\ \A i \in 1..Len(authUpdates) : authUpdates'[i] = authUpdates[i]
        /\ authUpdates'[Len(authUpdates) + 1] = <<c, batch[c]>>
    BY <1>1
  <1> QED
    BY <1>2 DEF Queued

\* and after a receive.
LEMMA QueuedTaken ==
  ASSUME UpdatesTyped, ConsumeAuthUpdate, NEW d \in Credential
  PROVE  /\ Queued(d) \subseteq Nat /\ Queued(d)' \subseteq Nat
         /\ \A i \in Nat : i \in Queued(d)' <=> i >= 1 /\ i + 1 \in Queued(d)
         /\ \A i \in Queued(d)' : authUpdates'[i] = authUpdates[i + 1]
         /\ \A i \in Queued(d) : i >= 1
         /\ 1 \in Queued(d) <=> Head(authUpdates)[1] = d
         /\ Head(authUpdates) = authUpdates[1]
         /\ Head(authUpdates) \in Credential \X Content
  <1>1. /\ authUpdates \in Seq(Credential \X Content) /\ authUpdates # <<>>
        /\ authUpdates' = Tail(authUpdates)
    BY DEF ConsumeAuthUpdate, UpdatesTyped, UpdatesTypeOK
  <1>2. /\ Len(authUpdates) \in Nat /\ Len(authUpdates) >= 1
        /\ authUpdates' \in Seq(Credential \X Content)
        /\ Len(authUpdates') = Len(authUpdates) - 1
        /\ \A i \in 1..Len(authUpdates') : authUpdates'[i] = authUpdates[i + 1]
        /\ Head(authUpdates) = authUpdates[1]
        /\ Head(authUpdates) \in Credential \X Content
    BY <1>1
  <1> QED
    BY <1>2 DEF Queued

LEMMA SameQueue ==
  ASSUME UNCHANGED authUpdates, NEW c \in Credential
  PROVE  Queued(c)' = Queued(c) /\ \A m : Youngest(c, m)' <=> Youngest(c, m)
  BY DEF Queued, Youngest

LEMMA InitInTurn == UpdatesInit => InTurn
  <1> SUFFICES ASSUME UpdatesInit PROVE InTurn
    OBVIOUS
  <1>1. /\ pendingUpdates = Nothing /\ batch = Nothing /\ authUpdates = <<>>
        /\ auths = file /\ latest = file
    BY DEF UpdatesInit
  <1>2. \A c \in Credential : Queued(c) = {}
    BY <1>1 DEF Queued
  <1> QED
    BY <1>1, <1>2 DEF InTurn, Due, Youngest, Nothing

LEMMA NextInTurn == UpdatesTyped /\ InTurn /\ [UpdatesNext]_updatesVars => InTurn'
  <1> SUFFICES ASSUME UpdatesTyped, InTurn, [UpdatesNext]_updatesVars PROVE InTurn'
    OBVIOUS
  <1> USE DEF sources, pipeline, service, excuses
  <1>1. ASSUME UNCHANGED <<pipeline, auths, latest>> PROVE InTurn'
    <2>1. \A c \in Credential : Due(c)' <=> Due(c)
      BY <1>1, SameQueue DEF Due
    <2> QED
      BY <1>1, <2>1, SameQueue DEF InTurn
  <1>2. ASSUME NEW s \in Scanner, DispatchAuthUpdates(s) PROVE InTurn'
    <2>1. /\ pendingUpdates' = Newer(pendingUpdates, scan[s].seen)
          /\ latest' = Newer(latest, scan[s].seen)
          /\ UNCHANGED <<batch, authUpdates, auths>>
      BY <1>2 DEF DispatchAuthUpdates
    <2>2. ASSUME NEW c \in Credential PROVE Due(c)'
      <3>1. CASE scan[s].seen[c] = NoUpdate
        <4>1. pendingUpdates'[c] = pendingUpdates[c] /\ latest'[c] = latest[c]
          BY <2>1, <3>1 DEF Newer
        <4> QED
          BY <2>1, <4>1, SameQueue DEF Due, InTurn
      <3>2. CASE scan[s].seen[c] # NoUpdate
        <4>1. pendingUpdates'[c] = scan[s].seen[c] /\ latest'[c] = scan[s].seen[c]
          BY <2>1, <3>2 DEF Newer
        <4> QED
          BY <3>2, <4>1 DEF Due
      <3> QED
        BY <3>1, <3>2
    <2> QED
      BY <2>1, <2>2, SameQueue DEF InTurn
  <1>3. CASE NextPendingBatch
    <2>1. /\ batch = Nothing /\ batch' = pendingUpdates /\ pendingUpdates' = Nothing
          /\ UNCHANGED <<authUpdates, auths, latest>>
      BY <1>3 DEF NextPendingBatch
    <2>2. ASSUME NEW c \in Credential PROVE Due(c)'
      <3>1. batch[c] = NoUpdate /\ pendingUpdates'[c] = NoUpdate /\ batch'[c] = pendingUpdates[c]
        BY <2>1 DEF Nothing
      <3> QED
        BY <2>1, <3>1, SameQueue DEF Due, InTurn
    <2> QED
      BY <2>1, <2>2, SameQueue DEF InTurn
  <1>4. ASSUME NEW c \in Credential, SendUpdate(c) PROVE InTurn'
    <2>1. /\ batch[c] # NoUpdate /\ batch \in [Credential -> Update]
          /\ batch' = [batch EXCEPT ![c] = NoUpdate]
          /\ UNCHANGED <<pendingUpdates, auths, latest>>
      BY <1>4 DEF SendUpdate, UpdatesTyped, UpdatesTypeOK
    <2>2. ASSUME NEW d \in Credential, d # c PROVE Due(d)' /\ (Queued(d)' # {} => \E m : Youngest(d, m)')
      <3>1. batch'[d] = batch[d]
        BY <2>1, <2>2
      <3>2. Queued(d)' = Queued(d) /\ \A i \in Queued(d) : authUpdates'[i] = authUpdates[i]
        BY <1>4, <2>2, QueuedSent
      <3>3. \A m : Youngest(d, m)' <=> Youngest(d, m)
        BY <3>2 DEF Youngest
      <3>4. \A m : Youngest(d, m) => authUpdates'[m] = authUpdates[m]
        BY <3>2 DEF Youngest
      <3> QED
        BY <2>1, <3>1, <3>2, <3>3, <3>4 DEF Due, InTurn
    <2>3. Due(c)' /\ \E m : Youngest(c, m)'
      <3>0. Len(authUpdates) \in Nat
        BY <1>4, QueuedSent
      <3> PICK n \in Nat : n = Len(authUpdates) + 1
        BY <3>0
      <3>1. /\ authUpdates'[n] = <<c, batch[c]>> /\ Queued(c)' = Queued(c) \cup {n}
            /\ \A i \in Queued(c) : i <= n
            /\ \A i \in Queued(c) : ~(n <= i)
            /\ n <= n
        <4>1. /\ authUpdates'[n] = <<c, batch[c]>> /\ Queued(c)' = Queued(c) \cup {n}
              /\ Len(authUpdates) \in Nat
              /\ \A i \in Queued(c) : i \in 1..Len(authUpdates)
          BY <1>4, QueuedSent
        <4> QED
          BY <4>1
      <3>2. Youngest(c, n)'
        BY <3>1 DEF Youngest
      <3>3. \A m : Youngest(c, m)' => m = n
        BY <3>1 DEF Youngest
      <3>4. batch'[c] = NoUpdate
        BY <2>1
      <3>5. pendingUpdates[c] = NoUpdate => batch[c] = latest[c]
        BY <2>1 DEF InTurn, Due
      <3>6. authUpdates'[n][2] = batch[c]
        BY <3>1
      <3>7. pendingUpdates[c] # NoUpdate => pendingUpdates[c] = latest[c]
        BY DEF InTurn, Due
      <3>8. Queued(c)' # {}
        BY <3>1
      <3>9. Due(c)'
        BY <2>1, <3>3, <3>4, <3>5, <3>6, <3>7, <3>8 DEF Due
      <3> QED
        BY <3>2, <3>9
    <2> QED
      BY <2>2, <2>3 DEF InTurn
  <1>5. CASE ConsumeAuthUpdate
    <2> DEFINE c == Head(authUpdates)[1]
               v == Head(authUpdates)[2]
    <2>1. UNCHANGED <<pendingUpdates, batch, latest>>
      BY <1>5 DEF ConsumeAuthUpdate
    <2>2. c \in Credential /\ v \in Content
      <3>1. authUpdates \in Seq(Credential \X Content) /\ authUpdates # <<>>
        BY <1>5 DEF ConsumeAuthUpdate, UpdatesTyped, UpdatesTypeOK
      <3>2. Head(authUpdates) \in Credential \X Content
        BY <3>1
      <3> QED
        BY <3>2
    <2>3. auths \in [Credential -> Content] /\ auths' = [auths EXCEPT ![c] = v]
      BY <1>5 DEF ConsumeAuthUpdate, ApplyAddOrUpdate, ApplyRemoval, UpdatesTyped, UpdatesTypeOK
    <2>4. ASSUME NEW d \in Credential
          PROVE  /\ \A m : Youngest(d, m)' => Youngest(d, m + 1) /\ authUpdates'[m] = authUpdates[m + 1]
                 /\ Queued(d)' # {} => \E m : Youngest(d, m)'
      <3>1. ASSUME NEW m, Youngest(d, m)'
            PROVE  Youngest(d, m + 1) /\ authUpdates'[m] = authUpdates[m + 1]
        <4>1. m \in Queued(d)' /\ m \in Nat /\ m >= 1 /\ m + 1 \in Queued(d)
              /\ authUpdates'[m] = authUpdates[m + 1]
          BY <1>5, <3>1, QueuedTaken DEF Youngest
        <4>2. ASSUME NEW j \in Queued(d) PROVE j <= m + 1
          <5>1. j \in Nat /\ j >= 1
            BY <1>5, QueuedTaken
          <5>2. CASE j = 1
            BY <4>1, <5>2
          <5>3. CASE j # 1
            <6>1. j - 1 \in Nat /\ j - 1 >= 1 /\ (j - 1) + 1 = j
              BY <5>1, <5>3
            <6>2. j - 1 \in Queued(d)'
              BY <1>5, <6>1, QueuedTaken
            <6>3. j - 1 <= m
              BY <6>2, <3>1 DEF Youngest
            <6> QED
              BY <4>1, <5>1, <6>3
          <5> QED
            BY <5>2, <5>3
        <4> QED
          BY <4>1, <4>2 DEF Youngest
      <3>2. ASSUME NEW i \in Queued(d)' PROVE \E m : Youngest(d, m)'
        <4>1. i \in Nat /\ i >= 1 /\ i + 1 \in Queued(d)
          BY <1>5, QueuedTaken
        <4>2. PICK m : Youngest(d, m)
          BY <4>1 DEF InTurn
        <4>3. m \in Nat /\ m \in Queued(d) /\ i + 1 <= m
          BY <1>5, <4>1, <4>2, QueuedTaken DEF Youngest
        <4>4. m - 1 \in Nat /\ m - 1 >= 1 /\ (m - 1) + 1 = m
          BY <4>1, <4>3
        <4>5. m - 1 \in Queued(d)'
          BY <1>5, <4>3, <4>4, QueuedTaken
        <4>6. ASSUME NEW j \in Queued(d)' PROVE j <= m - 1
          <5>1. j \in Nat /\ j + 1 \in Queued(d)
            BY <1>5, QueuedTaken
          <5>2. j + 1 <= m
            BY <5>1, <4>2 DEF Youngest
          <5> QED
            BY <5>1, <5>2, <4>3
        <4> QED
          BY <4>5, <4>6 DEF Youngest
      <3> QED
        BY <3>1, <3>2
    <2>5. ASSUME NEW d \in Credential, Queued(d)' = {}, Queued(d) # {}
          PROVE  d = c /\ Youngest(d, 1)
      <3>1. \A j \in Queued(d) : j = 1
        <4> SUFFICES ASSUME NEW j \in Queued(d), j # 1 PROVE FALSE
          OBVIOUS
        <4>1. j \in Nat /\ j >= 1
          BY <1>5, QueuedTaken
        <4>2. j - 1 \in Nat /\ j - 1 >= 1 /\ (j - 1) + 1 = j
          BY <4>1
        <4>3. j - 1 \in Queued(d)'
          BY <1>5, <4>2, QueuedTaken
        <4> QED
          BY <4>3, <2>5
      <3>2. 1 \in Queued(d)
        BY <2>5, <3>1
      <3> QED
        BY <1>5, <3>1, <3>2, QueuedTaken DEF Youngest
    <2>6. authUpdates[1][2] = v
      BY <1>5, <2>2, QueuedTaken
    <2>7. \A d \in Credential : d = c => 1 \in Queued(d)
      BY <1>5, QueuedTaken
    <2> HIDE DEF c, v
    <2>8. ASSUME NEW d \in Credential PROVE Due(d)'
      <3>1. CASE pendingUpdates[d] # NoUpdate \/ batch[d] # NoUpdate
        BY <2>1, <3>1 DEF Due, InTurn
      <3>2. CASE pendingUpdates[d] = NoUpdate /\ batch[d] = NoUpdate
        <4>1. /\ \A m : Youngest(d, m) => authUpdates[m][2] = latest[d]
              /\ Queued(d) = {} => auths[d] = latest[d]
          BY <3>2 DEF Due, InTurn
        <4>2. \A m : Youngest(d, m)' => authUpdates'[m][2] = latest[d]
          BY <2>4, <4>1
        <4>3. ASSUME Queued(d)' = {} PROVE auths'[d] = latest[d]
          <5>1. CASE Queued(d) = {}
            <6>1. d # c
              BY <2>7, <5>1
            <6> QED
              BY <2>3, <4>1, <5>1, <6>1
          <5>2. CASE Queued(d) # {}
            <6>1. d = c /\ v = latest[d]
              BY <2>5, <2>6, <4>1, <4>3, <5>2
            <6> QED
              BY <2>2, <2>3, <6>1
          <5> QED
            BY <5>1, <5>2
        <4> QED
          BY <2>1, <3>2, <4>2, <4>3 DEF Due
      <3> QED
        BY <3>1, <3>2
    <2> QED
      BY <2>4, <2>8 DEF InTurn
  <1>6. ASSUME NEW c \in Credential, NEW v \in Content, EditFile(c, v) PROVE InTurn'
    BY <1>1, <1>6 DEF EditFile
  <1>7. ASSUME Handle \/ (\E c \in Credential : MarkPendingWrite(c)) PROVE InTurn'
    BY <1>1, <1>7 DEF Handle, AddOrUpdateClient, SkipEvent, HandleEvent, MarkPendingWrite
  <1>8. ASSUME NEW s \in Scanner,
               Start(s) \/ ReloadConfig(s) \/ SnapshotCoreAuths(s) \/ PrepareAuthUpdates(s)
        PROVE  InTurn'
    BY <1>1, <1>8 DEF Start, WalkFiles, SwapHashes, ReloadConfig, SnapshotCoreAuths, PrepareAuthUpdates
  <1>9. CASE UNCHANGED updatesVars
    BY <1>1, <1>9 DEF updatesVars
  <1> QED
    BY <1>2, <1>3, <1>4, <1>5, <1>6, <1>7, <1>8, <1>9 DEF UpdatesNext, Refresh, DispatchLoop

\* Merging, batching and queueing lose no last update of a credential and let no
\* older one overtake it, for any number of credentials and scanners and any
\* capacity of the channel.
THEOREM LastUpdateApplied == UpdatesSpec => []LastUpdateWins
  <1>1. UpdatesTyped /\ InTurn => LastUpdateWins
    BY DestinedLast
  <1> QED
    BY <1>1, UpdatesInitTyped, UpdatesNextTyped, InitInTurn, NextInTurn, PTL DEF UpdatesSpec

-----------------------------------------------------------------------------
(* The files are followed                                                  *)

LEMMA InitFollowed == UpdatesInit => Followed
  <1> SUFFICES ASSUME UpdatesInit PROVE Followed
    OBVIOUS
  <1>1. PICK s \in Scanner \ {EventLoop} :
          scan = [t \in Scanner |-> IF t = s THEN [Idle EXCEPT !.at = "start"] ELSE Idle]
    BY DEF UpdatesInit
  <1>2. scan[s].at = "start" /\ \A t \in Scanner \ {s} : scan[t].at = "idle"
    BY <1>1 DEF Idle
  <1>3. \A t \in Scanner : scan[t].at \notin {"hash", "prepare", "dispatch"}
    BY <1>2
  <1>4. /\ had = [c \in Credential |-> {file[c]}]
        /\ latest = file /\ currentAuths = NoFiles
        /\ forgotten = {c \in Credential : file[c] # Absent}
    BY DEF UpdatesInit
  <1>5. Known
    BY <1>2, <1>3, <1>4 DEF Known, Starting, NoFiles
  <1>6. OneScan
    BY <1>3 DEF OneScan, Scanning
  <1>7. Read
    BY <1>2 DEF Read, ScanToCome
  <1>8. Reported
    BY <1>3, <1>4 DEF Reported, NoFiles
  <1>9. LoopFree
    BY <1>2, UpdatesAssumption DEF LoopFree, UpdatesInit
  <1> QED
    BY <1>5, <1>6, <1>7, <1>8, <1>9 DEF Followed

LEMMA NextLoopFree == UpdatesTyped /\ LoopFree /\ [UpdatesNext]_updatesVars => LoopFree'
  <1> SUFFICES ASSUME UpdatesTyped, LoopFree, [UpdatesNext]_updatesVars PROVE LoopFree'
    OBVIOUS
  <1> USE DEF sources, excuses
  <1>1. ASSUME UNCHANGED <<scan, handling>> PROVE LoopFree'
    BY <1>1 DEF LoopFree
  <1>2. ASSUME NEW s \in Scanner, NEW r, scan' = [scan EXCEPT ![s] = r], UNCHANGED handling,
               s # EventLoop \/ (r.at \notin {"start", "hash"} /\ scan[s].at # "idle")
        PROVE  LoopFree'
    BY <1>2, UpdatesAssumption DEF LoopFree, UpdatesTyped, UpdatesTypeOK
  <1>3. ASSUME handling' = NoFile, scan' \in {scan, [scan EXCEPT ![EventLoop].at = "snapshot"]}
        PROVE  LoopFree'
    BY <1>3, UpdatesAssumption DEF LoopFree, UpdatesTyped, UpdatesTypeOK
  <1>4. ASSUME NEW c \in Credential, HandleEvent(c) PROVE LoopFree'
    <2>1. CASE handling' = NoFile
      BY <1>3, <1>4, <2>1 DEF HandleEvent
    <2>2. CASE handling' # NoFile
      BY <1>4, <2>2 DEF HandleEvent, Free, LoopFree
    <2> QED
      BY <2>1, <2>2
  <1>5. CASE AddOrUpdateClient
    BY <1>3, <1>5 DEF AddOrUpdateClient
  <1>6. ASSUME NEW s \in Scanner, ReloadConfig(s) PROVE LoopFree'
    BY <1>6, UpdatesAssumption DEF ReloadConfig, LoopFree, UpdatesTyped, UpdatesTypeOK
  <1>7. ASSUME NEW s \in Scanner, WalkFiles(s) PROVE LoopFree'
    <2>1. s # EventLoop
      BY <1>7 DEF WalkFiles, LoopFree
    <2> QED
      BY <1>2, <1>7, <2>1 DEF WalkFiles
  <1>8. ASSUME NEW s \in Scanner, SwapHashes(s) PROVE LoopFree'
    <2>1. s # EventLoop
      BY <1>8 DEF SwapHashes, LoopFree
    <2> QED
      BY <1>2, <1>8, <2>1 DEF SwapHashes
  <1>9. ASSUME NEW s \in Scanner, SnapshotCoreAuths(s) PROVE LoopFree'
    BY <1>2, <1>9 DEF SnapshotCoreAuths
  <1>10. ASSUME NEW s \in Scanner, PrepareAuthUpdates(s) PROVE LoopFree'
    <2> DEFINE found == Differences(scan[s].seen)
               next == IF found = Nothing THEN Idle ELSE [at |-> "dispatch", seen |-> found]
    <2>1. next.at \notin {"start", "hash"}
      BY DEF Idle
    <2>2. scan' = [scan EXCEPT ![s] = next] /\ UNCHANGED handling /\ scan[s].at # "idle"
      BY <1>10 DEF PrepareAuthUpdates
    <2> HIDE DEF next
    <2> QED
      BY <1>2, <2>1, <2>2
  <1>11. ASSUME NEW s \in Scanner, DispatchAuthUpdates(s) PROVE LoopFree'
    <2>1. Idle.at \notin {"start", "hash"}
      BY DEF Idle
    <2> QED
      BY <1>2, <1>11, <2>1 DEF DispatchAuthUpdates
  <1>12. CASE \/ NextPendingBatch \/ ConsumeAuthUpdate \/ UNCHANGED updatesVars
              \/ \E c \in Credential : SendUpdate(c) \/ MarkPendingWrite(c) \/ SkipEvent(c)
              \/ \E c \in Credential, v \in Content : EditFile(c, v)
    BY <1>1, <1>12 DEF NextPendingBatch, ConsumeAuthUpdate, SendUpdate, MarkPendingWrite, SkipEvent,
       EditFile, updatesVars
  <1> QED
    BY <1>4, <1>5, <1>6, <1>7, <1>8, <1>9, <1>10, <1>11, <1>12
    DEF UpdatesNext, Handle, Start, Refresh, DispatchLoop

\* The start ends with hashes.
LEMMA StartGoesOn ==
  ASSUME UpdatesTyped, NEW s \in Scanner, NEW r \in Scans,
         r.at \notin {"start", "hash"}, scan' = [scan EXCEPT ![s] = r]
  PROVE  /\ \A t \in Scanner : scan'[t].at = "hash" => t # s /\ scan'[t] = scan[t]
         /\ scan[s].at \notin {"start", "hash"} => (Starting' <=> Starting)
  <1>1. r.at \in {"hash", "prepare"} => r.at = "prepare"
    OBVIOUS
  <1>2. scan'[s] = r /\ \A t \in Scanner \ {s} : scan'[t] = scan[t]
    BY DEF UpdatesTyped, UpdatesTypeOK, Scans
  <1> QED
    BY <1>2 DEF Starting

LEMMA NextKnown == UpdatesTyped /\ LoopFree /\ Known /\ [UpdatesNext]_updatesVars => Known'
  <1> SUFFICES ASSUME UpdatesTyped, LoopFree, Known, [UpdatesNext]_updatesVars PROVE Known'
    OBVIOUS
  <1> USE DEF sources, excuses
  <1>a. scan \in [Scanner -> Scans] /\ SeenTyped
    BY DEF UpdatesTyped, UpdatesTypeOK, Scans
  <1>1. ASSUME UNCHANGED <<file, had, lastAuthHashes, forgotten, currentAuths>>,
               NEW s \in Scanner, scan[s].at \notin {"start", "hash"},
               NEW r \in Scans, r.at \notin {"start", "hash"}, scan' = [scan EXCEPT ![s] = r]
        PROVE  Known'
    BY <1>1, StartGoesOn DEF Known
  <1>b. ASSUME NEW s \in Scanner, scan' = [scan EXCEPT ![s].at = "snapshot"]
        PROVE  \E r \in Scans : r.at \notin {"start", "hash"} /\ scan' = [scan EXCEPT ![s] = r]
    BY <1>b, ScanBegins
  <1>2. ASSUME UNCHANGED <<file, had, lastAuthHashes, forgotten, currentAuths, scan>> PROVE Known'
    BY <1>2 DEF Known, Starting
  <1>3. ASSUME NEW c \in Credential, NEW v \in Content, EditFile(c, v) PROVE Known'
    <2>1. /\ UNCHANGED <<scan, lastAuthHashes, forgotten, currentAuths>>
          /\ file' = [file EXCEPT ![c] = v] /\ had' = [had EXCEPT ![c] = @ \cup {v}]
      BY <1>3 DEF EditFile
    <2>2. \A d \in Credential : had[d] \subseteq had'[d] /\ file'[d] \in had'[d]
      BY <2>1 DEF Known, UpdatesTyped, UpdatesTypeOK
    <2> QED
      BY <2>1, <2>2 DEF Known, Starting
  <1>4. ASSUME NEW c \in Credential, LoopFree,
               lastAuthHashes' = [lastAuthHashes EXCEPT ![c] = file[c]],
               scan' = [scan EXCEPT ![EventLoop].at = "snapshot"],
               UNCHANGED <<file, had, forgotten, currentAuths>>
        PROVE  Known'
    <2>1. PICK r \in Scans : r.at \notin {"start", "hash"} /\ scan' = [scan EXCEPT ![EventLoop] = r]
      BY <1>4, <1>b, UpdatesAssumption
    <2>2. /\ \A t \in Scanner : scan'[t].at = "hash" => scan'[t] = scan[t]
          /\ Starting' <=> Starting
      BY <1>4, <2>1, StartGoesOn, UpdatesAssumption DEF LoopFree
    <2>3. \A d \in Credential : Starting \/ lastAuthHashes'[d] \in had[d]
      BY <1>4 DEF Known, UpdatesTyped, UpdatesTypeOK
    <2> QED
      BY <1>4, <2>2, <2>3 DEF Known
  <1>5. ASSUME NEW c \in Credential, HandleEvent(c) PROVE Known'
    <2>1. CASE file[c] = Absent /\ lastAuthHashes[c] # Absent
      BY <1>4, <1>5, <2>1 DEF HandleEvent
    <2>2. CASE ~(file[c] = Absent /\ lastAuthHashes[c] # Absent)
      BY <1>2, <1>5, <2>2 DEF HandleEvent
    <2> QED
      BY <2>1, <2>2
  <1>6. CASE AddOrUpdateClient
    <2>1. handling \in Credential
      BY <1>6 DEF AddOrUpdateClient, UpdatesTyped, UpdatesTypeOK
    <2>2. CASE file[handling] \in {Absent, lastAuthHashes[handling]}
      BY <1>2, <1>6, <2>2 DEF AddOrUpdateClient
    <2>3. CASE file[handling] \notin {Absent, lastAuthHashes[handling]}
      BY <1>4, <1>6, <2>1, <2>3 DEF AddOrUpdateClient
    <2> QED
      BY <2>2, <2>3
  <1>7. ASSUME NEW s \in Scanner, WalkFiles(s) PROVE Known'
    <2> DEFINE read == [at |-> "hash", seen |-> file]
    <2>1. read \in Scans /\ file \in [Credential -> Content]
      BY ContentKnown DEF UpdatesTyped, UpdatesTypeOK, Scans, Place
    <2>2. scan' = [scan EXCEPT ![s] = read]
      BY <1>7 DEF WalkFiles
    <2>3. scan'[s] = read /\ \A t \in Scanner \ {s} : scan'[t] = scan[t]
      BY <2>1, <2>2, ScanMoves
    <2>4. UNCHANGED <<file, had, forgotten, currentAuths>>
      BY <1>7 DEF WalkFiles
    <2>5. Starting'
      BY <2>3 DEF Starting
    <2>6. \A t \in Scanner, d \in Credential : scan'[t].at = "hash" => scan'[t].seen[d] \in had[d]
      BY <2>3 DEF Known
    <2> QED
      BY <2>4, <2>5, <2>6 DEF Known
  <1>8. ASSUME NEW s \in Scanner, SwapHashes(s) PROVE Known'
    <2> DEFINE next == [at |-> "snapshot", seen |-> Nothing]
    <2>1. next \in Scans /\ next.at \notin {"start", "hash"}
      BY DEF Scans, Place, Nothing, Update
    <2>2. scan' = [scan EXCEPT ![s] = next]
      BY <1>8 DEF SwapHashes
    <2> HIDE DEF next
    <2>3. \A t \in Scanner : scan'[t].at = "hash" => scan'[t] = scan[t]
      BY <2>1, <2>2, StartGoesOn
    <2>4. /\ lastAuthHashes' = scan[s].seen /\ scan[s].at = "hash"
          /\ UNCHANGED <<file, had, forgotten, currentAuths>>
      BY <1>8 DEF SwapHashes
    <2> QED
      BY <2>3, <2>4 DEF Known
  <1>9. ASSUME NEW s \in Scanner, ReloadConfig(s) PROVE Known'
    <2>1. PICK r \in Scans : r.at \notin {"start", "hash"} /\ scan' = [scan EXCEPT ![s] = r]
      BY <1>9, <1>b DEF ReloadConfig
    <2>2. /\ \A t \in Scanner : scan'[t].at = "hash" => scan'[t] = scan[t]
          /\ Starting' <=> Starting
      BY <1>9, <2>1, StartGoesOn DEF ReloadConfig
    <2>3. \A d \in Credential : d \in forgotten' => currentAuths'[d] = Absent
      BY <1>9 DEF ReloadConfig, Known
    <2>4. UNCHANGED <<file, had, lastAuthHashes>>
      BY <1>9 DEF ReloadConfig
    <2> QED
      BY <2>2, <2>3, <2>4 DEF Known
  <1>10. ASSUME NEW s \in Scanner, SnapshotCoreAuths(s) PROVE Known'
    <2> DEFINE next == [at |-> "prepare", seen |-> file]
    <2>1. next \in Scans /\ next.at \notin {"start", "hash"}
      BY ContentKnown DEF UpdatesTyped, UpdatesTypeOK, Scans, Place
    <2>2. scan' = [scan EXCEPT ![s] = next] /\ scan[s].at \notin {"start", "hash"}
      BY <1>10 DEF SnapshotCoreAuths
    <2>3. UNCHANGED <<file, had, lastAuthHashes, forgotten, currentAuths>>
      BY <1>10 DEF SnapshotCoreAuths
    <2> HIDE DEF next
    <2> QED
      BY <1>1, <2>1, <2>2, <2>3
  <1>11. ASSUME NEW s \in Scanner, PrepareAuthUpdates(s) PROVE Known'
    <2> DEFINE found == Differences(scan[s].seen)
               next == IF found = Nothing THEN Idle ELSE [at |-> "dispatch", seen |-> found]
    <2>1. scan[s].seen \in [Credential -> Content]
      BY <1>11 DEF PrepareAuthUpdates, UpdatesTyped, SeenTyped
    <2>2. next \in Scans /\ next.at \notin {"start", "hash"}
      BY <2>1, DifferencesTyped, IdleTyped DEF Scans, Place
    <2>3. scan' = [scan EXCEPT ![s] = next] /\ scan[s].at = "prepare"
      BY <1>11 DEF PrepareAuthUpdates
    <2> HIDE DEF next
    <2>4. /\ \A t \in Scanner : scan'[t].at = "hash" => scan'[t] = scan[t]
          /\ Starting' <=> Starting
      BY <2>2, <2>3, StartGoesOn
    <2>5. /\ UNCHANGED <<file, had, lastAuthHashes>>
          /\ \A d \in Credential : d \in forgotten' => currentAuths'[d] = Absent
      BY <1>11 DEF PrepareAuthUpdates
    <2> QED
      BY <2>4, <2>5 DEF Known
  <1>12. ASSUME NEW s \in Scanner, DispatchAuthUpdates(s) PROVE Known'
    <2>1. Idle \in Scans /\ Idle.at \notin {"start", "hash"}
      BY IdleTyped
    <2> QED
      BY <1>1, <1>12, <2>1 DEF DispatchAuthUpdates
  <1>13. CASE \/ NextPendingBatch \/ ConsumeAuthUpdate \/ UNCHANGED updatesVars
              \/ \E c \in Credential : SendUpdate(c) \/ MarkPendingWrite(c) \/ SkipEvent(c)
    BY <1>2, <1>13 DEF NextPendingBatch, ConsumeAuthUpdate, SendUpdate, MarkPendingWrite, SkipEvent, updatesVars
  <1> QED
    BY <1>3, <1>5, <1>6, <1>7, <1>8, <1>9, <1>10, <1>11, <1>12, <1>13
    DEF UpdatesNext, Handle, Start, Refresh, DispatchLoop

\* A scan that begins does not change what the others are about.
LEMMA Begun ==
  ASSUME UpdatesTyped, OneScan, NEW s \in Scanner, NEW r \in Scans,
         ~Scanning(s), r.at \in {"hash", "snapshot"},
         r.at = "hash" => r.seen \in [Credential -> Content], scan' = [scan EXCEPT ![s] = r]
  PROVE  /\ OneScan' /\ Read'
         /\ \A t \in Scanner : scan'[t].at = "dispatch" => scan'[t] = scan[t]
         /\ (\E t \in Scanner : scan'[t].at = "dispatch") <=> (\E t \in Scanner : scan[t].at = "dispatch")
  <1>1. scan'[s] = r /\ \A t \in Scanner \ {s} : scan'[t] = scan[t]
    BY ScanMoves
  <1>2. \A t \in Scanner : scan'[t].at \in {"prepare", "dispatch"} => t # s /\ scan'[t] = scan[t]
    BY <1>1
  <1>3. OneScan'
    BY <1>2 DEF OneScan, Scanning
  <1>4. Read'
    BY <1>1 DEF Read, ScanToCome
  <1> QED
    BY <1>1, <1>2, <1>3, <1>4 DEF Scanning

LEMMA NextFollowed == UpdatesTyped /\ Followed /\ [UpdatesNext]_updatesVars => Followed'
  <1> SUFFICES ASSUME UpdatesTyped, Followed, [UpdatesNext]_updatesVars, ~overlapped'
               PROVE  OneScan' /\ Read' /\ Reported'
    BY NextKnown, NextLoopFree DEF Followed
  <1> USE DEF sources, pipeline, service, excuses
  <1>1. Known /\ LoopFree
    BY DEF Followed
  <1>2. ASSUME ~overlapped PROVE OneScan /\ Read /\ Reported
    BY <1>2 DEF Followed
  <1>3. ASSUME UNCHANGED <<file, events, lastAuthHashes, handling, scan, currentAuths, latest,
                           excuses>>
        PROVE  OneScan' /\ Read' /\ Reported'
    BY <1>2, <1>3 DEF OneScan, Scanning, Read, ScanToCome, Reported
  <1>a. ASSUME NEW s \in Scanner, ~Scanning(s), scan' = [scan EXCEPT ![s].at = "snapshot"],
               UNCHANGED <<latest, currentAuths, forgotten, overlapped>>
        PROVE  OneScan' /\ Read' /\ Reported'
    <2>1. PICK r \in Scans : r.at = "snapshot" /\ scan' = [scan EXCEPT ![s] = r]
      BY <1>a, ScanBegins
    <2>2. /\ OneScan' /\ Read'
          /\ \A t \in Scanner : scan'[t].at = "dispatch" => scan'[t] = scan[t]
          /\ (\E t \in Scanner : scan'[t].at = "dispatch") <=> (\E t \in Scanner : scan[t].at = "dispatch")
      BY <1>2, <1>a, <2>1, Begun
    <2> QED
      BY <1>2, <1>a, <2>2 DEF Reported, Newer
  <1>b. ASSUME NEW s \in Scanner, ~Scanning(s), NEW r \in Scans, r.at \in {"hash", "snapshot"},
               r.at = "hash" => r.seen \in [Credential -> Content], scan' = [scan EXCEPT ![s] = r],
               UNCHANGED <<latest, currentAuths, forgotten, overlapped>>
        PROVE  OneScan' /\ Read' /\ Reported'
    <2>1. /\ OneScan' /\ Read'
          /\ \A t \in Scanner : scan'[t].at = "dispatch" => scan'[t] = scan[t]
          /\ (\E t \in Scanner : scan'[t].at = "dispatch") <=> (\E t \in Scanner : scan[t].at = "dispatch")
      BY <1>2, <1>b, Begun
    <2> QED
      BY <1>2, <1>b, <2>1 DEF Reported, Newer
  <1>4. ASSUME NEW c \in Credential, NEW v \in Content, EditFile(c, v)
        PROVE  OneScan' /\ Read' /\ Reported'
    <2>1. /\ UNCHANGED <<scan, currentAuths, latest, overlapped, forgotten, lastAuthHashes, handling>>
          /\ file' = [file EXCEPT ![c] = v]
          /\ unnoticed' = IF v \in had[c] THEN unnoticed \cup {c} ELSE unnoticed \ {c}
          /\ events' = IF Watching THEN events \cup {c} ELSE events
      BY <1>4 DEF EditFile
    <2>2. OneScan /\ Read /\ Reported
      BY <1>2, <2>1
    <2>3. file'[c] = v /\ \A d \in Credential \ {c} : file'[d] = file[d]
      BY <2>1 DEF UpdatesTyped, UpdatesTypeOK
    <2>4. ScanToCome(c)' \/ c \in unnoticed'
      <3>1. CASE v \in had[c]
        BY <2>1, <3>1
      <3>2. CASE Starting
        BY <2>1, <3>2 DEF Starting, ScanToCome
      <3>3. CASE v \notin had[c] /\ ~Starting
        <4>1. lastAuthHashes[c] # v
          BY <1>1, <3>3 DEF Known
        <4>2. c \in events'
          BY <2>1, <3>3 DEF Starting, Watching
        <4> QED
          BY <2>1, <2>3, <4>1, <4>2 DEF ScanToCome
      <3> QED
        BY <3>1, <3>2, <3>3
    <2>5. \A d \in Credential \ {c} : ScanToCome(d) \/ d \in unnoticed => ScanToCome(d)' \/ d \in unnoticed'
      BY <2>1, <2>3 DEF ScanToCome
    <2>6. Read'
      BY <2>1, <2>2, <2>3, <2>4, <2>5 DEF Read
    <2> QED
      BY <2>1, <2>2, <2>6 DEF OneScan, Scanning, Reported, Newer
  <1>5. ASSUME NEW c \in Credential, HandleEvent(c)
        PROVE  OneScan' /\ Read' /\ Reported'
    <2>1. /\ scan[EventLoop].at = "idle" /\ EventLoop \in Scanner /\ handling = NoFile
          /\ events' = events \ {c}
          /\ handling' = IF file[c] \in {Absent, lastAuthHashes[c]} THEN NoFile ELSE c
          /\ UNCHANGED <<file, currentAuths, latest, excuses>>
      BY <1>5, UpdatesAssumption DEF HandleEvent, Free
    <2>2. OneScan /\ Read /\ Reported
      BY <1>2, <2>1
    <2>3. CASE file[c] = Absent /\ lastAuthHashes[c] # Absent
      <3>1. scan' = [scan EXCEPT ![EventLoop].at = "snapshot"]
        BY <1>5, <2>3 DEF HandleEvent
      <3> QED
        BY <1>a, <2>1, <3>1 DEF Scanning
    <2>4. CASE ~(file[c] = Absent /\ lastAuthHashes[c] # Absent)
      <3>1. scan' = scan /\ lastAuthHashes' = lastAuthHashes
        BY <1>5, <2>4 DEF HandleEvent
      <3>2. c # NoFile
        BY UpdatesAssumption
      <3>3. \A d \in Credential : ScanToCome(d) => ScanToCome(d)'
        <4>1. ASSUME NEW d \in Credential, ScanToCome(d), d # c PROVE ScanToCome(d)'
          <5>1. d # NoFile
            BY UpdatesAssumption
          <5> QED
            BY <2>1, <3>1, <4>1, <5>1 DEF ScanToCome
        <4>2. ScanToCome(c) => ScanToCome(c)'
          BY <2>1, <2>4, <3>1, <3>2 DEF ScanToCome
        <4> QED
          BY <4>1, <4>2
      <3> QED
        BY <2>1, <2>2, <3>1, <3>3 DEF OneScan, Scanning, Read, Reported
    <2> QED
      BY <2>3, <2>4
  <1>6. CASE AddOrUpdateClient
    <2>1. /\ scan[EventLoop].at = "idle" /\ EventLoop \in Scanner
          /\ handling # NoFile /\ handling' = NoFile
          /\ UNCHANGED <<file, events, currentAuths, latest, excuses>>
      BY <1>1, <1>6, UpdatesAssumption DEF AddOrUpdateClient, LoopFree
    <2>2. OneScan /\ Read /\ Reported
      BY <1>2, <2>1
    <2>3. CASE file[handling] \in {Absent, lastAuthHashes[handling]}
      <3>1. scan' = scan /\ lastAuthHashes' = lastAuthHashes
        BY <1>6, <2>3 DEF AddOrUpdateClient
      <3>2. \A d \in Credential : ScanToCome(d) => ScanToCome(d)'
        BY <2>1, <2>3, <3>1 DEF ScanToCome
      <3> QED
        BY <2>1, <2>2, <3>1, <3>2 DEF OneScan, Scanning, Read, Reported
    <2>4. CASE file[handling] \notin {Absent, lastAuthHashes[handling]}
      <3>1. scan' = [scan EXCEPT ![EventLoop].at = "snapshot"]
        BY <1>6, <2>4 DEF AddOrUpdateClient
      <3> QED
        BY <1>a, <2>1, <3>1 DEF Scanning
    <2> QED
      BY <2>3, <2>4
  <1>7. ASSUME NEW c \in Credential, SkipEvent(c)
        PROVE  OneScan' /\ Read' /\ Reported'
    <2>1. /\ events' \in {events, events \ {c}}
          /\ unnoticed' = IF c \in events' THEN unnoticed ELSE unnoticed \cup {c}
          /\ UNCHANGED <<file, lastAuthHashes, handling, scan, currentAuths, latest, forgotten, overlapped>>
      BY <1>7 DEF SkipEvent
    <2>2. OneScan /\ Read /\ Reported
      BY <1>2, <2>1
    <2>3. \A d \in Credential : ScanToCome(d) \/ d \in unnoticed => ScanToCome(d)' \/ d \in unnoticed'
      BY <2>1 DEF ScanToCome
    <2>4. Read'
      BY <2>1, <2>2, <2>3 DEF Read
    <2> QED
      BY <2>1, <2>2, <2>4 DEF OneScan, Scanning, Reported, Newer
  <1>8. ASSUME NEW s \in Scanner, WalkFiles(s)
        PROVE  OneScan' /\ Read' /\ Reported'
    <2> DEFINE r == [at |-> "hash", seen |-> file]
    <2>1. r \in Scans /\ r.seen \in [Credential -> Content] /\ r.at = "hash"
      BY ContentKnown DEF UpdatesTyped, UpdatesTypeOK, Scans, Place
    <2>2. /\ scan' = [scan EXCEPT ![s] = r] /\ scan[s].at = "start"
          /\ UNCHANGED <<latest, currentAuths, forgotten, overlapped>>
      BY <1>8 DEF WalkFiles
    <2> HIDE DEF r
    <2> QED
      BY <1>b, <2>1, <2>2 DEF Scanning
  <1>9. ASSUME NEW s \in Scanner, SwapHashes(s)
        PROVE  OneScan' /\ Read' /\ Reported'
    <2> DEFINE r == [at |-> "snapshot", seen |-> Nothing]
    <2>1. r \in Scans /\ r.at = "snapshot"
      BY DEF Scans, Place, Nothing, Update
    <2>2. /\ scan' = [scan EXCEPT ![s] = r] /\ scan[s].at = "hash"
          /\ UNCHANGED <<latest, currentAuths, forgotten, overlapped>>
      BY <1>9 DEF SwapHashes
    <2> HIDE DEF r
    <2> QED
      BY <1>b, <2>1, <2>2 DEF Scanning
  <1>10. ASSUME NEW s \in Scanner, ReloadConfig(s)
         PROVE  OneScan' /\ Read' /\ Reported'
    <2>1. /\ scan[s].at = "idle" /\ scan' = [scan EXCEPT ![s].at = "snapshot"]
          /\ UNCHANGED <<latest, overlapped>>
      BY <1>10 DEF ReloadConfig
    <2>2. PICK r \in Scans : r.at = "snapshot" /\ scan' = [scan EXCEPT ![s] = r]
      BY <2>1, ScanBegins
    <2>3. OneScan /\ Reported
      BY <1>2, <2>1
    <2>4. /\ OneScan' /\ Read'
          /\ \A t \in Scanner : scan'[t].at = "dispatch" => scan'[t] = scan[t]
          /\ (\E t \in Scanner : scan'[t].at = "dispatch") <=> (\E t \in Scanner : scan[t].at = "dispatch")
      BY <2>1, <2>2, <2>3, Begun DEF Scanning
    <2>5. \A c \in Credential \ forgotten' : c \notin forgotten /\ currentAuths'[c] = currentAuths[c]
      BY <1>10 DEF ReloadConfig, UpdatesTyped, UpdatesTypeOK
    <2>6. Reported'
      BY <2>1, <2>3, <2>4, <2>5 DEF Reported, Newer
    <2> QED
      BY <2>4, <2>6
  <1>11. ASSUME NEW s \in Scanner, SnapshotCoreAuths(s)
         PROVE  OneScan' /\ Read' /\ Reported'
    <2>1. /\ scan' = [scan EXCEPT ![s] = [at |-> "prepare", seen |-> file]]
          /\ UNCHANGED <<file, latest, currentAuths, forgotten>>
          /\ ~overlapped /\ \A t \in Scanner : scan[t].at \notin {"prepare", "dispatch"}
      BY <1>11 DEF SnapshotCoreAuths
    <2>2. file \in [Credential -> Content] /\ [at |-> "prepare", seen |-> file] \in Scans
      BY ContentKnown DEF UpdatesTyped, UpdatesTypeOK, Scans, Place
    <2>3. /\ scan'[s] = [at |-> "prepare", seen |-> file]
          /\ \A t \in Scanner \ {s} : scan'[t] = scan[t]
      BY <2>1, <2>2, ScanMoves
    <2>4. scan'[s].at = "prepare" /\ scan'[s].seen = file
      BY <2>3
    <2>5. \A t \in Scanner : scan'[t].at \in {"prepare", "dispatch"} => t = s
      BY <2>1, <2>3
    <2>6. OneScan'
      BY <2>5 DEF OneScan, Scanning
    <2>7. Read'
      BY <2>1, <2>4, <2>5 DEF Read
    <2>8. \A c \in Credential \ forgotten : latest[c] = currentAuths[c]
      BY <1>2, <2>1 DEF Reported
    <2>9. ~\E t \in Scanner : scan'[t].at = "dispatch"
      BY <2>4, <2>5
    <2>10. Reported'
      BY <2>1, <2>8, <2>9 DEF Reported
    <2> QED
      BY <2>6, <2>7, <2>10
  <1>12. ASSUME NEW s \in Scanner, PrepareAuthUpdates(s)
         PROVE  OneScan' /\ Read' /\ Reported'
    <2> DEFINE seen == scan[s].seen
               found == Differences(seen)
               next == IF found = Nothing THEN Idle ELSE [at |-> "dispatch", seen |-> found]
    <2>1. /\ scan[s].at = "prepare" /\ currentAuths' = seen
          /\ forgotten' = {c \in forgotten : seen[c] = Absent}
          /\ scan' = [scan EXCEPT ![s] = next]
          /\ UNCHANGED <<file, events, lastAuthHashes, handling, unnoticed, latest, overlapped>>
      BY <1>12 DEF PrepareAuthUpdates
    <2>2. OneScan /\ Read /\ Reported
      BY <1>2, <2>1
    <2>3. seen \in [Credential -> Content] /\ currentAuths \in [Credential -> Content]
      BY <2>1 DEF UpdatesTyped, SeenTyped, UpdatesTypeOK
    <2>4. \A t \in Scanner : scan[t].at \in {"prepare", "dispatch"} => t = s
      BY <2>1, <2>2 DEF OneScan, Scanning
    <2>5. /\ next \in Scans /\ next.at \in {"idle", "dispatch"}
          /\ next.at = "dispatch" => next.seen = found
          /\ next.at # "dispatch" => found = Nothing
      BY <2>3, DifferencesTyped, IdleTyped DEF Scans, Place
    <2>6. \A c \in Credential \ forgotten : latest[c] = currentAuths[c]
      BY <2>1, <2>2, <2>4 DEF Reported
    <2>7. \A c \in Credential \ forgotten' : Newer(latest, found)[c] = seen[c]
      <3>1. ASSUME NEW c \in Credential \ forgotten' PROVE Newer(latest, found)[c] = seen[c]
        <4>1. seen[c] \in Content /\ seen[c] # NoUpdate
          BY <2>3, ContentKnown
        <4>2. CASE seen[c] # currentAuths[c]
          <5>1. found[c] = seen[c]
            BY <4>2 DEF Differences
          <5> HIDE DEF found, seen
          <5> QED
            BY <4>1, <5>1 DEF Newer
        <4>3. CASE seen[c] = currentAuths[c]
          <5>1. found[c] = NoUpdate
            BY <4>3 DEF Differences
          <5>2. c \notin forgotten
            BY <1>1, <2>1, <3>1, <4>3 DEF Known
          <5> HIDE DEF found, seen
          <5> QED
            BY <2>6, <4>3, <5>1, <5>2 DEF Newer
        <4> QED
          BY <4>2, <4>3
      <3> QED
        BY <3>1
    <2>8. found = Nothing => \A c \in Credential \ forgotten' : latest[c] = seen[c]
      <3>1. found = Nothing => \A c \in Credential : Newer(latest, found)[c] = latest[c]
        BY DEF Newer, Nothing
      <3> HIDE DEF found, seen
      <3> QED
        BY <2>7, <3>1
    <2>a. \A c \in Credential : ScanToCome(c) \/ c \in unnoticed \/ seen[c] = file[c]
      BY <2>1, <2>2 DEF Read
    <2> HIDE DEF next, found, seen
    <2>9. scan'[s] = next /\ \A t \in Scanner \ {s} : scan'[t] = scan[t]
      BY <2>1, <2>5, ScanMoves
    <2>10. \A t \in Scanner : /\ scan'[t].at # "prepare"
                              /\ scan'[t].at = "dispatch" => t = s
                              /\ scan[t].at \in {"start", "hash", "snapshot"} => scan'[t] = scan[t]
      BY <2>1, <2>4, <2>5, <2>9
    <2>11. OneScan'
      BY <2>10 DEF OneScan, Scanning
    <2>12. \A c \in Credential : ScanToCome(c) => ScanToCome(c)'
      BY <2>1, <2>10 DEF ScanToCome
    <2>13. Read'
      BY <2>1, <2>10, <2>12, <2>a DEF Read
    <2>14. CASE next.at = "dispatch"
      <3>1. \A t \in Scanner : scan'[t].at = "dispatch" => scan'[t].seen = found
        BY <2>5, <2>9, <2>10, <2>14
      <3>2. \E t \in Scanner : scan'[t].at = "dispatch"
        BY <2>9, <2>14
      <3>3. \A f : Newer(latest', f) = Newer(latest, f)
        BY <2>1
      <3>4. Reported'
        BY <2>1, <2>7, <3>1, <3>2, <3>3 DEF Reported
      <3> QED
        BY <2>11, <2>13, <3>4
    <2>15. CASE next.at # "dispatch"
      <3>1. ~\E t \in Scanner : scan'[t].at = "dispatch"
        BY <2>9, <2>10, <2>15
      <3>2. Reported'
        BY <2>1, <2>5, <2>8, <2>15, <3>1 DEF Reported
      <3> QED
        BY <2>11, <2>13, <3>2
    <2> QED
      BY <2>14, <2>15
  <1>13. ASSUME NEW s \in Scanner, DispatchAuthUpdates(s)
         PROVE  OneScan' /\ Read' /\ Reported'
    <2>1. /\ scan[s].at = "dispatch" /\ latest' = Newer(latest, scan[s].seen)
          /\ scan' = [scan EXCEPT ![s] = Idle]
          /\ UNCHANGED <<file, events, lastAuthHashes, handling, currentAuths, excuses>>
      BY <1>13 DEF DispatchAuthUpdates
    <2>2. OneScan /\ Read /\ Reported
      BY <1>2, <2>1
    <2>3. \A t \in Scanner : scan[t].at \in {"prepare", "dispatch"} => t = s
      BY <2>1, <2>2 DEF OneScan, Scanning
    <2>4. scan'[s] = Idle /\ Idle.at = "idle" /\ \A t \in Scanner \ {s} : scan'[t] = scan[t]
      BY <2>1, IdleTyped, ScanMoves
    <2>5. \A t \in Scanner : /\ scan'[t].at \notin {"prepare", "dispatch"}
                             /\ scan[t].at # "prepare"
                             /\ scan[t].at \in {"start", "hash", "snapshot"} => scan'[t] = scan[t]
      BY <2>1, <2>3, <2>4
    <2>6. OneScan'
      BY <2>5 DEF OneScan, Scanning
    <2>7. \A c \in Credential : ScanToCome(c) => ScanToCome(c)'
      BY <2>1, <2>5 DEF ScanToCome
    <2>8. Read'
      BY <2>1, <2>2, <2>5, <2>7 DEF Read
    <2>9. \A c \in Credential \ forgotten : Newer(latest, scan[s].seen)[c] = currentAuths[c]
      BY <2>1, <2>2 DEF Reported
    <2>10. Reported'
      BY <2>1, <2>5, <2>9 DEF Reported
    <2> QED
      BY <2>6, <2>8, <2>10
  <1>14. CASE \/ NextPendingBatch \/ ConsumeAuthUpdate \/ UNCHANGED updatesVars
              \/ \E c \in Credential : SendUpdate(c) \/ MarkPendingWrite(c)
    BY <1>3, <1>14 DEF NextPendingBatch, SendUpdate, ConsumeAuthUpdate, MarkPendingWrite, updatesVars
  <1> QED
    BY <1>4, <1>5, <1>6, <1>7, <1>8, <1>9, <1>10, <1>11, <1>12, <1>13, <1>14
    DEF UpdatesNext, Handle, Start, Refresh, DispatchLoop

LEMMA FollowedSettled == ASSUME UpdatesTyped, InTurn, Followed PROVE FilesFollowed
  <1> SUFFICES ASSUME Settled, ~overlapped, NEW c \in Credential, ~Escaped(c) PROVE auths[c] = file[c]
    BY DEF FilesFollowed, InStep
  <1>1. /\ \A s \in Scanner : scan[s].at = "idle"
        /\ events = {} /\ handling = NoFile
        /\ pendingUpdates = Nothing /\ batch = Nothing /\ authUpdates = <<>>
    BY DEF Settled
  <1>2. currentAuths[c] = file[c]
    <2>1. c # NoFile
      BY UpdatesAssumption
    <2> QED
      BY <1>1, <2>1 DEF Followed, Read, ScanToCome, Escaped
  <1>3. c \notin forgotten
    BY <1>2 DEF Followed, Known, Escaped
  <1>4. latest[c] = currentAuths[c]
    BY <1>1, <1>3 DEF Followed, Reported
  <1>5. Queued(c) = {}
    BY <1>1 DEF Queued
  <1>6. auths[c] = latest[c]
    BY <1>1, <1>5 DEF InTurn, Due, Nothing
  <1> QED
    BY <1>2, <1>4, <1>6

\* When nothing is left to do and no two scans have overlapped, the manager has
\* what the files hold: no change of a file falls between event, hash, snapshot,
\* comparison and dispatch, but for one whose event was dismissed because the
\* file had its contents back or skipped because a write was announced, and for
\* a removal that currentAuths knows nothing of.  CredentialUpdatesEscape shows
\* that these happen.
THEOREM FilesAreFollowed == UpdatesSpec => []FilesFollowed
  <1>1. UpdatesTyped /\ Followed /\ [UpdatesNext]_updatesVars => Followed'
    BY NextFollowed
  <1>2. UpdatesTyped /\ InTurn /\ Followed => FilesFollowed
    BY FollowedSettled
  <1> QED
    BY <1>1, <1>2, UpdatesInitTyped, UpdatesNextTyped, InitInTurn, NextInTurn, InitFollowed, PTL DEF UpdatesSpec
=============================================================================
