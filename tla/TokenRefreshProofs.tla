-------------------------- MODULE TokenRefreshProofs --------------------------
(***************************************************************************)
(* Theorems about TokenRefresh, for any number of permits, of goroutines   *)
(* and of tokens: the refresh heap never forgets the credential, the file  *)
(* follows the entry, and the newest token is kept.                        *)
(***************************************************************************)
EXTENDS TokenRefresh, TLAPS

-----------------------------------------------------------------------------
(* Types                                                                   *)

LEMMA Zero == 0 \in Token /\ 0 \in 0..MaxErrors /\ 0 \in 0..MaxScans /\ 0 \in 0..Attempts
BY RefreshAssumption DEF Token

LEMMA IdleTypes ==
  IdleRefresher \in RefresherState /\ IdleRenewal \in RenewalState /\ NoReload \in ReloadState
BY Zero DEF IdleRefresher, IdleRenewal, NoReload, RefresherState, RenewalState, ReloadState

LEMMA InitTypes == Init => TypeOK
<1> SUFFICES ASSUME Init PROVE TypeOK
  OBVIOUS
<1>1. refresher \in [Refresher -> RefresherState] /\ renewal \in [Renewal -> RenewalState]
  BY IdleTypes DEF Init
<1>2. auths \in AuthState /\ entry \in EntryState /\ reload \in ReloadState
  BY Zero, IdleTypes DEF Init, AuthState, EntryState
<1>3. /\ grant \in Token /\ revoked \in BOOLEAN /\ errors \in 0..MaxErrors
      /\ dueAt \in Token \cup {None} /\ expiring \in Token \cup {None}
      /\ refreshAt \in Token /\ scheduled \in Token \cup {None, Retry}
      /\ fired \in BOOLEAN /\ turnedAway \in BOOLEAN /\ refreshing \in BOOLEAN
      /\ dirty \in BOOLEAN /\ flushing \in Token \cup {None} /\ file \in Token /\ missed \in BOOLEAN
      /\ seen \in Token /\ scans \in 0..MaxScans
      /\ overlapped \in BOOLEAN /\ overwritten \in BOOLEAN
  BY Zero DEF Init
<1> QED BY <1>1, <1>2, <1>3 DEF TypeOK

\* What an answer of the provider may change.
LEMMA ExchangeTypes ==
  ASSUME TypeOK, NEW t, NEW answer, Exchange(t, answer)
  PROVE  /\ grant' \in Token /\ revoked' \in BOOLEAN /\ errors' \in 0..MaxErrors
<1>1. grant \in Token /\ errors \in 0..MaxErrors /\ revoked' \in BOOLEAN
  BY DEF TypeOK, Exchange
<1>2. CASE grant < MaxRotations /\ grant' = grant + 1 /\ errors' = errors
  BY <1>1, <1>2, RefreshAssumption DEF Token
<1>3. CASE grant' = grant /\ errors' = errors
  BY <1>1, <1>3
<1>4. CASE errors < MaxErrors /\ errors' = errors + 1 /\ grant' = grant
  BY <1>1, <1>4, RefreshAssumption
<1> QED BY <1>2, <1>3, <1>4 DEF Exchange

\* The fields of the records, and records made from fields.
LEMMA RefresherFields ==
  ASSUME TypeOK, NEW r \in Refresher
  PROVE  /\ refresher[r].token \in Token /\ refresher[r].disabled \in BOOLEAN /\ refresher[r].time \in Token
         /\ \A p \in {"idle", "start", "call", "granted", "invalid", "error", "auths", "entry",
                     "read", "schedule", "save"} :
              /\ [refresher[r] EXCEPT !.at = p] \in RefresherState
              /\ \A t \in Token : /\ [refresher[r] EXCEPT !.at = p, !.token = t] \in RefresherState
                                 /\ [refresher[r] EXCEPT !.at = p, !.time = t] \in RefresherState
         /\ [refresher[r] EXCEPT !.current = FALSE] \in RefresherState
<1>1. refresher[r] \in RefresherState
  BY DEF TypeOK
<1>2. /\ refresher[r].token \in Token /\ refresher[r].disabled \in BOOLEAN /\ refresher[r].time \in Token
      /\ [refresher[r] EXCEPT !.current = FALSE] \in RefresherState
  BY <1>1 DEF RefresherState
<1>3. ASSUME NEW p \in {"idle", "start", "call", "granted", "invalid", "error", "auths", "entry",
                       "read", "schedule", "save"}
      PROVE  [refresher[r] EXCEPT !.at = p] \in RefresherState
  BY <1>1, <1>3 DEF RefresherState
<1>4. ASSUME NEW p \in {"idle", "start", "call", "granted", "invalid", "error", "auths", "entry",
                       "read", "schedule", "save"}, NEW t \in Token
      PROVE  [refresher[r] EXCEPT !.at = p, !.token = t] \in RefresherState
  BY <1>1, <1>4 DEF RefresherState
<1>5. ASSUME NEW p \in {"idle", "start", "call", "granted", "invalid", "error", "auths", "entry",
                       "read", "schedule", "save"}, NEW t \in Token
      PROVE  [refresher[r] EXCEPT !.at = p, !.time = t] \in RefresherState
  BY <1>1, <1>5 DEF RefresherState
<1> QED BY <1>2, <1>3, <1>4, <1>5

LEMMA OutdatedTypes ==
  ASSUME TypeOK
  PROVE  /\ Outdated(refresher) \in [Refresher -> RefresherState]
         /\ \A r \in Refresher : /\ Outdated(refresher)[r].at = refresher[r].at
                                 /\ [Outdated(refresher)[r] EXCEPT !.at = "entry"] \in RefresherState
<1>1. Outdated(refresher) \in [Refresher -> RefresherState]
  BY RefresherFields DEF Outdated
<1>2. \A r \in Refresher : refresher[r] \in RefresherState
  BY DEF TypeOK
<1>3. \A r \in Refresher : Outdated(refresher)[r].at = refresher[r].at
  BY <1>2 DEF Outdated, RefresherState
<1>4. \A v \in RefresherState : [v EXCEPT !.at = "entry"] \in RefresherState
  BY DEF RefresherState
<1> QED BY <1>1, <1>3, <1>4

LEMMA RenewalFields ==
  ASSUME TypeOK, NEW g \in Renewal
  PROVE  /\ renewal[g].token \in Token /\ renewal[g].attempt \in 0..Attempts
         /\ \A p \in {"idle", "start", "call", "granted", "schedule", "failed", "release"} :
              /\ [renewal[g] EXCEPT !.at = p] \in RenewalState
              /\ \A t \in Token : [renewal[g] EXCEPT !.at = p, !.token = t] \in RenewalState
         /\ \A n \in 0..Attempts : [renewal[g] EXCEPT !.attempt = n] \in RenewalState
         /\ \A p \in {"failed", "release"} : [IdleRenewal EXCEPT !.at = p] \in RenewalState
BY Zero DEF TypeOK, RenewalState, IdleRenewal

LEMMA CopyFields ==
  ASSUME TypeOK
  PROVE  /\ auths.token \in Token /\ auths.disabled \in BOOLEAN /\ auths.held \in BOOLEAN
         /\ entry.token \in Token /\ entry.disabled \in BOOLEAN
         /\ reload.token \in Token /\ reload.time \in Token
         /\ \A b \in BOOLEAN : /\ [auths EXCEPT !.held = b] \in AuthState
                               /\ [auths EXCEPT !.disabled = b] \in AuthState
                               /\ \A t \in Token : [auths EXCEPT !.token = t, !.disabled = b] \in AuthState
         /\ \A t \in Token : [entry EXCEPT !.token = t] \in EntryState
         /\ \A p \in {"idle", "auths", "entry", "read", "schedule", "save"} :
              /\ [reload EXCEPT !.at = p] \in ReloadState
              /\ \A t \in Token : [reload EXCEPT !.at = p, !.time = t] \in ReloadState
BY DEF TypeOK, AuthState, EntryState, ReloadState

\* A mark is queued, or missed.
LEMMA MarkTypes ==
  ASSUME TypeOK, MarkDirty
  PROVE  dirty' \in BOOLEAN /\ missed' \in BOOLEAN /\ (dirty' \/ missed')
<1>1. dirty \in BOOLEAN /\ missed \in BOOLEAN
  BY DEF TypeOK
<1> QED BY <1>1 DEF MarkDirty

LEMMA SaveTypes ==
  ASSUME TypeOK, NEW t \in Token, Save(t)
  PROVE  /\ file' \in Token /\ missed' \in BOOLEAN
         /\ dirty' \in BOOLEAN /\ flushing' \in Token \cup {None}
<1>1. /\ dirty \in BOOLEAN /\ missed \in BOOLEAN /\ flushing \in Token \cup {None}
      /\ file \in Token
  BY DEF TypeOK
<1> QED BY <1>1 DEF Save

\* The two steps of AuthRegistry.Update.
LEMMA UpdateEntryTypes ==
  ASSUME TypeOK, NEW t \in Token, NEW b \in BOOLEAN, UpdateEntry(t, b)
  PROVE  /\ entry' \in EntryState
         /\ UNCHANGED <<refreshAt, scheduled, fired, turnedAway, refreshing, renewal, dirty, flushing, file, missed>>
BY DEF UpdateEntry, EntryState, heap, store

LEMMA ScheduleUpdateTypes ==
  ASSUME TypeOK, NEW t \in Token, ScheduleUpdate(t)
  PROVE  /\ scheduled' \in Token \cup {None, Retry} /\ fired' \in BOOLEAN /\ turnedAway' \in BOOLEAN
         /\ dirty' \in BOOLEAN /\ missed' \in BOOLEAN
         /\ UNCHANGED <<entry, refreshAt, refreshing, renewal, flushing, file>>
<1>1. dirty' \in BOOLEAN /\ missed' \in BOOLEAN
  BY MarkTypes DEF ScheduleUpdate
<1>2. fired \in BOOLEAN
  BY DEF TypeOK
<1> QED BY <1>1, <1>2 DEF ScheduleUpdate, Schedule

\* TypeOK in parts, so that a step need only speak of those it writes.
ProviderOK ==
  /\ grant \in Token /\ revoked \in BOOLEAN /\ errors \in 0..MaxErrors
  /\ dueAt \in Token \cup {None} /\ expiring \in Token \cup {None}
ManagerOK ==
  /\ auths \in AuthState /\ refresher \in [Refresher -> RefresherState]
  /\ overlapped \in BOOLEAN /\ overwritten \in BOOLEAN
HeapOK ==
  scheduled \in Token \cup {None, Retry} /\ fired \in BOOLEAN /\ turnedAway \in BOOLEAN
RegistryOK ==
  /\ entry \in EntryState /\ renewal \in [Renewal -> RenewalState]
  /\ refreshAt \in Token /\ refreshing \in BOOLEAN
StoreOK ==
  /\ dirty \in BOOLEAN /\ missed \in BOOLEAN
  /\ flushing \in Token \cup {None} /\ file \in Token
WatcherOK ==
  seen \in Token /\ scans \in 0..MaxScans /\ reload \in ReloadState

LEMMA Parts ==
  TypeOK <=> ProviderOK /\ ManagerOK /\ HeapOK /\ RegistryOK /\ StoreOK /\ WatcherOK
BY DEF TypeOK, ProviderOK, ManagerOK, HeapOK, RegistryOK, StoreOK, WatcherOK

LEMMA PartsKept ==
  ASSUME TypeOK
  PROVE  /\ UNCHANGED <<provider, time>> => ProviderOK'
         /\ UNCHANGED <<auths, refresher, history>> => ManagerOK'
         /\ UNCHANGED heap => HeapOK'
         /\ UNCHANGED <<entry, refreshAt, refreshing, renewal>> => RegistryOK'
         /\ UNCHANGED registry => HeapOK' /\ RegistryOK'
         /\ UNCHANGED store => StoreOK'
         /\ UNCHANGED watcher => WatcherOK'
<1> USE Parts
<1>1. UNCHANGED <<provider, time>> => ProviderOK'
  BY DEF ProviderOK, provider, time
<1>2. UNCHANGED <<auths, refresher, history>> => ManagerOK'
  BY DEF ManagerOK, history
<1>3. UNCHANGED heap => HeapOK'
  BY DEF HeapOK, heap
<1>4. UNCHANGED <<entry, refreshAt, refreshing, renewal>> => RegistryOK'
  BY DEF RegistryOK
<1>5. UNCHANGED store => StoreOK'
  BY DEF StoreOK, store
<1>6. UNCHANGED watcher => WatcherOK'
  BY DEF WatcherOK, watcher
<1> QED BY <1>1, <1>2, <1>3, <1>4, <1>5, <1>6 DEF registry

LEMMA StepTypes == TypeOK /\ [Next]_vars => TypeOK'
<1> SUFFICES ASSUME TypeOK, [Next]_vars PROVE TypeOK'
  OBVIOUS
<1>c. ProviderOK /\ ManagerOK /\ HeapOK /\ RegistryOK /\ StoreOK /\ WatcherOK
  BY Parts
<1> USE PartsKept
<1>q. ASSUME ProviderOK', ManagerOK', HeapOK', RegistryOK', StoreOK', WatcherOK' PROVE TypeOK'
  BY <1>q, Parts DEF TypeOK, ProviderOK, ManagerOK, HeapOK, RegistryOK, StoreOK, WatcherOK
\* A step that writes the manager's part only.
<1>m. ASSUME ManagerOK', UNCHANGED <<provider, time, registry, store, watcher>> PROVE TypeOK'
  BY <1>m, <1>q
<1>1. CASE Revoke
  <2>1. ProviderOK'
    BY <1>c, <1>1 DEF Revoke, ProviderOK, time
  <2> QED BY <1>1, <1>q, <2>1 DEF Revoke
<1>2. CASE ComesDue
  <2>1. ProviderOK'
    BY <1>c, <1>2, RefreshAssumption DEF ComesDue, ProviderOK, provider, Token, None
  <2> QED BY <1>2, <1>q, <2>1 DEF ComesDue
<1>3. CASE Expires
  <2>1. ProviderOK'
    BY <1>c, <1>3, RefreshAssumption DEF Expires, ProviderOK, provider, Token, None
  <2> QED BY <1>3, <1>q, <2>1 DEF Expires
<1>4. CASE HoldEnds \/ CheckWithoutPermit
  <2>1. auths' \in AuthState
    BY <1>4, CopyFields DEF HoldEnds, CheckWithoutPermit
  <2>2. UNCHANGED <<provider, time, refresher, registry, store, watcher, history>>
    BY <1>4 DEF HoldEnds, CheckWithoutPermit
  <2>3. ManagerOK'
    BY <1>c, <2>1, <2>2 DEF ManagerOK, history
  <2> QED BY <1>m, <2>2, <2>3
<1>5. CASE TimerFires \/ SignalTaken
  <2>1. /\ fired' \in BOOLEAN /\ UNCHANGED <<scheduled, turnedAway>>
        /\ UNCHANGED <<provider, time, auths, refresher, entry, refreshAt, refreshing, renewal,
                       store, watcher, history>>
    BY <1>5 DEF TimerFires, SignalTaken
  <2>2. HeapOK'
    BY <1>c, <2>1 DEF HeapOK
  <2> QED BY <1>q, <2>1, <2>2
<1>6. CASE FlushPending
  <2>1. StoreOK'
    BY <1>c, <1>6, CopyFields DEF FlushPending, StoreOK
  <2> QED BY <1>6, <1>q, <2>1 DEF FlushPending
<1>7. CASE SaveFlushed
  <2>1. StoreOK'
    BY <1>c, <1>7 DEF SaveFlushed, StoreOK
  <2> QED BY <1>7, <1>q, <2>1 DEF SaveFlushed
<1>8. CASE Scan
  <2>1. scans' \in 0..MaxScans /\ file \in Token
    BY <1>c, <1>8, RefreshAssumption DEF Scan, WatcherOK, StoreOK
  <2>2. WatcherOK'
    BY <1>8, <2>1, Zero DEF Scan, WatcherOK, ReloadState
  <2> QED BY <1>8, <1>q, <2>2 DEF Scan
<1>9. CASE ApplyReload
  <2>1. auths' \in AuthState /\ reload' \in ReloadState
    BY <1>9, CopyFields DEF ApplyReload
  <2>2. refresher' \in [Refresher -> RefresherState]
    BY <1>9, OutdatedTypes DEF ApplyReload
  <2>3. ManagerOK'
    BY <1>c, <1>9, <2>1, <2>2 DEF ApplyReload, ManagerOK
  <2>4. WatcherOK'
    BY <1>c, <1>9, <2>1 DEF ApplyReload, WatcherOK
  <2> QED BY <1>9, <1>q, <2>3, <2>4 DEF ApplyReload
<1>10. CASE UpdateReloaded
  <2>1. ManagerOK'
    BY <1>c, <1>10 DEF UpdateReloaded, ManagerOK
  <2>2. WatcherOK'
    BY <1>c, <1>10, CopyFields DEF UpdateReloaded, WatcherOK
  <2>3. entry' \in EntryState
    BY <1>10, CopyFields, UpdateEntryTypes DEF UpdateReloaded
  <2>4. UNCHANGED <<refreshAt, refreshing, renewal, heap, store>>
    BY <1>10 DEF UpdateReloaded, UpdateEntry
  <2>5. RegistryOK'
    BY <1>c, <2>3, <2>4 DEF RegistryOK
  <2> QED BY <1>10, <1>q, <2>1, <2>2, <2>4, <2>5 DEF UpdateReloaded
<1>11. CASE SaveReloaded
  <2>1. StoreOK'
    BY <1>11, CopyFields, SaveTypes DEF SaveReloaded, StoreOK
  <2>2. WatcherOK'
    BY <1>c, <1>11, IdleTypes DEF SaveReloaded, WatcherOK
  <2> QED BY <1>11, <1>q, <2>1, <2>2 DEF SaveReloaded
<1>29. CASE ReloadReadsRefreshAt
  <2>1. WatcherOK'
    BY <1>c, <1>29, CopyFields DEF ReloadReadsRefreshAt, RegistryOK, WatcherOK
  <2> QED BY <1>29, <1>q, <2>1 DEF ReloadReadsRefreshAt
\* A step that schedules an Update.
<1>s. ASSUME NEW t \in Token, ScheduleUpdate(t) PROVE HeapOK' /\ RegistryOK' /\ StoreOK'
  <2>1. HeapOK'
    BY <1>s, ScheduleUpdateTypes DEF HeapOK
  <2>2. RegistryOK'
    BY <1>s DEF ScheduleUpdate
  <2>3. StoreOK'
    BY <1>c, <1>s, ScheduleUpdateTypes DEF StoreOK
  <2> QED BY <2>1, <2>2, <2>3
<1>30. CASE ScheduleReloaded
  <2>1. WatcherOK'
    BY <1>c, <1>30, CopyFields, Zero DEF ScheduleReloaded, WatcherOK
  <2>2. reload.time \in Token /\ ScheduleUpdate(reload.time)
    BY <1>30, CopyFields DEF ScheduleReloaded
  <2>3. HeapOK' /\ RegistryOK' /\ StoreOK'
    BY <1>s, <2>2
  <2> QED BY <1>30, <1>q, <2>1, <2>3 DEF ScheduleReloaded
<1>12. ASSUME NEW r \in Refresher, CheckRefreshes(r) PROVE TypeOK'
  <2>1. refresher' \in [Refresher -> RefresherState]
    BY <1>c, <1>12, RefresherFields DEF CheckRefreshes, Goes, ManagerOK
  <2>2. auths' \in AuthState
    BY <1>12, CopyFields DEF CheckRefreshes
  <2>9. overlapped' \in BOOLEAN /\ UNCHANGED <<provider, time, registry, store, watcher, overwritten>>
    BY <1>c, <1>12 DEF CheckRefreshes, ManagerOK
  <2>m. ManagerOK'
    BY <1>c, <2>1, <2>2, <2>9 DEF ManagerOK, history
  <2> QED BY <1>m, <2>9, <2>m
<1>13. ASSUME NEW r \in Refresher, BeginRefresh(r) PROVE TypeOK'
  <2>1. refresher' \in [Refresher -> RefresherState]
    BY <1>c, <1>13, CopyFields, Zero DEF BeginRefresh, RefresherState, ManagerOK
  <2>9. UNCHANGED <<provider, time, auths, registry, store, watcher, history>>
    BY <1>13 DEF BeginRefresh
  <2>m. ManagerOK'
    BY <1>c, <2>1, <2>9 DEF ManagerOK, history
  <2> QED BY <1>m, <2>9, <2>m
<1>14. ASSUME NEW r \in Refresher, CallRefresh(r) PROVE TypeOK'
  <2>1. PICK answer \in {"granted", "invalid", "error"} :
          /\ Exchange(refresher[r].token, answer)
          /\ refresher' = [refresher EXCEPT ![r].at = answer,
                                            ![r].token = IF answer = "granted" THEN grant' ELSE 0]
    BY <1>14 DEF CallRefresh
  <2>2. grant' \in Token /\ revoked' \in BOOLEAN /\ errors' \in 0..MaxErrors
    BY <2>1, ExchangeTypes
  <2>3. refresher' \in [Refresher -> RefresherState]
    <3> DEFINE t == IF answer = "granted" THEN grant' ELSE 0
    <3>1. t \in Token
      BY <2>2, Zero
    <3>2. [refresher[r] EXCEPT !.at = answer, !.token = t] \in RefresherState
      BY <3>1, RefresherFields
    <3>3. refresher' = [refresher EXCEPT ![r] = [refresher[r] EXCEPT !.at = answer, !.token = t]]
      BY <2>1 DEF TypeOK
    <3> HIDE DEF t
    <3> QED BY <3>2, <3>3 DEF TypeOK
  <2>4. ProviderOK'
    BY <1>c, <1>14, <2>2 DEF CallRefresh, ProviderOK, time
  <2>5. ManagerOK'
    BY <1>c, <1>14, <2>3 DEF CallRefresh, ManagerOK, history
  <2> QED BY <1>14, <1>q, <2>4, <2>5 DEF CallRefresh
<1>15. ASSUME NEW r \in Refresher, Refreshed(r) PROVE TypeOK'
  <2>1. refresher' \in [Refresher -> RefresherState]
    BY <1>15, OutdatedTypes DEF Refreshed
  <2>2. auths' \in AuthState
    BY <1>15, RefresherFields DEF Refreshed, AuthState
  <2>9. UNCHANGED <<provider, time, registry, store, watcher, history>>
    BY <1>15 DEF Refreshed
  <2>m. ManagerOK'
    BY <1>c, <2>1, <2>2, <2>9 DEF ManagerOK, history
  <2> QED BY <1>m, <2>9, <2>m
<1>16. ASSUME NEW r \in Refresher, FailureIgnored(r) PROVE TypeOK'
  <2>1. refresher' \in [Refresher -> RefresherState]
    BY <1>c, <1>16, IdleTypes DEF FailureIgnored, ManagerOK
  <2>9. UNCHANGED <<provider, time, auths, registry, store, watcher, history>>
    BY <1>16 DEF FailureIgnored
  <2>m. ManagerOK'
    BY <1>c, <2>1, <2>9 DEF ManagerOK, history
  <2> QED BY <1>m, <2>9, <2>m
<1>17. ASSUME NEW r \in Refresher, RefreshFailed(r) PROVE TypeOK'
  <2>1. refresher' \in [Refresher -> RefresherState]
    BY <1>c, <1>17, IdleTypes DEF RefreshFailed, ManagerOK
  <2>2. auths' \in AuthState
    BY <1>17, CopyFields DEF RefreshFailed
  <2>9. UNCHANGED <<provider, time, registry, store, watcher, history>>
    BY <1>17 DEF RefreshFailed
  <2>m. ManagerOK'
    BY <1>c, <2>1, <2>2, <2>9 DEF ManagerOK, history
  <2> QED BY <1>m, <2>9, <2>m
<1>18. ASSUME NEW r \in Refresher, RefreshRevoked(r) PROVE TypeOK'
  <2>1. [at |-> "auths", token |-> auths.token, disabled |-> TRUE, current |-> FALSE, time |-> 0] \in RefresherState
    BY <1>18, CopyFields, Zero DEF RefreshRevoked, RefresherState
  <2>2. refresher' \in [Refresher -> RefresherState]
    BY <1>18, <2>1, OutdatedTypes DEF RefreshRevoked
  <2>3. auths' \in AuthState
    BY <1>18, CopyFields DEF RefreshRevoked
  <2>9. UNCHANGED <<provider, time, registry, store, watcher, history>>
    BY <1>18 DEF RefreshRevoked
  <2>m. ManagerOK'
    BY <1>c, <2>2, <2>3, <2>9 DEF ManagerOK, history
  <2> QED BY <1>m, <2>9, <2>m
<1>19. ASSUME NEW r \in Refresher, UpdateAfterRevocation(r) PROVE TypeOK'
  <2>1. refresher' \in [Refresher -> RefresherState]
    BY <1>19, OutdatedTypes DEF UpdateAfterRevocation
  <2>2. auths' \in AuthState
    BY <1>19, RefresherFields, CopyFields DEF UpdateAfterRevocation, AuthState
  <2>9. overwritten' \in BOOLEAN /\ UNCHANGED <<provider, time, registry, store, watcher, overlapped>>
    BY <1>c, <1>19 DEF UpdateAfterRevocation, ManagerOK
  <2>m. ManagerOK'
    BY <1>c, <2>1, <2>2, <2>9 DEF ManagerOK, history
  <2> QED BY <1>m, <2>9, <2>m
<1>20. ASSUME NEW r \in Refresher, UpdateRegistry(r) PROVE TypeOK'
  <2>1. refresher' \in [Refresher -> RefresherState]
    BY <1>c, <1>20, RefresherFields DEF UpdateRegistry, Goes, ManagerOK
  <2>2. ManagerOK'
    BY <1>c, <1>20, <2>1 DEF UpdateRegistry, ManagerOK
  <2>3. entry' \in EntryState
    BY <1>20, RefresherFields, UpdateEntryTypes DEF UpdateRegistry
  <2>4. UNCHANGED <<refreshAt, refreshing, renewal, heap, store>>
    BY <1>20 DEF UpdateRegistry, UpdateEntry
  <2>5. RegistryOK'
    BY <1>c, <2>3, <2>4 DEF RegistryOK
  <2> QED BY <1>20, <1>q, <2>2, <2>4, <2>5 DEF UpdateRegistry
<1>31. ASSUME NEW r \in Refresher, ReadRefreshAt(r) PROVE TypeOK'
  <2>1. [refresher[r] EXCEPT !.at = "schedule", !.time = refreshAt] \in RefresherState
    BY <1>c, RefresherFields DEF RegistryOK
  <2>2. refresher' \in [Refresher -> RefresherState]
    BY <1>c, <1>31, <2>1 DEF ReadRefreshAt, ManagerOK
  <2>9. UNCHANGED <<provider, time, auths, registry, store, watcher, history>>
    BY <1>31 DEF ReadRefreshAt
  <2>m. ManagerOK'
    BY <1>c, <2>2, <2>9 DEF ManagerOK, history
  <2> QED BY <1>m, <2>9, <2>m
<1>32. ASSUME NEW r \in Refresher, ScheduleRefreshed(r) PROVE TypeOK'
  <2>1. [refresher[r] EXCEPT !.at = "save", !.time = 0] \in RefresherState
    BY Zero, RefresherFields
  <2>2. refresher' \in [Refresher -> RefresherState]
    BY <1>c, <1>32, <2>1 DEF ScheduleRefreshed, ManagerOK
  <2>3. ManagerOK'
    BY <1>c, <1>32, <2>2 DEF ScheduleRefreshed, ManagerOK, history
  <2>4. refresher[r].time \in Token /\ ScheduleUpdate(refresher[r].time)
    BY <1>32, RefresherFields DEF ScheduleRefreshed
  <2>5. HeapOK' /\ RegistryOK' /\ StoreOK'
    BY <1>s, <2>4
  <2> QED BY <1>32, <1>q, <2>3, <2>5 DEF ScheduleRefreshed
<1>21. ASSUME NEW r \in Refresher, SaveRefreshed(r) PROVE TypeOK'
  <2>1. refresher' \in [Refresher -> RefresherState]
    BY <1>c, <1>21, IdleTypes DEF SaveRefreshed, ManagerOK
  <2>2. ManagerOK'
    BY <1>c, <1>21, <2>1 DEF SaveRefreshed, ManagerOK, history
  <2>3. StoreOK'
    BY <1>21, RefresherFields, SaveTypes DEF SaveRefreshed, StoreOK
  <2> QED BY <1>21, <1>q, <2>2, <2>3 DEF SaveRefreshed
\* The registry's refresh.
<1>22. ASSUME NEW g \in Renewal, ProcessNextRefresh(g) PROVE TypeOK'
  <2>1. renewal' \in [Renewal -> RenewalState]
    BY <1>c, <1>22, RenewalFields DEF ProcessNextRefresh, RegistryOK
  <2>2. HeapOK'
    BY <1>c, <1>22 DEF ProcessNextRefresh, HeapOK
  <2>3. RegistryOK'
    BY <1>c, <1>22, <2>1 DEF ProcessNextRefresh, RegistryOK
  <2> QED BY <1>22, <1>q, <2>2, <2>3 DEF ProcessNextRefresh
<1>23. ASSUME NEW g \in Renewal, StartRenewal(g) PROVE TypeOK'
  <2>1. [at |-> "call", token |-> entry.token, attempt |-> 1] \in RenewalState
    <3>1. 1 \in 0..Attempts
      BY RefreshAssumption
    <3>2. entry.token \in Token
      BY CopyFields
    <3> QED BY <3>1, <3>2 DEF RenewalState
  <2>2. renewal' \in [Renewal -> RenewalState]
    BY <1>c, <1>23, <2>1, IdleTypes DEF StartRenewal, RegistryOK
  <2>3. HeapOK'
    BY <1>c, <1>23 DEF StartRenewal, HeapOK
  <2>4. RegistryOK'
    BY <1>c, <1>23, <2>2 DEF StartRenewal, RegistryOK
  <2> QED BY <1>23, <1>q, <2>3, <2>4 DEF StartRenewal
<1>24. ASSUME NEW g \in Renewal, CallRenewal(g) PROVE TypeOK'
  <2>1. PICK answer \in {"granted", "invalid", "error"} :
          /\ Exchange(renewal[g].token, answer)
          /\ renewal' = [renewal EXCEPT ![g] =
               IF answer = "granted" THEN [@ EXCEPT !.at = answer, !.token = grant']
               ELSE IF @.attempt = Attempts THEN [IdleRenewal EXCEPT !.at = "failed"]
               ELSE [@ EXCEPT !.attempt = renewal[g].attempt + 1]]
    BY <1>24 DEF CallRenewal
  <2>2. grant' \in Token /\ revoked' \in BOOLEAN /\ errors' \in 0..MaxErrors
    BY <2>1, ExchangeTypes
  <2>3. [renewal[g] EXCEPT !.at = "granted", !.token = grant'] \in RenewalState
    BY <2>2, RenewalFields
  <2>4. renewal[g].attempt # Attempts => renewal[g].attempt + 1 \in 0..Attempts
    <3>1. renewal[g].attempt \in 0..Attempts
      BY RenewalFields
    <3> QED BY <3>1, RefreshAssumption
  <2>5. renewal[g].attempt # Attempts =>
          [renewal[g] EXCEPT !.attempt = renewal[g].attempt + 1] \in RenewalState
    BY <2>4, RenewalFields
  <2>6. renewal' \in [Renewal -> RenewalState]
    <3>1. CASE answer = "granted"
      <4>1. renewal' = [renewal EXCEPT ![g] = [renewal[g] EXCEPT !.at = "granted", !.token = grant']]
        BY <2>1, <3>1 DEF TypeOK
      <4> QED BY <4>1, <2>3 DEF TypeOK
    <3>2. CASE answer # "granted" /\ renewal[g].attempt = Attempts
      <4>1. renewal' = [renewal EXCEPT ![g] = [IdleRenewal EXCEPT !.at = "failed"]]
        BY <2>1, <3>2 DEF TypeOK
      <4> QED BY <4>1, RenewalFields DEF TypeOK
    <3>3. CASE answer # "granted" /\ renewal[g].attempt # Attempts
      <4>1. renewal' = [renewal EXCEPT ![g] = [renewal[g] EXCEPT !.attempt = renewal[g].attempt + 1]]
        BY <2>1, <3>3 DEF TypeOK
      <4> QED BY <4>1, <3>3, <2>5 DEF TypeOK
    <3> QED BY <3>1, <3>2, <3>3
  <2>7. ProviderOK'
    BY <1>c, <1>24, <2>2 DEF CallRenewal, ProviderOK, time
  <2>8. RegistryOK'
    BY <1>c, <1>24, <2>6 DEF CallRenewal, RegistryOK
  <2> QED BY <1>24, <1>q, <2>7, <2>8 DEF CallRenewal
<1>25. ASSUME NEW g \in Renewal, CommitRenewal(g) PROVE TypeOK'
  <2>1. renewal' \in [Renewal -> RenewalState]
    BY <1>c, <1>25, RenewalFields DEF CommitRenewal, RegistryOK
  <2>2. entry' \in EntryState
    BY <1>25, CopyFields, RenewalFields DEF CommitRenewal
  <2>3. RegistryOK'
    BY <1>c, <1>25, <2>1, <2>2 DEF CommitRenewal, RegistryOK
  <2> QED BY <1>25, <1>q, <2>3 DEF CommitRenewal
<1>26. ASSUME NEW g \in Renewal, ScheduleRenewal(g) PROVE TypeOK'
  <2>1. renewal' \in [Renewal -> RenewalState]
    BY <1>c, <1>26, RenewalFields DEF ScheduleRenewal, RegistryOK
  <2>2. HeapOK'
    BY <1>c, <1>26, RenewalFields DEF ScheduleRenewal, Schedule, HeapOK
  <2>3. RegistryOK'
    BY <1>c, <1>26, <2>1, RenewalFields DEF ScheduleRenewal, RegistryOK
  <2>4. StoreOK'
    BY <1>c, <1>26, MarkTypes DEF ScheduleRenewal, StoreOK
  <2> QED BY <1>26, <1>q, <2>2, <2>3, <2>4 DEF ScheduleRenewal
<1>27. ASSUME NEW g \in Renewal, GiveUpRenewal(g) PROVE TypeOK'
  <2>1. renewal' \in [Renewal -> RenewalState]
    BY <1>c, <1>27, RenewalFields DEF GiveUpRenewal, RegistryOK
  <2>2. HeapOK'
    BY <1>c, <1>27 DEF GiveUpRenewal, Schedule, HeapOK
  <2>3. RegistryOK'
    BY <1>c, <1>27, <2>1 DEF GiveUpRenewal, RegistryOK
  <2> QED BY <1>27, <1>q, <2>2, <2>3 DEF GiveUpRenewal
<1>33. ASSUME NEW g \in Renewal, ReleaseRenewal(g) PROVE TypeOK'
  <2>1. renewal' \in [Renewal -> RenewalState]
    BY <1>c, <1>33, IdleTypes DEF ReleaseRenewal, RegistryOK
  <2>2. RegistryOK'
    BY <1>c, <1>33, <2>1 DEF ReleaseRenewal, RegistryOK
  <2> QED BY <1>33, <1>q, <2>2 DEF ReleaseRenewal
<1>28. CASE UNCHANGED vars
  BY <1>28 DEF vars, TypeOK
<1> QED
  BY <1>1, <1>2, <1>3, <1>4, <1>5, <1>6, <1>7, <1>8, <1>9, <1>10, <1>11, <1>12, <1>13,
     <1>14, <1>15, <1>16, <1>17, <1>18, <1>19, <1>20, <1>21, <1>22, <1>23, <1>24,
     <1>25, <1>26, <1>27, <1>28, <1>29, <1>30, <1>31, <1>32, <1>33
     DEF Next, Refresh, Renew, Reload, FinishReload

\* Every variable keeps its type.
THEOREM RefreshTypeCorrect == Spec => []TypeOK
BY InitTypes, StepTypes, PTL DEF Spec

-----------------------------------------------------------------------------
(* The heap                                                                *)

\* Who has the flag, and who of them is still to write the heap.
Working(g) == renewal[g].at \in {"call", "granted", "schedule", "failed"}
Holding(g) == Working(g) \/ renewal[g].at = "release"

\* Who finds the flag set and returns can rely on someone who will write the heap,
\* or is noted down as turned away.
HeapInv == RenewalKept /\ (refreshing => \E g \in Renewal : Holding(g))

LEMMA HeapStep == TypeOK /\ HeapInv /\ [Next]_vars => HeapInv'
<1> SUFFICES ASSUME TypeOK, HeapInv, [Next]_vars PROVE HeapInv'
  OBVIOUS
<1> USE DEF provider, time, heap, registry, store, watcher, history
<1>0. None \notin Token /\ Retry # None
  BY DEF None, Retry, Token
<1>1. CASE UNCHANGED <<scheduled, turnedAway, refreshing, renewal>>
  BY <1>1 DEF HeapInv, RenewalKept, AtWork, Holding, Working
\* Whoever writes the heap settles the matter.
<1>2. ASSUME NEW t \in Token \cup {Retry}, Schedule(t), refreshing' => \E g \in Renewal : Holding(g)'
      PROVE  HeapInv'
  <2>1. scheduled' # None
    BY <1>0, <1>2 DEF Schedule
  <2>2. None' = None
    BY DEF None
  <2> QED BY <1>2, <2>1, <2>2 DEF HeapInv, RenewalKept
<1>3. ASSUME NEW t \in Token, ScheduleUpdate(t) PROVE HeapInv'
  <2>1. UNCHANGED <<refreshing, renewal>>
    BY <1>3 DEF ScheduleUpdate
  <2>2. refreshing' => \E g \in Renewal : Holding(g)'
    BY <2>1 DEF HeapInv, Holding, Working
  <2>3. Schedule(t)
    BY <1>3 DEF ScheduleUpdate
  <2> QED BY <1>2, <2>2, <2>3
<1>4. ASSUME NEW r \in Refresher, CheckRefreshes(r) \/ Refresh(r) PROVE HeapInv'
  <2>1. CASE ScheduleRefreshed(r)
    BY <1>3, <2>1, RefresherFields DEF ScheduleRefreshed
  <2>2. CASE CheckRefreshes(r) \/ BeginRefresh(r) \/ CallRefresh(r) \/ Refreshed(r) \/ FailureIgnored(r)
    BY <1>1, <2>2 DEF CheckRefreshes, BeginRefresh, CallRefresh, Refreshed, FailureIgnored
  <2>3. CASE \/ RefreshFailed(r) \/ RefreshRevoked(r) \/ UpdateAfterRevocation(r)
             \/ UpdateRegistry(r) \/ ReadRefreshAt(r) \/ SaveRefreshed(r)
    BY <1>1, <2>3 DEF RefreshFailed, RefreshRevoked, UpdateAfterRevocation, UpdateRegistry, UpdateEntry,
                      ReadRefreshAt, SaveRefreshed
  <2> QED BY <1>4, <2>1, <2>2, <2>3 DEF Refresh
<1>5. CASE Reload
  <2>1. CASE ScheduleReloaded
    BY <1>3, <2>1, CopyFields DEF ScheduleReloaded
  <2>2. CASE Scan \/ ApplyReload \/ UpdateReloaded \/ ReloadReadsRefreshAt \/ SaveReloaded
    BY <1>1, <2>2 DEF Scan, ApplyReload, UpdateReloaded, UpdateEntry, ReloadReadsRefreshAt, SaveReloaded
  <2> QED BY <1>5, <2>1, <2>2 DEF Reload, FinishReload
<1>6. CASE \/ Revoke \/ ComesDue \/ Expires \/ HoldEnds \/ CheckWithoutPermit
           \/ TimerFires \/ SignalTaken \/ FlushPending \/ SaveFlushed
  BY <1>1, <1>6 DEF Revoke, ComesDue, Expires, HoldEnds, CheckWithoutPermit, TimerFires, SignalTaken,
                    FlushPending, SaveFlushed
<1>7. ASSUME NEW g \in Renewal, ProcessNextRefresh(g) PROVE HeapInv'
  <2>1. /\ renewal[g].at = "idle" /\ renewal'[g].at = "start" /\ refreshing' = refreshing
        /\ \A h \in Renewal : h # g => renewal'[h] = renewal[h]
    BY <1>7 DEF ProcessNextRefresh, TypeOK, RenewalState
  <2> QED BY <2>1 DEF HeapInv, RenewalKept, AtWork, Holding, Working
<1>8. ASSUME NEW g \in Renewal, StartRenewal(g) PROVE HeapInv'
  <2>1. /\ renewal[g].at = "start" /\ scheduled' = scheduled
        /\ turnedAway' = (turnedAway \/ \E h \in Renewal : renewal[h].at = "release")
        /\ \A h \in Renewal : h # g => renewal'[h] = renewal[h]
    BY <1>8 DEF StartRenewal, TypeOK
  <2>2. CASE refreshing
    <3>1. PICK h \in Renewal : Holding(h)
      BY <2>2 DEF HeapInv
    <3>2. h # g /\ Holding(h)'
      BY <2>1, <3>1 DEF Holding, Working
    <3>3. turnedAway' \/ AtWork(h)'
      BY <2>1, <3>1, <3>2 DEF Holding, Working, AtWork
    <3> QED BY <3>2, <3>3 DEF HeapInv, RenewalKept
  <2>3. CASE ~refreshing
    <3>1. renewal'[g].at = "call"
      BY <1>8, <2>3 DEF StartRenewal, TypeOK
    <3> QED BY <3>1 DEF HeapInv, RenewalKept, AtWork, Holding, Working
  <2> QED BY <2>2, <2>3
<1>9. ASSUME NEW g \in Renewal, CallRenewal(g) PROVE HeapInv'
  <2>1. renewal'[g].at \in {"call", "granted", "failed"}
    BY <1>9 DEF CallRenewal, TypeOK, RenewalState, IdleRenewal
  <2> QED BY <2>1 DEF HeapInv, RenewalKept, AtWork, Holding, Working
<1>10. ASSUME NEW g \in Renewal, CommitRenewal(g) PROVE HeapInv'
  <2>1. renewal'[g].at = "schedule"
    BY <1>10 DEF CommitRenewal, TypeOK, RenewalState
  <2> QED BY <2>1 DEF HeapInv, RenewalKept, AtWork, Holding, Working
<1>11. ASSUME NEW g \in Renewal, ScheduleRenewal(g) \/ GiveUpRenewal(g) PROVE HeapInv'
  <2>1. renewal'[g].at = "release"
    BY <1>11 DEF ScheduleRenewal, GiveUpRenewal, TypeOK, RenewalState, IdleRenewal
  <2>2. \E t \in Token \cup {Retry} : Schedule(t)
    BY <1>11, RenewalFields DEF ScheduleRenewal, GiveUpRenewal
  <2> QED BY <1>2, <2>1, <2>2 DEF Holding
\* The flag is released by one who has written the heap.
<1>12. ASSUME NEW g \in Renewal, ReleaseRenewal(g) PROVE HeapInv'
  <2>1. /\ renewal[g].at = "release" /\ ~refreshing' /\ UNCHANGED <<scheduled, turnedAway>>
        /\ \A h \in Renewal : h # g => renewal'[h] = renewal[h]
    BY <1>12 DEF ReleaseRenewal, TypeOK
  <2> QED BY <2>1 DEF HeapInv, RenewalKept, AtWork
<1>13. CASE UNCHANGED vars
  BY <1>1, <1>13 DEF vars
<1> QED
  BY <1>4, <1>5, <1>6, <1>7, <1>8, <1>9, <1>10, <1>11, <1>12, <1>13 DEF Next, Renew

\* processNextRefresh takes the credential off the heap, and a doRefresh that finds
\* the flag set returns at once: for any number of them, one is left to put the
\* credential back, unless one was turned away by a flag whose holder had written
\* the heap already.
THEOREM RenewalNeverForgotten == Spec => []RenewalKept
<1>1. Init => HeapInv
  BY DEF Init, HeapInv, RenewalKept, None
<1>2. HeapInv => RenewalKept
  BY DEF HeapInv
<1> QED BY <1>1, <1>2, InitTypes, StepTypes, HeapStep, PTL DEF Spec

-----------------------------------------------------------------------------
(* The file                                                                *)

\* A renewal, or an Update, that has written the entry and will mark it.
Pending == \E g \in Renewal : renewal[g].at = "schedule"
Updating == (\E r \in Refresher : refresher[r].at \in {"read", "schedule"}) \/ reload.at \in {"read", "schedule"}

\* What the persist loop is saving is what the entry holds, or a mark will follow.
FlushCurrent == flushing = None \/ flushing = entry.token \/ dirty \/ missed \/ Pending \/ Updating

SaveInv == SavedInTheEnd /\ FlushCurrent

LEMMA SaveStep == TypeOK /\ SaveInv /\ [Next]_vars => SaveInv'
<1> SUFFICES ASSUME TypeOK, SaveInv, [Next]_vars PROVE SaveInv'
  OBVIOUS
<1> USE DEF provider, time, heap, registry, store, watcher, history
<1>0. None \notin Token
  BY DEF None, Token
<1>s. /\ \A r \in Refresher : refresher[r] \in RefresherState /\ refresher \in [Refresher -> RefresherState]
      /\ \A g \in Renewal : renewal[g] \in RenewalState /\ renewal \in [Renewal -> RenewalState]
      /\ reload \in ReloadState /\ entry \in EntryState
  BY DEF TypeOK
\* An Update has changed the entry and will mark it,
<1>u. ASSUME Updating' PROVE SaveInv'
  BY <1>u DEF SaveInv, SavedInTheEnd, FlushCurrent, Updating, Saving
\* has marked it,
<1>1. ASSUME NEW t, ScheduleUpdate(t) PROVE SaveInv'
  <2>1. dirty' \/ missed'
    BY <1>1, MarkTypes DEF ScheduleUpdate
  <2> QED BY <2>1 DEF SaveInv, SavedInTheEnd, FlushCurrent
\* has saved it,
<1>2. ASSUME NEW t, Save(t), UNCHANGED <<entry, renewal>>, Updating => Updating' PROVE SaveInv'
  <2>1. CASE missed' = TRUE
    BY <2>1 DEF SaveInv, SavedInTheEnd, FlushCurrent
  <2>2. CASE file' = t /\ t = entry.token /\ (flushing = None \/ ~missed)
    BY <1>2, <2>2 DEF Save, SaveInv, SavedInTheEnd, FlushCurrent, Pending
  <2> QED BY <1>2, <2>1, <2>2 DEF Save, TypeOK
\* or has not come so far.
<1>3. ASSUME UNCHANGED <<store, entry, renewal>>,
             \A r \in Refresher : refresher[r].at \in Saving => refresher'[r].at = refresher[r].at,
             reload.at \in Saving => reload'.at = reload.at
      PROVE  SaveInv'
  <2>1. Updating => Updating'
    BY <1>3 DEF Updating, Saving
  <2> QED BY <1>3, <2>1 DEF SaveInv, SavedInTheEnd, FlushCurrent, Pending, Saving
<1>4. ASSUME NEW r \in Refresher, CheckRefreshes(r) \/ Refresh(r) PROVE SaveInv'
  <2>1. CASE UpdateRegistry(r) \/ ReadRefreshAt(r)
    <3>1. refresher'[r].at \in {"read", "schedule"}
      BY <1>s, <2>1 DEF UpdateRegistry, ReadRefreshAt, Goes, RefresherState
    <3> QED BY <1>u, <3>1 DEF Updating
  <2>6. CASE ScheduleRefreshed(r)
    BY <1>1, <2>6 DEF ScheduleRefreshed
  <2>2. CASE SaveRefreshed(r)
    <3>1. Updating => Updating'
      BY <1>s, <2>2 DEF SaveRefreshed, Updating
    <3> QED BY <1>2, <2>2, <3>1 DEF SaveRefreshed
  <2>3. CASE CheckRefreshes(r) \/ BeginRefresh(r) \/ FailureIgnored(r) \/ RefreshFailed(r)
    BY <1>3, <1>s, <2>3 DEF CheckRefreshes, BeginRefresh, FailureIgnored, RefreshFailed, Goes, Saving
  <2>4. CASE CallRefresh(r)
    BY <1>3, <1>s, <2>4 DEF CallRefresh, Saving
  <2>5. CASE Refreshed(r) \/ RefreshRevoked(r) \/ UpdateAfterRevocation(r)
    <3>1. \A q \in Refresher : q # r => refresher'[q].at = refresher[q].at
      BY <1>s, <2>5, OutdatedTypes DEF Refreshed, RefreshRevoked, UpdateAfterRevocation
    <3>2. refresher[r].at \notin Saving
      BY <2>5 DEF Refreshed, RefreshRevoked, UpdateAfterRevocation, Saving
    <3> QED BY <1>3, <2>5, <3>1, <3>2 DEF Refreshed, RefreshRevoked, UpdateAfterRevocation
  <2> QED BY <1>4, <2>1, <2>2, <2>3, <2>4, <2>5, <2>6 DEF Refresh
<1>5. CASE Reload
  <2>1. CASE UpdateReloaded \/ ReloadReadsRefreshAt
    <3>1. reload'.at \in {"read", "schedule"}
      BY <1>s, <2>1 DEF UpdateReloaded, ReloadReadsRefreshAt, ReloadState
    <3> QED BY <1>u, <3>1 DEF Updating
  <2>5. CASE ScheduleReloaded
    BY <1>1, <2>5 DEF ScheduleReloaded
  <2>2. CASE SaveReloaded
    <3>1. Updating => Updating'
      BY <2>2 DEF SaveReloaded, Updating
    <3> QED BY <1>2, <2>2, <3>1 DEF SaveReloaded
  <2>3. CASE Scan
    BY <1>3, <2>3 DEF Scan, Saving
  <2>4. CASE ApplyReload
    <3>1. \A q \in Refresher : refresher'[q].at = refresher[q].at
      BY <2>4, OutdatedTypes DEF ApplyReload
    <3> QED BY <1>3, <2>4, <3>1 DEF ApplyReload, Saving
  <2> QED BY <1>5, <2>1, <2>2, <2>3, <2>4, <2>5 DEF Reload, FinishReload
<1>6. CASE Revoke \/ ComesDue \/ Expires \/ HoldEnds \/ CheckWithoutPermit \/ TimerFires \/ SignalTaken
  BY <1>3, <1>6 DEF Revoke, ComesDue, Expires, HoldEnds, CheckWithoutPermit, TimerFires, SignalTaken
<1>7. CASE FlushPending
  <2>1. flushing' = entry.token /\ entry.token # None /\ entry' = entry
    BY <1>0, <1>7, CopyFields DEF FlushPending
  <2>2. None' = None
    BY DEF None
  <2> HIDE DEF provider, time, heap, registry, store, watcher, history
  <2> QED BY <2>1, <2>2 DEF SaveInv, SavedInTheEnd, FlushCurrent
<1>8. CASE SaveFlushed
  <2>1. CASE missed'
    BY <2>1 DEF SaveInv, SavedInTheEnd, FlushCurrent
  <2>2. CASE file' = flushing /\ (~missed \/ flushing = entry.token)
    BY <1>8, <2>2 DEF SaveFlushed, SaveInv, SavedInTheEnd, FlushCurrent, Pending, Updating, Saving
  <2> QED BY <1>8, <2>1, <2>2 DEF SaveFlushed, TypeOK
<1>9. ASSUME NEW g \in Renewal, ProcessNextRefresh(g) \/ Renew(g) PROVE SaveInv'
  <2>1. CASE CommitRenewal(g)
    <3>1. renewal'[g].at = "schedule"
      BY <1>s, <2>1 DEF CommitRenewal, RenewalState
    <3> QED BY <3>1 DEF SaveInv, SavedInTheEnd, FlushCurrent, Pending
  <2>2. CASE ScheduleRenewal(g)
    <3>1. dirty' \/ missed'
      BY <2>2, MarkTypes DEF ScheduleRenewal
    <3> QED BY <3>1 DEF SaveInv, SavedInTheEnd, FlushCurrent
  <2>3. CASE \/ ProcessNextRefresh(g) \/ StartRenewal(g) \/ CallRenewal(g)
             \/ GiveUpRenewal(g) \/ ReleaseRenewal(g)
    <3>1. renewal[g].at # "schedule" /\ \A h \in Renewal : h # g => renewal'[h] = renewal[h]
      BY <1>s, <2>3 DEF ProcessNextRefresh, StartRenewal, CallRenewal, GiveUpRenewal, ReleaseRenewal
    <3>2. UNCHANGED <<store, entry, refresher, reload>>
      BY <2>3 DEF ProcessNextRefresh, StartRenewal, CallRenewal, GiveUpRenewal, ReleaseRenewal
    <3> QED BY <3>1, <3>2 DEF SaveInv, SavedInTheEnd, FlushCurrent, Pending, Updating
  <2> QED BY <1>9, <2>1, <2>2, <2>3 DEF Renew
<1>10. CASE UNCHANGED vars
  BY <1>3, <1>10 DEF vars
<1> QED
  BY <1>4, <1>5, <1>6, <1>7, <1>8, <1>9, <1>10 DEF Next

\* A renewed token reaches the file through a mark and a flush, an updated one
\* through a save of its own as well; whatever they do to each other, the file
\* follows the entry unless a mark or a save is lost or an Update saves too late.
THEOREM FileFollowsEntry == Spec => []SavedInTheEnd
<1>1. Init => SaveInv
  BY DEF Init, SaveInv, SavedInTheEnd, FlushCurrent
<1>2. SaveInv => SavedInTheEnd
  BY DEF SaveInv
<1> QED BY <1>1, <1>2, InitTypes, StepTypes, SaveStep, PTL DEF Spec

-----------------------------------------------------------------------------
(* The newest token                                                        *)

\* GrantKept is not inductive: that no step overwrites the newest token follows
\* from where it cannot be, which HandsInv says.
KeptInv == Bounded /\ (overlapped \/ Alone) /\ GrantKept

LEMMA Tokens ==
  ASSUME TypeOK
  PROVE  /\ grant \in Int /\ entry.token \in Int /\ auths.token \in Int /\ reload.token \in Int
         /\ file \in Int /\ flushing \in Int /\ 0 <= entry.token
         /\ \A r \in Refresher : refresher[r].token \in Int
         /\ \A g \in Renewal : renewal[g].token \in Int
<1>1. None \in Int /\ \A t \in Token : t \in Int /\ 0 <= t
  BY RefreshAssumption DEF Token, None
<1>2. grant \in Token /\ file \in Token /\ flushing \in Token \cup {None}
  BY DEF TypeOK
<1> QED BY <1>1, <1>2, CopyFields, RefresherFields, RenewalFields

\* What a refresh of the manager does to the others: nothing they notice.
SameBut(r) == \A q \in Refresher : q # r =>
  /\ refresher'[q].at = refresher[q].at
  /\ refresher'[q].token = refresher[q].token
  /\ refresher'[q].disabled = refresher[q].disabled

LEMMA SameAfter ==
  ASSUME TypeOK, NEW r \in Refresher
  PROVE  /\ \A v : refresher' = [refresher EXCEPT ![r] = v] => SameBut(r) /\ refresher'[r] = v
         /\ \A v : refresher' = [Outdated(refresher) EXCEPT ![r] = v] => SameBut(r) /\ refresher'[r] = v
<1>1. \A q \in Refresher : refresher[q] \in RefresherState
  BY DEF TypeOK
<1>2. \A q \in Refresher : /\ Outdated(refresher)[q].at = refresher[q].at
                           /\ Outdated(refresher)[q].token = refresher[q].token
                           /\ Outdated(refresher)[q].disabled = refresher[q].disabled
  BY <1>1 DEF Outdated, RefresherState
<1>3. Outdated(refresher) \in [Refresher -> RefresherState] /\ refresher \in [Refresher -> RefresherState]
  BY OutdatedTypes DEF TypeOK
<1> QED BY <1>2, <1>3 DEF SameBut

LEMMA KeptStep == TypeOK /\ KeptInv /\ [Next]_vars => KeptInv'
<1> SUFFICES ASSUME TypeOK, KeptInv, [Next]_vars PROVE KeptInv'
  OBVIOUS
<1> USE Tokens DEF provider, time, heap, registry, store, watcher, history
<1>s. /\ \A r \in Refresher : refresher[r] \in RefresherState /\ refresher \in [Refresher -> RefresherState]
      /\ \A g \in Renewal : renewal[g] \in RenewalState /\ renewal \in [Renewal -> RenewalState]
      /\ auths \in AuthState /\ reload \in ReloadState /\ entry \in EntryState
  BY DEF TypeOK
<1>b. overwritten \in BOOLEAN /\ \A r \in Refresher : refresher[r].disabled \in BOOLEAN
  BY RefresherFields DEF TypeOK
<1>w. ASSUME NEW B \in BOOLEAN, overwritten' = (overwritten \/ B)
      PROVE  (overwritten => overwritten') /\ (B => overwritten')
  BY <1>b, <1>w
<1>g. 0 <= grant
  BY DEF KeptInv, Bounded
<1>o. ASSUME NEW r \in Refresher, refresher' = [Outdated(refresher) EXCEPT ![r].at = "entry"]
      PROVE  /\ SameBut(r) /\ refresher'[r].at = "entry"
             /\ refresher'[r].token = refresher[r].token /\ refresher'[r].disabled = refresher[r].disabled
  <2>1. refresher' = [Outdated(refresher) EXCEPT ![r] = [Outdated(refresher)[r] EXCEPT !.at = "entry"]]
    BY <1>o, OutdatedTypes
  <2>2. Outdated(refresher)[r] = [refresher[r] EXCEPT !.current = FALSE]
    BY DEF Outdated
  <2>3. refresher'[r] = [Outdated(refresher)[r] EXCEPT !.at = "entry"] /\ SameBut(r)
    BY <2>1, SameAfter
  <2>4. \A v \in RefresherState : LET w == [[v EXCEPT !.current = FALSE] EXCEPT !.at = "entry"]
           IN w.at = "entry" /\ w.token = v.token /\ w.disabled = v.disabled
    BY DEF RefresherState
  <2> QED BY <1>s, <2>2, <2>3, <2>4
<1>1. ASSUME NEW r \in Refresher, CheckRefreshes(r) PROVE KeptInv'
  <2>1. SameBut(r) /\ refresher[r].at = "idle" /\ refresher'[r].at = "start" /\ refresher'[r].token = refresher[r].token
    BY <1>1, <1>s DEF CheckRefreshes, Goes, SameBut
  <2>2. auths'.token = auths.token /\ ~auths'.disabled
    BY <1>1, <1>s DEF CheckRefreshes, ShouldRefresh, AuthState
  <2>3. UNCHANGED <<grant, entry, renewal, file, flushing, reload, overwritten>>
    BY <1>1 DEF CheckRefreshes
  <2>4. overlapped' = (overlapped \/ \E q \in Refresher : refresher[q].at # "idle")
    BY <1>1 DEF CheckRefreshes
  <2>5. Bounded'
    BY <2>1, <2>2, <2>3 DEF KeptInv, Bounded, SameBut
  <2>6. GrantKept'
    BY <2>1, <2>2, <2>3, <2>4 DEF KeptInv, GrantKept, SameBut, InHand
  <2>7. ~overlapped' => Alone'
    BY <2>1, <2>2, <2>3, <2>4 DEF KeptInv, Alone, Single, InService, ManagerAlone, RegistryAlone, SameBut, InHand
  <2> QED BY <2>5, <2>6, <2>7 DEF KeptInv
<1>2. ASSUME NEW r \in Refresher, BeginRefresh(r) PROVE KeptInv'
  <2>1. /\ SameBut(r) /\ refresher[r].at = "start" /\ refresher'[r].at = "call"
        /\ refresher'[r].token = auths.token /\ refresher'[r].disabled = auths.disabled
    <3> DEFINE v == [at |-> "call", token |-> auths.token, disabled |-> auths.disabled,
                     current |-> TRUE, time |-> 0]
    <3>1. refresher' = [refresher EXCEPT ![r] = v] /\ refresher[r].at = "start"
      BY <1>2 DEF BeginRefresh
    <3>2. v.at = "call" /\ v.token = auths.token /\ v.disabled = auths.disabled
      OBVIOUS
    <3> HIDE DEF v
    <3>3. SameBut(r) /\ refresher'[r] = v
      BY <3>1, SameAfter
    <3> QED BY <3>1, <3>2, <3>3
  <2>2. UNCHANGED <<grant, auths, entry, renewal, file, flushing, reload, overlapped, overwritten>>
    BY <1>2 DEF BeginRefresh
  <2>3. Bounded'
    BY <2>1, <2>2 DEF KeptInv, Bounded, SameBut
  <2>4. GrantKept'
    BY <2>1, <2>2 DEF KeptInv, GrantKept, SameBut, InHand
  <2>5. ~overlapped' => Alone'
    BY <2>1, <2>2 DEF KeptInv, Alone, Single, InService, ManagerAlone, RegistryAlone, SameBut, InHand
  <2> QED BY <2>3, <2>4, <2>5 DEF KeptInv
<1>3. ASSUME NEW r \in Refresher, CallRefresh(r) PROVE KeptInv'
  <2>1. PICK answer \in {"granted", "invalid", "error"} :
          /\ Exchange(refresher[r].token, answer)
          /\ refresher' = [refresher EXCEPT ![r].at = answer,
                                            ![r].token = IF answer = "granted" THEN grant' ELSE 0]
    BY <1>3 DEF CallRefresh
  <2>2. /\ SameBut(r) /\ refresher[r].at = "call" /\ refresher'[r].at = answer
        /\ refresher'[r].token = (IF answer = "granted" THEN grant' ELSE 0)
        /\ refresher'[r].disabled = refresher[r].disabled
    BY <1>3, <1>s, <2>1 DEF CallRefresh, SameBut, RefresherState
  <2>3. UNCHANGED <<auths, entry, renewal, file, flushing, reload, overlapped, overwritten>>
    BY <1>3 DEF CallRefresh
  <2>4. CASE answer = "granted"
    <3>1. grant' = grant + 1 /\ refresher[r].token = grant
      BY <2>1, <2>4 DEF Exchange
    <3>2. Bounded'
      BY <2>2, <2>3, <2>4, <3>1 DEF KeptInv, Bounded, SameBut
    <3>3. GrantKept' \/ overlapped
      BY <2>2, <2>3, <2>4, <3>1 DEF KeptInv, Alone, InService, GrantKept, InHand
    <3>4. ~overlapped' => Alone'
      BY <2>2, <2>3, <2>4, <3>1
         DEF KeptInv, Bounded, Alone, Single, InService, ManagerAlone, RegistryAlone, SameBut, InHand
    <3> QED BY <2>3, <3>2, <3>3, <3>4 DEF KeptInv, GrantKept
  <2>5. CASE answer # "granted"
    <3>1. grant' = grant
      BY <2>1, <2>5 DEF Exchange
    <3>2. Bounded'
      BY <2>2, <2>3, <2>5, <3>1 DEF KeptInv, Bounded, SameBut
    <3>3. GrantKept'
      BY <2>2, <2>3, <2>5, <3>1 DEF KeptInv, GrantKept, InHand, SameBut
    <3>4. ~overlapped' => Alone'
      BY <2>2, <2>3, <2>5, <3>1
         DEF KeptInv, Bounded, Alone, Single, InService, ManagerAlone, RegistryAlone, SameBut, InHand
    <3> QED BY <3>2, <3>3, <3>4 DEF KeptInv
  <2> QED BY <2>4, <2>5
<1>4. ASSUME NEW r \in Refresher, Refreshed(r) PROVE KeptInv'
  <2>1. /\ SameBut(r) /\ refresher[r].at = "granted" /\ refresher'[r].at = "entry"
        /\ refresher'[r].token = refresher[r].token /\ refresher'[r].disabled = refresher[r].disabled
    BY <1>4, <1>o DEF Refreshed
  <2>2. auths'.token = refresher[r].token /\ auths'.disabled = refresher[r].disabled
    BY <1>4 DEF Refreshed
  <2>3. UNCHANGED <<grant, entry, renewal, file, flushing, reload, overlapped, overwritten>>
    BY <1>4 DEF Refreshed
  <2>4. Bounded'
    BY <2>1, <2>2, <2>3 DEF KeptInv, Bounded, SameBut
  <2>5. GrantKept'
    BY <2>1, <2>2, <2>3 DEF KeptInv, Alone, ManagerAlone, GrantKept, InHand
  <2>6. ~overlapped' => Alone'
    BY <2>1, <2>2, <2>3 DEF KeptInv, Alone, Single, InService, ManagerAlone, RegistryAlone, SameBut, InHand
  <2> QED BY <2>4, <2>5, <2>6 DEF KeptInv
<1>5. ASSUME NEW r \in Refresher, FailureIgnored(r) \/ RefreshFailed(r) PROVE KeptInv'
  <2>1. /\ SameBut(r) /\ refresher[r].at \in {"invalid", "error"} /\ refresher'[r].at = "idle"
        /\ refresher'[r].token = 0
    <3>1. refresher' = [refresher EXCEPT ![r] = IdleRefresher] /\ refresher[r].at \in {"invalid", "error"}
      BY <1>5 DEF FailureIgnored, RefreshFailed
    <3>2. SameBut(r) /\ refresher'[r] = IdleRefresher
      BY <3>1, SameAfter
    <3> QED BY <3>1, <3>2 DEF IdleRefresher
  <2>2. auths'.token = auths.token /\ auths'.disabled = auths.disabled
    BY <1>5, <1>s DEF FailureIgnored, RefreshFailed, AuthState
  <2>3. UNCHANGED <<grant, entry, renewal, file, flushing, reload, overlapped, overwritten>>
    BY <1>5 DEF FailureIgnored, RefreshFailed
  <2>4. Bounded'
    BY <2>1, <2>2, <2>3 DEF KeptInv, Bounded, SameBut
  <2>5. GrantKept'
    BY <2>1, <2>2, <2>3 DEF KeptInv, GrantKept, SameBut, InHand
  <2>6. ~overlapped' => Alone'
    BY <2>1, <2>2, <2>3 DEF KeptInv, Alone, Single, InService, ManagerAlone, RegistryAlone, SameBut, InHand
  <2> QED BY <2>4, <2>5, <2>6 DEF KeptInv
<1>6. ASSUME NEW r \in Refresher, RefreshRevoked(r) PROVE KeptInv'
  <2>1. /\ SameBut(r) /\ refresher[r].at = "invalid" /\ refresher'[r].at = "auths"
        /\ refresher'[r].token = auths.token /\ refresher'[r].disabled
    <3> DEFINE v == [at |-> "auths", token |-> auths.token, disabled |-> TRUE, current |-> FALSE, time |-> 0]
    <3>1. refresher' = [Outdated(refresher) EXCEPT ![r] = v] /\ refresher[r].at = "invalid"
      BY <1>6 DEF RefreshRevoked
    <3>2. v.at = "auths" /\ v.token = auths.token /\ v.disabled
      OBVIOUS
    <3> HIDE DEF v
    <3>3. SameBut(r) /\ refresher'[r] = v
      BY <3>1, SameAfter
    <3> QED BY <3>1, <3>2, <3>3
  <2>2. auths'.token = auths.token
    BY <1>6, <1>s DEF RefreshRevoked, AuthState
  <2>3. UNCHANGED <<grant, entry, renewal, file, flushing, reload, overlapped, overwritten>>
    BY <1>6 DEF RefreshRevoked
  <2>4. Bounded'
    BY <2>1, <2>2, <2>3 DEF KeptInv, Bounded, SameBut
  <2>5. GrantKept'
    BY <2>1, <2>2, <2>3 DEF KeptInv, GrantKept, SameBut, InHand
  <2>6. ~overlapped' => Alone'
    BY <2>1, <2>2, <2>3 DEF KeptInv, Alone, Single, InService, ManagerAlone, RegistryAlone, SameBut, InHand
  <2> QED BY <2>4, <2>5, <2>6 DEF KeptInv
<1>7. ASSUME NEW r \in Refresher, UpdateAfterRevocation(r) PROVE KeptInv'
  <2>1. /\ SameBut(r) /\ refresher[r].at = "auths" /\ refresher'[r].at = "entry"
        /\ refresher'[r].token = refresher[r].token /\ refresher'[r].disabled = refresher[r].disabled
    BY <1>7, <1>o DEF UpdateAfterRevocation
  <2>2. /\ auths'.token = refresher[r].token
        /\ overwritten' = (overwritten \/ refresher[r].token < auths.token)
    BY <1>7 DEF UpdateAfterRevocation
  <2>3. UNCHANGED <<grant, entry, renewal, file, flushing, reload, overlapped>>
    BY <1>7 DEF UpdateAfterRevocation
  <2>4. Bounded'
    BY <2>1, <2>2, <2>3 DEF KeptInv, Bounded, SameBut
  <2>5. GrantKept'
    <3>1. (overwritten => overwritten') /\ (refresher[r].token < auths.token => overwritten')
      BY <2>2, <1>w
    <3> QED BY <2>1, <2>2, <2>3, <3>1 DEF KeptInv, Bounded, GrantKept, SameBut, InHand
  <2>6. ~overlapped' => Alone'
    BY <2>1, <2>2, <2>3 DEF KeptInv, Alone, Single, InService, ManagerAlone, RegistryAlone, SameBut, InHand
  <2> QED BY <2>4, <2>5, <2>6 DEF KeptInv
<1>8. ASSUME NEW r \in Refresher, UpdateRegistry(r) PROVE KeptInv'
  <2>1. /\ SameBut(r) /\ refresher[r].at = "entry" /\ refresher'[r].at = "read"
        /\ refresher'[r].token = refresher[r].token
    <3>1. refresher' = [refresher EXCEPT ![r] = [refresher[r] EXCEPT !.at = "read"]]
      BY <1>8, <1>s DEF UpdateRegistry, Goes
    <3>2. SameBut(r) /\ refresher'[r] = [refresher[r] EXCEPT !.at = "read"]
      BY <3>1, SameAfter
    <3> QED BY <1>8, <1>s, <3>2 DEF UpdateRegistry, RefresherState
  <2>2. /\ entry'.token = refresher[r].token
        /\ overwritten' = (overwritten \/ (refresher[r].disabled /\ refresher[r].token < entry.token))
    BY <1>8 DEF UpdateRegistry, UpdateEntry
  <2>3. UNCHANGED <<grant, auths, renewal, file, flushing, reload, overlapped>>
    BY <1>8 DEF UpdateRegistry, UpdateEntry
  <2>4. Bounded'
    BY <2>1, <2>2, <2>3 DEF KeptInv, Bounded, SameBut
  <2>5. GrantKept'
    <3>1. CASE refresher[r].disabled
      <4>1. (overwritten => overwritten') /\ (refresher[r].token < entry.token => overwritten')
        BY <2>2, <3>1, <1>w
      <4> QED BY <2>1, <2>2, <2>3, <3>1, <4>1 DEF KeptInv, Bounded, GrantKept, SameBut, InHand
    <3>2. CASE ~refresher[r].disabled
      <4>1. overlapped \/ entry'.token = grant
        BY <2>1, <2>2, <3>2 DEF KeptInv, Alone, ManagerAlone, InHand
      <4> QED BY <2>3, <4>1 DEF GrantKept
    <3> QED BY <3>1, <3>2
  <2>6. ~overlapped' => Alone'
    BY <2>1, <2>2, <2>3 DEF KeptInv, Alone, Single, InService, ManagerAlone, RegistryAlone, SameBut, InHand
  <2> QED BY <2>4, <2>5, <2>6 DEF KeptInv
<1>9. ASSUME NEW r \in Refresher, SaveRefreshed(r) PROVE KeptInv'
  <2>1. /\ SameBut(r) /\ refresher[r].at = "save" /\ refresher'[r].at = "idle" /\ refresher'[r].token = 0
    <3>1. refresher' = [refresher EXCEPT ![r] = IdleRefresher] /\ refresher[r].at = "save"
      BY <1>9 DEF SaveRefreshed
    <3>2. SameBut(r) /\ refresher'[r] = IdleRefresher
      BY <3>1, SameAfter
    <3> QED BY <3>1, <3>2 DEF IdleRefresher
  <2>2. file' \in {file, refresher[r].token} /\ flushing' = flushing
    BY <1>9 DEF SaveRefreshed, Save
  <2>3. UNCHANGED <<grant, auths, entry, renewal, reload, overlapped, overwritten>>
    BY <1>9 DEF SaveRefreshed
  <2>4. Bounded'
    BY <2>1, <2>2, <2>3 DEF KeptInv, Bounded, SameBut
  <2>5. GrantKept'
    BY <2>1, <2>3 DEF KeptInv, GrantKept, SameBut, InHand
  <2>6. ~overlapped' => Alone'
    BY <2>1, <2>2, <2>3 DEF KeptInv, Alone, Single, InService, ManagerAlone, RegistryAlone, SameBut, InHand
  <2> QED BY <2>4, <2>5, <2>6 DEF KeptInv
\* The rest of an Update's way through the registry.
<1>15. ASSUME NEW r \in Refresher, ReadRefreshAt(r) \/ ScheduleRefreshed(r) PROVE KeptInv'
  <2>1. /\ SameBut(r) /\ refresher[r].at \in {"read", "schedule"} /\ refresher'[r].at \in {"schedule", "save"}
        /\ refresher'[r].token = refresher[r].token
    <3>1. CASE ReadRefreshAt(r)
      BY <1>s, <3>1 DEF ReadRefreshAt, SameBut, RefresherState
    <3>2. CASE ScheduleRefreshed(r)
      BY <1>s, <3>2 DEF ScheduleRefreshed, SameBut, RefresherState
    <3> QED BY <1>15, <3>1, <3>2
  <2>2. UNCHANGED <<grant, auths, entry, renewal, file, flushing, reload, overlapped, overwritten>>
    BY <1>15 DEF ReadRefreshAt, ScheduleRefreshed, ScheduleUpdate
  <2>3. Bounded'
    BY <2>1, <2>2 DEF KeptInv, Bounded, SameBut
  <2>4. GrantKept'
    BY <2>1, <2>2 DEF KeptInv, GrantKept, SameBut, InHand
  <2>5. ~overlapped' => Alone'
    BY <2>1, <2>2 DEF KeptInv, Alone, Single, InService, ManagerAlone, RegistryAlone, SameBut, InHand
  <2> QED BY <2>3, <2>4, <2>5 DEF KeptInv
\* The registry's refresh.
<1>10. ASSUME NEW g \in Renewal,
              \/ ProcessNextRefresh(g) \/ StartRenewal(g)
              \/ ScheduleRenewal(g) \/ GiveUpRenewal(g) \/ ReleaseRenewal(g)
       PROVE  KeptInv'
  <2>1. /\ \A h \in Renewal : h # g => renewal'[h] = renewal[h]
        /\ renewal[g].at # "granted" /\ renewal'[g].at # "granted"
        /\ renewal'[g].token \in {0, renewal[g].token, entry.token}
    <3>1. CASE ProcessNextRefresh(g)
      <4>1. renewal' = [renewal EXCEPT ![g] = [renewal[g] EXCEPT !.at = "start"]]
        BY <1>s, <3>1 DEF ProcessNextRefresh
      <4> QED BY <1>s, <3>1, <4>1 DEF ProcessNextRefresh, RenewalState
    <3>2. CASE StartRenewal(g)
      <4>1. CASE refreshing
        BY <1>s, <3>2, <4>1 DEF StartRenewal, IdleRenewal
      <4>2. CASE ~refreshing
        BY <1>s, <3>2, <4>2 DEF StartRenewal
      <4> QED BY <4>1, <4>2
    <3>3. CASE ScheduleRenewal(g) \/ GiveUpRenewal(g) \/ ReleaseRenewal(g)
      BY <1>s, <3>3 DEF ScheduleRenewal, GiveUpRenewal, ReleaseRenewal, IdleRenewal, RenewalState
    <3> QED BY <1>10, <3>1, <3>2, <3>3
  <2>2. UNCHANGED <<grant, auths, entry, refresher, file, flushing, reload, overlapped, overwritten>>
    BY <1>10 DEF ProcessNextRefresh, StartRenewal, ScheduleRenewal, GiveUpRenewal, ReleaseRenewal
  <2>3. Bounded'
    BY <2>1, <2>2 DEF KeptInv, Bounded
  <2>4. GrantKept'
    BY <2>1, <2>2 DEF KeptInv, GrantKept, InHand
  <2>5. ~overlapped' => Alone'
    BY <2>1, <2>2 DEF KeptInv, Alone, Single, InService, ManagerAlone, RegistryAlone, InHand
  <2> QED BY <2>3, <2>4, <2>5 DEF KeptInv
<1>11. ASSUME NEW g \in Renewal, CallRenewal(g) PROVE KeptInv'
  <2>1. PICK answer \in {"granted", "invalid", "error"} :
          /\ Exchange(renewal[g].token, answer)
          /\ renewal' = [renewal EXCEPT ![g] =
               IF answer = "granted" THEN [@ EXCEPT !.at = answer, !.token = grant']
               ELSE IF @.attempt = Attempts THEN [IdleRenewal EXCEPT !.at = "failed"]
               ELSE [@ EXCEPT !.attempt = renewal[g].attempt + 1]]
    BY <1>11 DEF CallRenewal
  <2>2. (\A h \in Renewal : h # g => renewal'[h] = renewal[h]) /\ renewal[g].at = "call"
    BY <1>11, <1>s, <2>1 DEF CallRenewal
  <2>3. UNCHANGED <<auths, entry, refresher, file, flushing, reload, overlapped, overwritten>>
    BY <1>11 DEF CallRenewal
  <2>4. CASE answer = "granted"
    <3>1. grant' = grant + 1 /\ renewal[g].token = grant
      BY <2>1, <2>4 DEF Exchange
    <3>2. renewal'[g] = [renewal[g] EXCEPT !.at = "granted", !.token = grant']
      BY <1>s, <2>1, <2>4
    <3>3. renewal'[g].at = "granted" /\ renewal'[g].token = grant'
      BY <1>s, <3>2 DEF RenewalState
    <3>4. Bounded'
      BY <2>2, <2>3, <3>1, <3>3 DEF KeptInv, Bounded
    <3>5. GrantKept'
      BY <3>3 DEF GrantKept
    <3>6. ~overlapped' => Alone'
      BY <2>2, <2>3, <3>1, <3>3
         DEF KeptInv, Bounded, Alone, Single, InService, ManagerAlone, RegistryAlone, InHand
    <3> QED BY <3>4, <3>5, <3>6 DEF KeptInv
  <2>5. CASE answer # "granted"
    <3>1. grant' = grant
      BY <2>1, <2>5 DEF Exchange
    <3>2. renewal'[g].at # "granted" /\ renewal'[g].token \in {0, renewal[g].token}
      BY <1>s, <2>1, <2>2, <2>5 DEF RenewalState, IdleRenewal
    <3>3. Bounded'
      BY <2>2, <2>3, <3>1, <3>2 DEF KeptInv, Bounded
    <3>4. GrantKept'
      BY <2>2, <2>3, <3>1, <3>2 DEF KeptInv, GrantKept, InHand
    <3>5. ~overlapped' => Alone'
      BY <2>2, <2>3, <3>1, <3>2
         DEF KeptInv, Alone, Single, InService, ManagerAlone, RegistryAlone, InHand
    <3> QED BY <3>3, <3>4, <3>5 DEF KeptInv
  <2> QED BY <2>4, <2>5
<1>12. ASSUME NEW g \in Renewal, CommitRenewal(g) PROVE KeptInv'
  <2>1. /\ \A h \in Renewal : h # g => renewal'[h] = renewal[h]
        /\ renewal[g].at = "granted" /\ renewal'[g].at = "schedule" /\ renewal'[g].token = renewal[g].token
    <3>1. renewal' = [renewal EXCEPT ![g] = [renewal[g] EXCEPT !.at = "schedule"]]
      BY <1>12, <1>s DEF CommitRenewal
    <3> QED BY <1>12, <1>s, <3>1 DEF CommitRenewal, RenewalState
  <2>2. entry'.token = renewal[g].token
    BY <1>12, <1>s DEF CommitRenewal, EntryState
  <2>3. UNCHANGED <<grant, auths, refresher, file, flushing, reload, overlapped, overwritten>>
    BY <1>12 DEF CommitRenewal
  <2>4. Bounded'
    BY <2>1, <2>2, <2>3 DEF KeptInv, Bounded
  <2>5. GrantKept'
    BY <2>1, <2>2, <2>3 DEF KeptInv, Alone, RegistryAlone, GrantKept
  <2>6. ~overlapped' => Alone'
    BY <2>1, <2>2, <2>3 DEF KeptInv, Alone, Single, InService, ManagerAlone, RegistryAlone, InHand
  <2> QED BY <2>4, <2>5, <2>6 DEF KeptInv
\* The persist loop, the watcher and the rest.
<1>13. CASE Reload \/ FlushPending \/ SaveFlushed
  <2>1. UNCHANGED <<grant, renewal, overlapped>> /\ \A q \in Refresher :
          /\ refresher'[q].at = refresher[q].at /\ refresher'[q].token = refresher[q].token
          /\ refresher'[q].disabled = refresher[q].disabled
    <3>1. refresher' = refresher \/ refresher' = Outdated(refresher)
      BY <1>13 DEF Reload, FinishReload, Scan, ApplyReload, UpdateReloaded, ReloadReadsRefreshAt,
             ScheduleReloaded, SaveReloaded, FlushPending, SaveFlushed
    <3>2. \A q \in Refresher : /\ Outdated(refresher)[q].at = refresher[q].at
                               /\ Outdated(refresher)[q].token = refresher[q].token
                               /\ Outdated(refresher)[q].disabled = refresher[q].disabled
      BY <1>s DEF Outdated, RefresherState
    <3>3. UNCHANGED <<grant, renewal, overlapped>>
      BY <1>13 DEF Reload, FinishReload, Scan, ApplyReload, UpdateReloaded, ReloadReadsRefreshAt,
             ScheduleReloaded, SaveReloaded, FlushPending, SaveFlushed, UpdateEntry, ScheduleUpdate
    <3> QED BY <3>1, <3>2, <3>3
  <2>2. /\ file' \in {file, reload.token} \/ (file' = flushing /\ flushing # None)
        /\ flushing' \in {flushing, entry.token, None}
        /\ reload'.token \in {0, reload.token, file}
    <3>1. CASE Scan
      BY <3>1 DEF Scan
    <3>2. CASE ApplyReload \/ UpdateReloaded \/ ReloadReadsRefreshAt \/ ScheduleReloaded
      BY <1>s, <3>2 DEF ApplyReload, UpdateReloaded, ReloadReadsRefreshAt, ScheduleReloaded,
                        UpdateEntry, ScheduleUpdate, ReloadState
    <3>3. CASE SaveReloaded
      BY <3>3 DEF SaveReloaded, Save, NoReload
    <3>4. CASE FlushPending \/ SaveFlushed
      BY <3>4 DEF FlushPending, SaveFlushed
    <3> QED BY <1>13, <3>1, <3>2, <3>3, <3>4 DEF Reload, FinishReload
  <2>3. \/ auths' = auths
        \/ /\ auths'.token = reload.token /\ ~auths'.disabled
           /\ reload.token < auths.token => overwritten'
    <3>1. CASE ApplyReload
      <4>1. auths'.token = reload.token /\ ~auths'.disabled
        BY <1>s, <3>1 DEF ApplyReload, AuthState
      <4>2. reload.token < auths.token => overwritten'
        BY <3>1, <1>w DEF ApplyReload
      <4> QED BY <4>1, <4>2
    <3>2. CASE \/ Scan \/ UpdateReloaded \/ ReloadReadsRefreshAt \/ ScheduleReloaded \/ SaveReloaded
               \/ FlushPending \/ SaveFlushed
      BY <3>2 DEF Scan, UpdateReloaded, ReloadReadsRefreshAt, ScheduleReloaded, SaveReloaded,
                  FlushPending, SaveFlushed
    <3> QED BY <1>13, <3>1, <3>2 DEF Reload, FinishReload
  <2>4. \/ entry' = entry
        \/ /\ entry'.token = reload.token
           /\ reload.token < entry.token => overwritten'
    <3>1. CASE UpdateReloaded
      <4>1. entry'.token = reload.token
        BY <3>1 DEF UpdateReloaded, UpdateEntry
      <4>2. reload.token < entry.token => overwritten'
        BY <3>1, <1>w DEF UpdateReloaded
      <4> QED BY <4>1, <4>2
    <3>2. CASE \/ Scan \/ ApplyReload \/ ReloadReadsRefreshAt \/ ScheduleReloaded \/ SaveReloaded
               \/ FlushPending \/ SaveFlushed
      BY <3>2 DEF Scan, ApplyReload, ReloadReadsRefreshAt, ScheduleReloaded, SaveReloaded,
                  FlushPending, SaveFlushed, ScheduleUpdate
    <3> QED BY <1>13, <3>1, <3>2 DEF Reload, FinishReload
  <2>5. overwritten => overwritten'
    BY <1>13 DEF Reload, FinishReload, Scan, ApplyReload, UpdateReloaded, ReloadReadsRefreshAt,
             ScheduleReloaded, SaveReloaded, FlushPending, SaveFlushed
  <2>6. Bounded'
    <3>1. auths'.token \in {auths.token, reload.token} /\ entry'.token \in {entry.token, reload.token}
      BY <2>3, <2>4
    <3>2. file' <= grant /\ flushing' <= grant /\ reload'.token <= grant
      <4>1. None <= grant
        BY <1>g DEF None
      <4> QED BY <2>2, <4>1, <1>g DEF KeptInv, Bounded
    <3> QED BY <2>1, <3>1, <3>2 DEF KeptInv, Bounded
  <2>7. GrantKept'
    BY <2>1, <2>3, <2>4, <2>5 DEF KeptInv, Bounded, GrantKept, InHand
  <2>8. ~overlapped' => Alone'
    <3>1. SUFFICES ASSUME ~overlapped PROVE Alone'
      BY <2>1
    <3>2. auths'.token \in {auths.token, reload.token} /\ entry'.token \in {entry.token, reload.token}
          /\ (auths.disabled => auths' = auths \/ ~auths'.disabled) /\ (~auths.disabled => ~auths'.disabled)
      BY <2>3, <2>4
    <3>3. ASSUME entry.token < grant, file < grant, flushing < grant, reload.token < grant
          PROVE  entry'.token < grant /\ file' < grant /\ flushing' < grant /\ reload'.token < grant
      <4>1. 0 < grant /\ None < grant
        BY <1>g, <3>3 DEF None
      <4> QED BY <2>2, <3>2, <3>3, <4>1
    <3>4. Single'
      BY <2>1, <3>1 DEF KeptInv, Alone, Single
    <3>5. InService'
      BY <2>1, <3>1, <3>2 DEF KeptInv, Alone, InService
    <3>6. ManagerAlone'
      BY <2>1, <3>1, <3>3 DEF KeptInv, Alone, ManagerAlone, InHand
    <3>7. RegistryAlone'
      BY <2>1, <3>1, <3>2, <3>3 DEF KeptInv, Alone, RegistryAlone
    <3> QED BY <3>4, <3>5, <3>6, <3>7 DEF Alone
  <2> QED BY <2>6, <2>7, <2>8 DEF KeptInv
<1>14. CASE \/ Revoke \/ ComesDue \/ Expires \/ HoldEnds \/ CheckWithoutPermit
            \/ TimerFires \/ SignalTaken \/ UNCHANGED vars
  <2>1. UNCHANGED <<grant, entry, refresher, renewal, file, flushing, reload, overlapped, overwritten>>
    BY <1>14 DEF Revoke, ComesDue, Expires, HoldEnds, CheckWithoutPermit, TimerFires, SignalTaken, vars
  <2>2. auths'.token = auths.token /\ auths'.disabled = auths.disabled
    BY <1>14, <1>s DEF Revoke, ComesDue, Expires, HoldEnds, CheckWithoutPermit, TimerFires, SignalTaken, vars, AuthState
  <2> QED BY <2>1, <2>2 DEF KeptInv, Bounded, GrantKept, Alone, Single, InService, ManagerAlone, RegistryAlone, InHand
<1> QED
  BY <1>1, <1>2, <1>3, <1>4, <1>5, <1>6, <1>7, <1>8, <1>9, <1>10, <1>11, <1>12, <1>13, <1>14, <1>15
     DEF Next, Refresh, Renew


\* Two loops present the tokens of two copies of a rotating credential, and each
\* writes its copies in several steps: while the manager's refreshes do not overlap
\* and no older token has been put over a newer one, the token the provider accepts
\* is never lost, for any number of permits, goroutines, rotations and scans.
THEOREM NewestTokenKept == Spec => []GrantKept
<1>1. Init => KeptInv
  BY DEF Init, KeptInv, Bounded, Alone, Single, InService, ManagerAlone, RegistryAlone, GrantKept,
         InHand, IdleRefresher, IdleRenewal, NoReload, None
<1>2. KeptInv => GrantKept
  BY DEF KeptInv
<1> QED BY <1>1, <1>2, InitTypes, StepTypes, KeptStep, PTL DEF Spec

=============================================================================
