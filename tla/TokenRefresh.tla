---------------------------- MODULE TokenRefresh ----------------------------
(***************************************************************************)
(* The two loops that renew the OAuth token of a credential.               *)
(*                                                                         *)
(*   Manager (manager.go, refresh.go)  keeps a copy of the credential in   *)
(*       m.auths; checkRefreshes decides from the registry's entry whether *)
(*       the token is due and refreshAuth presents the token of the copy.  *)
(*       Manager.Update writes the copy, then the entry, then the file.    *)
(*   AuthRegistry (auth_registry.go)   keeps the entry; refreshLoop takes  *)
(*       what is due from a heap of times and doRefresh presents the token *)
(*       of the entry.  It writes the entry alone and marks it for the     *)
(*       persist loop, which saves it.                                     *)
(*   Watcher                           reads the file again now and then,  *)
(*       ignoring the event of the program's own writes, and hands on what *)
(*       differs from what it saw before.                                  *)
(*                                                                         *)
(* One credential of a provider that rotates: a refresh token is good for  *)
(* one refresh, whose answer carries the next one.  Tokens are numbered in *)
(* the order they are issued, so a lower number expires earlier, and time  *)
(* is the number of the last token that is about to expire: dueAt for the  *)
(* manager's lead time, expiring for the registry's five minutes.          *)
(***************************************************************************)
EXTENDS Integers, FiniteSets

CONSTANTS
  Refresher,     \* the manager's permits to refresh (maxConcurrentRefreshes)
  Renewal,       \* goroutines of doRefresh
  Attempts,      \* attempts of one doRefresh
  MayRevoke,     \* the user may revoke
  MaxRotations,  \* bound: tokens issued
  MaxExpired,    \* bound: tokens that come due for the registry
  MaxErrors,     \* bound: transient errors of the provider
  MaxScans       \* bound: scans of the watcher that find the file changed

None == -1          \* no token: none is due, none is being saved, the heap is empty
Retry == -2         \* the heap holds the time of a retry, a minute away
Token == 0..MaxRotations

ASSUME RefreshAssumption ==
  /\ IsFiniteSet(Refresher) /\ Refresher # {}
  /\ IsFiniteSet(Renewal) /\ Renewal # {}
  /\ Attempts \in Nat \ {0}
  /\ MayRevoke \in BOOLEAN
  /\ MaxRotations \in Nat /\ MaxExpired \in Nat /\ MaxErrors \in Nat /\ MaxScans \in Nat

VARIABLES
  grant,      \* the token the provider accepts
  revoked,    \* the user has withdrawn the provider's consent
  errors,     \* transient errors so far
  dueAt,      \* tokens up to this one are due for the manager
  expiring,   \* tokens up to this one are due for the registry
  auths,      \* m.auths: the manager's copy
  refresher,  \* the refreshes of the manager
  entry,      \* the registry's entry
  refreshAt,  \* the token whose expiry Token.RefreshAt was computed from
  scheduled,  \* what the refresh heap holds for the credential
  fired,      \* the timer of refreshLoop has fired
  refreshing, \* Token.Refreshing
  renewal,    \* the refreshes of the registry
  dirty,      \* the credential is queued or batched for the persist loop
  flushing,   \* the token the persist loop is saving
  file,       \* the credential file
  seen,       \* the token of the watcher's last scan
  scans,      \* scans so far
  reload,     \* an update of the watcher on its way
  turnedAway, \* history: since the heap was last written, a goroutine has found the
              \* flag set by another that had written it already
  missed,     \* history: since the last save of what the entry holds, a mark was
              \* dropped, a save failed, or a token was saved that was out of date
  overlapped, \* history: two refreshes of the manager have overlapped
  overwritten \* history: a revocation or a scan has put an older token over a
              \* newer one

provider == <<grant, revoked, errors>>
time == <<dueAt, expiring>>
heap == <<scheduled, fired, turnedAway>>
registry == <<entry, refreshAt, heap, refreshing, renewal>>
store == <<dirty, flushing, file, missed>>
watcher == <<seen, scans, reload>>
history == <<overlapped, overwritten>>
vars == <<grant, revoked, errors, dueAt, expiring, auths, refresher, entry, refreshAt, scheduled, fired,
          turnedAway, refreshing, renewal, dirty, flushing, file, missed, seen, scans, reload, overlapped, overwritten>>

IdleRefresher == [at |-> "idle", token |-> 0, disabled |-> FALSE, current |-> FALSE, time |-> 0]
IdleRenewal == [at |-> "idle", token |-> 0, attempt |-> 0]
NoReload == [at |-> "idle", token |-> 0, time |-> 0]

\* The credential has just been loaded with its first token.
Init ==
  /\ grant = 0 /\ revoked = FALSE /\ errors = 0
  /\ dueAt = None /\ expiring = None
  /\ auths = [token |-> 0, disabled |-> FALSE, held |-> FALSE]
  /\ entry = [token |-> 0, disabled |-> FALSE]
  /\ refresher = [r \in Refresher |-> IdleRefresher]
  /\ refreshAt = 0 /\ refreshing = FALSE
  /\ scheduled = 0 /\ fired = FALSE /\ turnedAway = FALSE
  /\ renewal = [g \in Renewal |-> IdleRenewal]
  /\ dirty = FALSE /\ flushing = None /\ file = 0 /\ missed = FALSE
  /\ seen = 0 /\ scans = 0 /\ reload = NoReload
  /\ overlapped = FALSE /\ overwritten = FALSE

-----------------------------------------------------------------------------
(* The provider and the passing of time                                    *)

\* The user withdraws the consent: no token is accepted any more.
Revoke ==
  /\ MayRevoke /\ ~revoked
  /\ revoked' = TRUE
  /\ UNCHANGED <<grant, errors, time, auths, refresher, registry, store, watcher, history>>

\* The token t is presented and the provider answers.
Exchange(t, answer) ==
  /\ UNCHANGED revoked
  /\ \/ /\ answer = "granted"
        /\ t = grant /\ ~revoked /\ grant < MaxRotations
        /\ grant' = grant + 1
        /\ UNCHANGED errors
     \/ /\ answer = "invalid"
        /\ t # grant \/ revoked
        /\ UNCHANGED <<grant, errors>>
     \/ /\ answer = "error"
        /\ errors < MaxErrors
        /\ errors' = errors + 1
        /\ UNCHANGED grant

ComesDue ==
  /\ dueAt < grant
  /\ dueAt' = dueAt + 1
  /\ UNCHANGED <<provider, expiring, auths, refresher, registry, store, watcher, history>>

Expires ==
  /\ expiring < grant /\ expiring + 1 < MaxExpired
  /\ expiring' = expiring + 1
  /\ UNCHANGED <<provider, dueAt, auths, refresher, registry, store, watcher, history>>

\* NextRefreshAfter passes: a minute after a refresh began, five after one failed.
HoldEnds ==
  /\ auths.held
  /\ auths' = [auths EXCEPT !.held = FALSE]
  /\ UNCHANGED <<provider, time, refresher, registry, store, watcher, history>>

-----------------------------------------------------------------------------
(* Manager.Update writes the copy, the entry and the file one after the    *)
(* other, and holds no lock from one to the next.                          *)

\* A new copy has another UpdatedAt than the refreshes under way have read.
Outdated(rs) == [r \in Refresher |-> [rs[r] EXCEPT !.current = FALSE]]

\* markDirty: a mark is dropped when other credentials fill the persist queue.
MarkDirty ==
  \/ dirty' = TRUE /\ UNCHANGED missed
  \/ dirty' = dirty /\ missed' = (missed \/ ~dirty)

\* scheduleRefresh: whatever the heap held for the credential is replaced.
Schedule(t) ==
  /\ scheduled' = t /\ turnedAway' = FALSE
  /\ UNCHANGED fired

\* AuthRegistry.Update: metadata and disabled flag of the entry are replaced,
UpdateEntry(token, disabled) ==
  /\ entry' = [token |-> token, disabled |-> disabled]
  /\ UNCHANGED <<refreshAt, heap, refreshing, renewal, store>>

\* and after the RefreshAt there is has been read, the refresh is scheduled by it
\* and the credential is marked.
ScheduleUpdate(t) ==
  /\ Schedule(t)
  /\ MarkDirty
  /\ UNCHANGED <<entry, refreshAt, refreshing, renewal, flushing, file>>

\* The token is saved as it was handed to Update, or the save fails.
Save(token) ==
  /\ \/ file' = token /\ missed' = (token # entry.token \/ (missed /\ flushing # None))
     \/ file' = file /\ missed' = TRUE
  /\ UNCHANGED <<dirty, flushing>>

-----------------------------------------------------------------------------
(* The manager's refresh                                                   *)

Goes(r, place) == refresher' = [refresher EXCEPT ![r].at = place]

\* checkRefreshes finds the token of the entry due, markRefreshPending holds off
\* further refreshes, and a goroutine is started if there is a permit left.
ShouldRefresh ==
  /\ ~entry.disabled /\ entry.token <= dueAt
  /\ ~auths.disabled /\ ~auths.held

CheckRefreshes(r) ==
  /\ ShouldRefresh
  /\ refresher[r].at = "idle"
  /\ Goes(r, "start")
  /\ overlapped' = (overlapped \/ \E q \in Refresher : refresher[q].at # "idle")
  /\ auths' = [auths EXCEPT !.held = TRUE]
  /\ UNCHANGED <<provider, time, registry, store, watcher, overwritten>>

CheckWithoutPermit ==
  /\ ShouldRefresh
  /\ \A r \in Refresher : refresher[r].at # "idle"
  /\ auths' = [auths EXCEPT !.held = TRUE]
  /\ UNCHANGED <<provider, time, refresher, registry, store, watcher, history>>

\* refreshAuth clones the copy and remembers its UpdatedAt.
BeginRefresh(r) ==
  /\ refresher[r].at = "start"
  /\ refresher' = [refresher EXCEPT ![r] =
       [at |-> "call", token |-> auths.token, disabled |-> auths.disabled, current |-> TRUE, time |-> 0]]
  /\ UNCHANGED <<provider, time, auths, registry, store, watcher, history>>

CallRefresh(r) ==
  /\ refresher[r].at = "call"
  /\ \E answer \in {"granted", "invalid", "error"} :
       /\ Exchange(refresher[r].token, answer)
       /\ refresher' = [refresher EXCEPT ![r].at = answer,
                                         ![r].token = IF answer = "granted" THEN grant' ELSE 0]
  /\ UNCHANGED <<time, auths, registry, store, watcher, history>>

\* Success, and the first step of its Update.
Refreshed(r) ==
  /\ refresher[r].at = "granted"
  /\ auths' = [token |-> refresher[r].token, disabled |-> refresher[r].disabled, held |-> FALSE]
  /\ refresher' = [Outdated(refresher) EXCEPT ![r].at = "entry"]
  /\ UNCHANGED <<provider, time, registry, store, watcher, history>>

\* A failure of a copy that has been replaced meanwhile is ignored.
FailureIgnored(r) ==
  /\ refresher[r].at \in {"invalid", "error"}
  /\ ~refresher[r].current
  /\ refresher' = [refresher EXCEPT ![r] = IdleRefresher]
  /\ UNCHANGED <<provider, time, auths, registry, store, watcher, history>>

RefreshFailed(r) ==
  /\ refresher[r].at = "error" /\ refresher[r].current
  /\ auths' = [auths EXCEPT !.held = TRUE]
  /\ refresher' = [refresher EXCEPT ![r] = IdleRefresher]
  /\ UNCHANGED <<provider, time, registry, store, watcher, history>>

\* Mutant: invalid_grant is taken for a passing failure.
RevokedIsFailure(r) ==
  /\ refresher[r].at = "invalid" /\ refresher[r].current
  /\ auths' = [auths EXCEPT !.held = TRUE]
  /\ refresher' = [refresher EXCEPT ![r] = IdleRefresher]
  /\ UNCHANGED <<provider, time, registry, store, watcher, history>>

\* invalid_grant: the copy is disabled in place, then handed to Update.
RefreshRevoked(r) ==
  /\ refresher[r].at = "invalid" /\ refresher[r].current
  /\ auths' = [auths EXCEPT !.disabled = TRUE]
  /\ refresher' = [Outdated(refresher) EXCEPT
       ![r] = [at |-> "auths", token |-> auths.token, disabled |-> TRUE, current |-> FALSE, time |-> 0]]
  /\ UNCHANGED <<provider, time, registry, store, watcher, history>>

UpdateAfterRevocation(r) ==
  /\ refresher[r].at = "auths"
  /\ auths' = [token |-> refresher[r].token, disabled |-> TRUE, held |-> auths.held]
  /\ overwritten' = (overwritten \/ refresher[r].token < auths.token)
  /\ refresher' = [Outdated(refresher) EXCEPT ![r].at = "entry"]
  /\ UNCHANGED <<provider, time, registry, store, watcher, overlapped>>

\* The further steps of both Updates.
UpdateRegistry(r) ==
  /\ refresher[r].at = "entry"
  /\ UpdateEntry(refresher[r].token, refresher[r].disabled)
  /\ overwritten' = (overwritten \/ (refresher[r].disabled /\ refresher[r].token < entry.token))
  /\ Goes(r, "read")
  /\ UNCHANGED <<provider, time, auths, watcher, overlapped>>

ReadRefreshAt(r) ==
  /\ refresher[r].at = "read"
  /\ refresher' = [refresher EXCEPT ![r].at = "schedule", ![r].time = refreshAt]
  /\ UNCHANGED <<provider, time, auths, registry, store, watcher, history>>

ScheduleRefreshed(r) ==
  /\ refresher[r].at = "schedule"
  /\ ScheduleUpdate(refresher[r].time)
  /\ refresher' = [refresher EXCEPT ![r].at = "save", ![r].time = 0]
  /\ UNCHANGED <<provider, time, auths, watcher, history>>

SaveRefreshed(r) ==
  /\ refresher[r].at = "save"
  /\ Save(refresher[r].token)
  /\ refresher' = [refresher EXCEPT ![r] = IdleRefresher]
  /\ UNCHANGED <<provider, time, auths, registry, watcher, history>>

-----------------------------------------------------------------------------
(* The registry's refresh                                                  *)

\* refreshLoop waits for the earliest time of the heap,
Due == scheduled = Retry \/ (scheduled \in Token /\ scheduled <= expiring)

TimerFires ==
  /\ Due /\ ~fired
  /\ fired' = TRUE
  /\ UNCHANGED <<provider, time, auths, refresher, entry, refreshAt, scheduled, turnedAway,
                 refreshing, renewal, store, watcher, history>>

\* and of a timer that has fired and a signal that the heap has changed it may
\* take the signal, and look again,
SignalTaken ==
  /\ fired /\ ~Due
  /\ fired' = FALSE
  /\ UNCHANGED <<provider, time, auths, refresher, entry, refreshAt, scheduled, turnedAway,
                 refreshing, renewal, store, watcher, history>>

\* or the timer: processNextRefresh takes from the heap what is there by now, due
\* or not, and starts doRefresh.
ProcessNextRefresh(g) ==
  /\ fired
  /\ renewal[g].at = "idle"
  /\ scheduled' = None /\ fired' = FALSE
  /\ renewal' = [renewal EXCEPT ![g].at = "start"]
  /\ UNCHANGED <<provider, time, auths, refresher, entry, refreshAt, turnedAway, refreshing,
                 store, watcher, history>>

\* doRefresh: a second one returns, the first reads the entry.
StartRenewal(g) ==
  /\ renewal[g].at = "start"
  /\ refreshing' = TRUE
  /\ turnedAway' = (turnedAway \/ \E h \in Renewal : renewal[h].at = "release")
  /\ renewal' = [renewal EXCEPT ![g] = IF refreshing THEN IdleRenewal
                  ELSE [at |-> "call", token |-> entry.token, attempt |-> 1]]
  /\ UNCHANGED <<provider, time, auths, refresher, entry, refreshAt, scheduled, fired, store, watcher, history>>

\* One attempt.  A failure of whatever kind is tried again with the same token.
CallRenewal(g) ==
  /\ renewal[g].at = "call"
  /\ \E answer \in {"granted", "invalid", "error"} :
       /\ Exchange(renewal[g].token, answer)
       /\ renewal' = [renewal EXCEPT ![g] =
            IF answer = "granted" THEN [@ EXCEPT !.at = answer, !.token = grant']
            ELSE IF @.attempt = Attempts THEN [IdleRenewal EXCEPT !.at = "failed"]
            ELSE [@ EXCEPT !.attempt = renewal[g].attempt + 1]]
  /\ UNCHANGED <<time, auths, refresher, entry, refreshAt, heap, refreshing, store, watcher, history>>

\* Mutant: what the entry has goes before what the answer has.
CommitOldFirst(g) ==
  /\ renewal[g].at = "granted"
  /\ renewal' = [renewal EXCEPT ![g].at = "schedule"]
  /\ UNCHANGED <<provider, time, auths, refresher, entry, refreshAt, heap, refreshing, store, watcher, history>>

\* Success: the answer is merged into the metadata of the entry,
CommitRenewal(g) ==
  /\ renewal[g].at = "granted"
  /\ entry' = [entry EXCEPT !.token = renewal[g].token]
  /\ renewal' = [renewal EXCEPT ![g].at = "schedule"]
  /\ UNCHANGED <<provider, time, auths, refresher, refreshAt, heap, refreshing, store, watcher, history>>

\* Mutant: a renewed credential is not marked.
ScheduleUnmarked(g) ==
  /\ renewal[g].at = "schedule"
  /\ refreshAt' = renewal[g].token
  /\ Schedule(renewal[g].token)
  /\ renewal' = [renewal EXCEPT ![g] = [IdleRenewal EXCEPT !.at = "release"]]
  /\ UNCHANGED <<provider, time, auths, refresher, entry, refreshing, store, watcher, history>>

\* then the next refresh is scheduled and the credential is marked.
ScheduleRenewal(g) ==
  /\ renewal[g].at = "schedule"
  /\ refreshAt' = renewal[g].token
  /\ Schedule(renewal[g].token)
  /\ MarkDirty
  /\ renewal' = [renewal EXCEPT ![g] = [IdleRenewal EXCEPT !.at = "release"]]
  /\ UNCHANGED <<provider, time, auths, refresher, entry, refreshing, flushing, file, watcher, history>>

\* Mutant: a refresh that failed three times is not scheduled again.
GiveUpForgets(g) ==
  /\ renewal[g].at = "failed"
  /\ renewal' = [renewal EXCEPT ![g].at = "release"]
  /\ UNCHANGED <<provider, time, auths, refresher, entry, refreshAt, heap, refreshing, store, watcher, history>>

\* After three attempts it is put off for a minute.
GiveUpRenewal(g) ==
  /\ renewal[g].at = "failed"
  /\ Schedule(Retry)
  /\ renewal' = [renewal EXCEPT ![g].at = "release"]
  /\ UNCHANGED <<provider, time, auths, refresher, entry, refreshAt, refreshing, store, watcher, history>>

\* The deferred FinishRefresh: only now may another begin.
ReleaseRenewal(g) ==
  /\ renewal[g].at = "release"
  /\ refreshing' = FALSE
  /\ renewal' = [renewal EXCEPT ![g] = IdleRenewal]
  /\ UNCHANGED <<provider, time, auths, refresher, entry, refreshAt, heap, store, watcher, history>>

\* flushPending takes the batch and reads the entry, then saves what it has read.
FlushPending ==
  /\ dirty /\ flushing = None
  /\ dirty' = FALSE
  /\ flushing' = entry.token
  /\ UNCHANGED <<provider, time, auths, refresher, registry, file, missed, watcher, history>>

SaveFlushed ==
  /\ flushing # None
  /\ \/ file' = flushing /\ missed' = (missed /\ flushing # entry.token)
     \/ file' = file /\ missed' = TRUE
  /\ flushing' = None
  /\ UNCHANGED <<provider, time, auths, refresher, registry, dirty, watcher, history>>

-----------------------------------------------------------------------------
(* A scan of the watcher, whatever file or setting it was made for         *)

Scan ==
  /\ reload.at = "idle"
  /\ file # seen /\ scans < MaxScans
  /\ scans' = scans + 1
  /\ seen' = file
  /\ reload' = [at |-> "auths", token |-> file, time |-> 0]
  /\ UNCHANGED <<provider, time, auths, refresher, registry, store, history>>

\* applyCoreAuthAddOrUpdate keeps the times of the copy there is and updates.
ApplyReload ==
  /\ reload.at = "auths"
  /\ auths' = [auths EXCEPT !.token = reload.token, !.disabled = FALSE]
  /\ overwritten' = (overwritten \/ reload.token < auths.token)
  /\ refresher' = Outdated(refresher)
  /\ reload' = [reload EXCEPT !.at = "entry"]
  /\ UNCHANGED <<provider, time, registry, store, seen, scans, overlapped>>

UpdateReloaded ==
  /\ reload.at = "entry"
  /\ UpdateEntry(reload.token, FALSE)
  /\ overwritten' = (overwritten \/ reload.token < entry.token)
  /\ reload' = [reload EXCEPT !.at = "read"]
  /\ UNCHANGED <<provider, time, auths, refresher, seen, scans, overlapped>>

ReloadReadsRefreshAt ==
  /\ reload.at = "read"
  /\ reload' = [reload EXCEPT !.at = "schedule", !.time = refreshAt]
  /\ UNCHANGED <<provider, time, auths, refresher, registry, store, seen, scans, history>>

ScheduleReloaded ==
  /\ reload.at = "schedule"
  /\ ScheduleUpdate(reload.time)
  /\ reload' = [reload EXCEPT !.at = "save", !.time = 0]
  /\ UNCHANGED <<provider, time, auths, refresher, seen, scans, history>>

SaveReloaded ==
  /\ reload.at = "save"
  /\ Save(reload.token)
  /\ reload' = NoReload
  /\ UNCHANGED <<provider, time, auths, refresher, registry, seen, scans, history>>

-----------------------------------------------------------------------------
Refresh(r) ==
  \/ BeginRefresh(r) \/ CallRefresh(r) \/ Refreshed(r) \/ FailureIgnored(r)
  \/ RefreshFailed(r) \/ RefreshRevoked(r) \/ UpdateAfterRevocation(r)
  \/ UpdateRegistry(r) \/ ReadRefreshAt(r) \/ ScheduleRefreshed(r) \/ SaveRefreshed(r)

Renew(g) ==
  \/ StartRenewal(g) \/ CallRenewal(g) \/ CommitRenewal(g)
  \/ ScheduleRenewal(g) \/ GiveUpRenewal(g) \/ ReleaseRenewal(g)

FinishReload ==
  ApplyReload \/ UpdateReloaded \/ ReloadReadsRefreshAt \/ ScheduleReloaded \/ SaveReloaded

Reload == Scan \/ FinishReload

Next ==
  \/ Revoke \/ ComesDue \/ Expires \/ HoldEnds
  \/ \E r \in Refresher : CheckRefreshes(r) \/ Refresh(r)
  \/ CheckWithoutPermit
  \/ TimerFires \/ SignalTaken
  \/ \E g \in Renewal : ProcessNextRefresh(g) \/ Renew(g)
  \/ FlushPending \/ SaveFlushed
  \/ Reload

Spec == Init /\ [][Next]_vars

\* Time passes for the manager, and its loop and goroutines go on; nothing makes
\* the registry's loops, the watcher or the user do anything.
Fairness ==
  /\ WF_vars(ComesDue) /\ WF_vars(HoldEnds)
  /\ WF_vars(\E r \in Refresher : CheckRefreshes(r))
  /\ \A r \in Refresher : WF_vars(Refresh(r))

FairSpec == Spec /\ Fairness

-----------------------------------------------------------------------------
(* Properties                                                              *)

AuthState == [token : Token, disabled : BOOLEAN, held : BOOLEAN]
EntryState == [token : Token, disabled : BOOLEAN]
RefresherState ==
  [at : {"idle", "start", "call", "granted", "invalid", "error", "auths", "entry",
         "read", "schedule", "save"},
   token : Token, disabled : BOOLEAN, current : BOOLEAN, time : Token]
RenewalState ==
  [at : {"idle", "start", "call", "granted", "schedule", "failed", "release"},
   token : Token, attempt : 0..Attempts]
ReloadState ==
  [at : {"idle", "auths", "entry", "read", "schedule", "save"}, token : Token, time : Token]

TypeOK ==
  /\ grant \in Token /\ revoked \in BOOLEAN /\ errors \in 0..MaxErrors
  /\ dueAt \in Token \cup {None} /\ expiring \in Token \cup {None}
  /\ auths \in AuthState /\ refresher \in [Refresher -> RefresherState]
  /\ entry \in EntryState /\ renewal \in [Renewal -> RenewalState]
  /\ refreshAt \in Token /\ scheduled \in Token \cup {None, Retry}
  /\ fired \in BOOLEAN /\ turnedAway \in BOOLEAN /\ refreshing \in BOOLEAN
  /\ dirty \in BOOLEAN /\ flushing \in Token \cup {None} /\ file \in Token /\ missed \in BOOLEAN
  /\ seen \in Token /\ scans \in 0..MaxScans /\ reload \in ReloadState
  /\ overlapped \in BOOLEAN /\ overwritten \in BOOLEAN

InHand(r) == refresher[r].at = "granted" \/ (refresher[r].at = "entry" /\ ~refresher[r].disabled)

\* GrantKept: two loops refresh one credential from two copies of it, and yet the
\* token the provider accepts next is always in one of the copies or in the hands
\* of the refresh that got it, unless a false revocation or a scan of the watcher
\* has put an older token in its place, or the manager took longer for a refresh
\* than the minute after which it begins another.
GrantKept ==
  \/ entry.token = grant \/ auths.token = grant
  \/ \E r \in Refresher : InHand(r) /\ refresher[r].token = grant
  \/ \E g \in Renewal : renewal[g].at = "granted" /\ renewal[g].token = grant
  \/ overlapped \/ overwritten

\* The invariant behind it.  No copy is ahead of the provider; and as long as the
\* manager's refreshes do not overlap, a token in the hands of a refresh is nowhere
\* else that the other loop, a save or a scan could take it from.
Bounded ==
  /\ entry.token <= grant /\ auths.token <= grant /\ reload.token <= grant
  /\ file <= grant /\ flushing <= grant
  /\ \A r \in Refresher : refresher[r].token <= grant
  /\ \A g \in Renewal : renewal[g].token <= grant

Single ==
  \A r, q \in Refresher : refresher[r].at # "idle" /\ refresher[q].at # "idle" => r = q

InService ==
  \A r \in Refresher :
    /\ refresher[r].at = "start" => ~auths.disabled
    /\ refresher[r].at \in {"call", "granted"} => ~refresher[r].disabled
    /\ refresher[r].at = "auths" => refresher[r].disabled

ManagerAlone ==
  \A r \in Refresher : InHand(r) =>
    /\ refresher[r].token = grant
    /\ entry.token < grant /\ file < grant /\ flushing < grant /\ reload.token < grant
    /\ \A g \in Renewal : renewal[g].token < grant

RegistryAlone ==
  \A g \in Renewal : renewal[g].at = "granted" =>
    /\ renewal[g].token = grant
    /\ entry.token < grant /\ auths.token < grant
    /\ file < grant /\ flushing < grant /\ reload.token < grant
    /\ \A r \in Refresher : refresher[r].token < grant
    /\ \A h \in Renewal : renewal[h].token = grant => h = g

Alone == Single /\ InService /\ ManagerAlone /\ RegistryAlone

HandsInv == Bounded /\ (overlapped \/ Alone)

\* RenewalKept: the heap forgets a credential when its time has come; whoever took
\* it, or is still to write the heap, puts it back.  The one way it stays forgotten:
\* between the writing of the heap and the release of the flag the credential is
\* taken again, and who took it finds the flag set and returns.
AtWork(g) == renewal[g].at \notin {"idle", "release"}

RenewalKept ==
  scheduled = None => turnedAway \/ \E g \in Renewal : AtWork(g)

\* doRefresh and refreshLoop do not always see to that: without the exception it
\* does not hold.
NeverForgotten ==
  scheduled = None => \E g \in Renewal : AtWork(g)

\* SavedInTheEnd: entry, batch and Update save through different paths; the file
\* holds what the entry holds, or a save is on its way, unless a mark was dropped,
\* a save failed or an Update saved a token that the entry no longer had.
Saving == {"read", "schedule", "save"}

SavedInTheEnd ==
  \/ missed
  \/ file = entry.token
  \/ dirty \/ flushing # None
  \/ \E r \in Refresher : refresher[r].at \in Saving
  \/ \E g \in Renewal : renewal[g].at = "schedule"
  \/ reload.at \in Saving

\* RevocationNoticed: when the user revokes, the credential goes out of service.
RevocationNoticed == revoked ~> (auths.disabled \/ entry.disabled)

\* error_category.go:23, "CategoryAuthRevoked indicates permanently revoked OAuth
\* tokens": only a credential that was revoked is disabled for it.
DisabledOnlyIfRevoked == auths.disabled => revoked

=============================================================================
