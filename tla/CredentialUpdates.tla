------------------------- MODULE CredentialUpdates -------------------------
(***************************************************************************)
(* How a change of a credential file reaches the credential manager and    *)
(* the model registry.                                                     *)
(*                                                                         *)
(*   internal/watcher   a scan reads the directory (snapshot), compares it *)
(*                      with currentAuths (prepare) and hands the          *)
(*                      differences on (dispatch); between the three it    *)
(*                      holds no lock.  Updates of one credential that are *)
(*                      not yet taken are merged, the later one wins;      *)
(*                      dispatchLoop takes them in batches and feeds a     *)
(*                      bounded channel.                                   *)
(*   internal/service   one consumer applies the updates.                  *)
(*                                                                         *)
(* Scans run in the goroutine of the file events, in that of a             *)
(* configuration reload, and in the starting one.  A credential file is    *)
(* replaced atomically; its version stands for what isMaterialChange       *)
(* compares.  A batch holds a credential once, so the order within it is   *)
(* left open.  Credentials that stand in the configuration itself have no  *)
(* part here, nor has a reload that names another directory.               *)
(***************************************************************************)
EXTENDS Integers, FiniteSets, Sequences

CONSTANTS
  Credential,  \* credential ids
  Version,     \* materially different contents of a credential file
  Scanner,     \* goroutines that scan
  EventLoop,   \* the scanner that handles file events
  Compatible,  \* credentials of OpenAI-compatible providers
  QueueSize,   \* capacity of the channel to the service
  MaxChanges   \* bound: edits of files, announcements of one, and reloads of
               \* the configuration, together

Absent == "absent"      \* no file, an update that deletes, no credential
NoUpdate == "no update"
NoFile == "no file"     \* the event loop is between two events
Content == Version \cup {Absent}
Update == Content \cup {NoUpdate}

ASSUME UpdatesAssumption ==
  /\ Version \cap {Absent, NoUpdate} = {}
  /\ EventLoop \in Scanner
  /\ Compatible \subseteq Credential /\ NoFile \notin Credential
  /\ QueueSize \in Nat \ {0}
  /\ MaxChanges \in Nat

VARIABLES
  file,           \* the credential files
  events,         \* files with an event not handled yet
  changes,        \* how many there have been
  pendingWrites,  \* files whose next event is skipped
  lastAuthHashes, \* contents the event loop has seen
  handling,       \* the file that differed and will be read again
  scan,           \* where each scan is, and what it has read or found
  currentAuths,   \* what the watcher believes it has told the service
  pendingUpdates, \* updates dispatchLoop has not taken
  batch,          \* updates dispatchLoop is sending
  authUpdates,    \* the channel to the service
  auths,          \* the manager's credentials; Absent when disabled
  models,         \* the version whose models the registry holds
  lastRegisteredVersion, \* credentials that have been registered once
  had,            \* history: the contents each file has had
  unnoticed,      \* history: files that got contents back they had, or whose
                  \* event was skipped, since a scan last read the directory
  forgotten,      \* history: credentials the manager was given that are in
                  \* currentAuths no more, or not yet
  latest,         \* history: the last update dispatched for each credential
  overlapped      \* history: two scans have overlapped

updatesVars == <<file, events, changes, pendingWrites, lastAuthHashes, handling,
          scan, currentAuths, pendingUpdates, batch, authUpdates, auths, models,
          lastRegisteredVersion, had, unnoticed, forgotten, latest, overlapped>>
sources == <<file, events, changes, pendingWrites, lastAuthHashes, handling, had>>
pipeline == <<pendingUpdates, batch, authUpdates>>
service == <<auths, models, lastRegisteredVersion>>
excuses == <<unnoticed, forgotten, overlapped>>

Nothing == [c \in Credential |-> NoUpdate]
NoFiles == [c \in Credential |-> Absent]
Idle == [at |-> "idle", seen |-> Nothing]

\* Service.Run has loaded the manager from the files, and starts the watcher:
\* the starting goroutine plays the part of a scanner that reloads.
UpdatesInit ==
  /\ file \in [Credential -> Content]
  /\ auths = file /\ latest = file
  /\ forgotten = {c \in Credential : file[c] # Absent}
  /\ had = [c \in Credential |-> {file[c]}]
  /\ \E s \in Scanner \ {EventLoop} :
       scan = [t \in Scanner |-> IF t = s THEN [Idle EXCEPT !.at = "start"] ELSE Idle]
  /\ events = {} /\ changes = 0
  /\ pendingWrites = {} /\ lastAuthHashes = NoFiles /\ handling = NoFile
  /\ currentAuths = NoFiles
  /\ pendingUpdates = Nothing /\ batch = Nothing /\ authUpdates = <<>>
  /\ models = NoFiles /\ lastRegisteredVersion = {}
  /\ unnoticed = {} /\ overlapped = FALSE

-----------------------------------------------------------------------------
(* The start                                                               *)

\* The directory is watched.
Watching == \A s \in Scanner : scan[s].at # "start"

\* Watcher.Start watches the directory; reloadClients reads the files,
WalkFiles(s) ==
  /\ scan[s].at = "start"
  /\ scan' = [scan EXCEPT ![s] = [at |-> "hash", seen |-> file]]
  /\ UNCHANGED <<sources, currentAuths, pipeline, service, excuses, latest>>

\* and replaces the hashes by what it read.  The scan follows.
SwapHashes(s) ==
  /\ scan[s].at = "hash"
  /\ lastAuthHashes' = scan[s].seen
  /\ scan' = [scan EXCEPT ![s] = [at |-> "snapshot", seen |-> Nothing]]
  /\ UNCHANGED <<file, events, changes, pendingWrites, handling, had, currentAuths, pipeline,
                 service, excuses, latest>>

-----------------------------------------------------------------------------
(* The sources of change                                                   *)

\* A credential file is written, replaced or deleted, by the user or by the
\* process.  That is one event or several.
EditFile(c, v) ==
  /\ changes < MaxChanges
  /\ v # file[c]
  /\ file' = [file EXCEPT ![c] = v]
  /\ had' = [had EXCEPT ![c] = @ \cup {v}]
  /\ unnoticed' = IF v \in had[c] THEN unnoticed \cup {c} ELSE unnoticed \ {c}
  /\ events' = IF Watching THEN events \cup {c} ELSE events
  /\ changes' = changes + 1
  /\ UNCHANGED <<pendingWrites, lastAuthHashes, handling, scan, currentAuths,
                 pipeline, service, forgotten, latest, overlapped>>

\* MarkPendingWrite: the process is about to write a file, and may fail to.
MarkPendingWrite(c) ==
  /\ changes < MaxChanges
  /\ changes' = changes + 1
  /\ pendingWrites' = pendingWrites \cup {c}
  /\ UNCHANGED <<file, events, lastAuthHashes, handling, had, scan, currentAuths,
                 pipeline, service, excuses, latest>>

\* The event loop is between two events.
Free == scan[EventLoop].at = "idle" /\ handling = NoFile

\* handleEvent: the next event of a file that was announced is skipped; it may
\* have been the only one.
SkipEvent(c) ==
  /\ Free /\ c \in events /\ c \in pendingWrites
  /\ pendingWrites' = pendingWrites \ {c}
  /\ events' \in {events, events \ {c}}
  /\ unnoticed' = IF c \in events' THEN unnoticed ELSE unnoticed \cup {c}
  /\ UNCHANGED <<file, changes, lastAuthHashes, handling, had, scan, currentAuths, pipeline,
                 service, forgotten, latest, overlapped>>

\* Else, and when the announcement is two seconds old, it compares the file with
\* the hash it remembers: one that is there and differs is looked at again; one
\* that is gone is forgotten (removeClient) and scanned for.
HandleEvent(c) ==
  /\ Free /\ c \in events
  /\ events' = events \ {c}
  /\ pendingWrites' = pendingWrites \ {c}
  /\ IF file[c] = Absent /\ lastAuthHashes[c] # Absent
       THEN /\ lastAuthHashes' = [lastAuthHashes EXCEPT ![c] = Absent]
            /\ scan' = [scan EXCEPT ![EventLoop].at = "snapshot"]
       ELSE UNCHANGED <<lastAuthHashes, scan>>
  /\ handling' = IF file[c] \in {Absent, lastAuthHashes[c]} THEN NoFile ELSE c
  /\ UNCHANGED <<file, changes, had, currentAuths, pipeline, service, excuses, latest>>

\* addOrUpdateClient reads the file once more: one that is gone by now, or has
\* the contents that are remembered, is left alone.
AddOrUpdateClient ==
  /\ handling # NoFile
  /\ handling' = NoFile
  /\ IF file[handling] \in {Absent, lastAuthHashes[handling]}
       THEN UNCHANGED <<lastAuthHashes, scan>>
       ELSE /\ lastAuthHashes' = [lastAuthHashes EXCEPT ![handling] = file[handling]]
            /\ scan' = [scan EXCEPT ![EventLoop].at = "snapshot"]
  /\ UNCHANGED <<file, events, changes, pendingWrites, had, currentAuths, pipeline, service,
                 excuses, latest>>

\* A reload of the configuration that leaves the credentials directory alone:
\* reloadClients drops the credentials of providers whose excluded models have
\* changed from currentAuths, so that the scan which follows reports them anew.
ReloadConfig(s) ==
  /\ s # EventLoop
  /\ scan[s].at = "idle" /\ Watching
  /\ changes < MaxChanges
  /\ changes' = changes + 1
  /\ \E affected \in SUBSET Credential :
       /\ currentAuths' = [c \in Credential |-> IF c \in affected THEN Absent ELSE currentAuths[c]]
       /\ forgotten' = forgotten \cup {c \in affected : currentAuths[c] # Absent}
  /\ scan' = [scan EXCEPT ![s].at = "snapshot"]
  /\ UNCHANGED <<file, events, pendingWrites, lastAuthHashes, handling, had,
                 pipeline, service, unnoticed, latest, overlapped>>

-----------------------------------------------------------------------------
(* refreshAuthState                                                        *)

\* SnapshotCoreAuths, under no lock.
SnapshotCoreAuths(s) ==
  /\ scan[s].at = "snapshot"
  /\ scan' = [scan EXCEPT ![s] = [at |-> "prepare", seen |-> file]]
  /\ unnoticed' = {}
  /\ overlapped' = (overlapped \/ \E t \in Scanner : scan[t].at \in {"prepare", "dispatch"})
  /\ UNCHANGED <<sources, currentAuths, pipeline, service, forgotten, latest>>

Differences(seen) ==
  [c \in Credential |-> IF seen[c] = currentAuths[c] THEN NoUpdate ELSE seen[c]]

\* Mutant: credentials that are gone are not reported.
PrepareForgetsDeletes(s) ==
  /\ scan[s].at = "prepare"
  /\ currentAuths' = scan[s].seen
  /\ forgotten' = {c \in forgotten : scan[s].seen[c] = Absent}
  /\ LET found == [c \in Credential |-> IF scan[s].seen[c] = Absent THEN NoUpdate
                                        ELSE Differences(scan[s].seen)[c]]
     IN scan' = [scan EXCEPT ![s] = IF found = Nothing THEN Idle
                                    ELSE [at |-> "dispatch", seen |-> found]]
  /\ UNCHANGED <<sources, pipeline, service, unnoticed, latest, overlapped>>

\* prepareAuthUpdatesLocked, under clientsMutex.  A credential that is in neither
\* the snapshot nor currentAuths is not reported, even if the manager has it.
PrepareAuthUpdates(s) ==
  /\ scan[s].at = "prepare"
  /\ currentAuths' = scan[s].seen
  /\ forgotten' = {c \in forgotten : scan[s].seen[c] = Absent}
  /\ LET found == Differences(scan[s].seen)
     IN scan' = [scan EXCEPT ![s] = IF found = Nothing THEN Idle
                                    ELSE [at |-> "dispatch", seen |-> found]]
  /\ UNCHANGED <<sources, pipeline, service, unnoticed, latest, overlapped>>

\* The update that stays of an older and a newer one.
Newer(older, newer) == [c \in Credential |-> IF newer[c] = NoUpdate THEN older[c] ELSE newer[c]]

\* Mutant: an update already pending is kept.
DispatchKeepsFirst(s) ==
  /\ scan[s].at = "dispatch"
  /\ pendingUpdates' = Newer(scan[s].seen, pendingUpdates)
  /\ latest' = Newer(latest, scan[s].seen)
  /\ scan' = [scan EXCEPT ![s] = Idle]
  /\ UNCHANGED <<sources, currentAuths, batch, authUpdates, service, excuses>>

\* dispatchAuthUpdates, under dispatchMu.
DispatchAuthUpdates(s) ==
  /\ scan[s].at = "dispatch"
  /\ pendingUpdates' = Newer(pendingUpdates, scan[s].seen)
  /\ latest' = Newer(latest, scan[s].seen)
  /\ scan' = [scan EXCEPT ![s] = Idle]
  /\ UNCHANGED <<sources, currentAuths, batch, authUpdates, service, excuses>>

-----------------------------------------------------------------------------
(* dispatchLoop                                                            *)

NextPendingBatch ==
  /\ batch = Nothing
  /\ pendingUpdates # Nothing
  /\ batch' = pendingUpdates
  /\ pendingUpdates' = Nothing
  /\ UNCHANGED <<sources, scan, currentAuths, authUpdates, service, latest, excuses>>

\* Mutant: a send gives up on a full channel.
SendUpdateOrDrop(c) ==
  /\ batch[c] # NoUpdate
  /\ authUpdates' = IF Len(authUpdates) < QueueSize THEN Append(authUpdates, <<c, batch[c]>>)
                    ELSE authUpdates
  /\ batch' = [batch EXCEPT ![c] = NoUpdate]
  /\ UNCHANGED <<sources, scan, currentAuths, pendingUpdates, service, latest, excuses>>

\* A send on the channel, which blocks while it is full.
SendUpdate(c) ==
  /\ batch[c] # NoUpdate
  /\ Len(authUpdates) < QueueSize
  /\ authUpdates' = Append(authUpdates, <<c, batch[c]>>)
  /\ batch' = [batch EXCEPT ![c] = NoUpdate]
  /\ UNCHANGED <<sources, scan, currentAuths, pendingUpdates, service, latest, excuses>>

-----------------------------------------------------------------------------
(* The service's consumer                                                  *)

\* registerModelsForAuth: a credential whose MaterialVersion is not above the one
\* registered before is skipped.  Nothing ever sets MaterialVersion, so that is
\* every credential once registered.  An OpenAI-compatible provider's
\* registration is not remembered.
RegisterModels(c, v) ==
  IF c \in lastRegisteredVersion THEN UNCHANGED <<models, lastRegisteredVersion>>
  ELSE /\ models' = [models EXCEPT ![c] = v]
       /\ lastRegisteredVersion' = lastRegisteredVersion \cup ({c} \ Compatible)

\* applyCoreAuthAddOrUpdate
ApplyAddOrUpdate(c, v) ==
  /\ v # Absent
  /\ RegisterModels(c, v)
  /\ auths' = [auths EXCEPT ![c] = v]

\* applyCoreAuthRemoval
ApplyRemoval(c, v) ==
  /\ v = Absent
  /\ models' = [models EXCEPT ![c] = Absent]
  /\ auths' = [auths EXCEPT ![c] = Absent]
  /\ UNCHANGED lastRegisteredVersion

\* consumeAuthUpdates, handleAuthUpdate
ConsumeAuthUpdate ==
  /\ authUpdates # <<>>
  /\ LET c == Head(authUpdates)[1]
         v == Head(authUpdates)[2]
     IN ApplyAddOrUpdate(c, v) \/ ApplyRemoval(c, v)
  /\ authUpdates' = Tail(authUpdates)
  /\ UNCHANGED <<sources, scan, currentAuths, pendingUpdates, batch, latest, excuses>>

-----------------------------------------------------------------------------
Start(s) == WalkFiles(s) \/ SwapHashes(s)
Refresh(s) == SnapshotCoreAuths(s) \/ PrepareAuthUpdates(s) \/ DispatchAuthUpdates(s)
DispatchLoop == NextPendingBatch \/ \E c \in Credential : SendUpdate(c)
Handle == AddOrUpdateClient \/ \E c \in Credential : SkipEvent(c) \/ HandleEvent(c)

UpdatesNext ==
  \/ \E c \in Credential, v \in Content : EditFile(c, v)
  \/ \E c \in Credential : MarkPendingWrite(c)
  \/ Handle
  \/ \E s \in Scanner : Start(s) \/ ReloadConfig(s) \/ Refresh(s)
  \/ DispatchLoop
  \/ ConsumeAuthUpdate

UpdatesSpec == UpdatesInit /\ [][UpdatesNext]_updatesVars

\* The event loop, the scans, dispatchLoop and the consumer are goroutines that
\* go on while they can; nobody need edit, announce or reload.
Fairness ==
  /\ WF_updatesVars(Handle)
  /\ \A s \in Scanner : WF_updatesVars(Start(s) \/ Refresh(s))
  /\ WF_updatesVars(DispatchLoop)
  /\ WF_updatesVars(ConsumeAuthUpdate)

FairUpdatesSpec == UpdatesSpec /\ Fairness

-----------------------------------------------------------------------------
(* Properties                                                              *)

Place == {"idle", "start", "hash", "snapshot", "prepare", "dispatch"}

UpdatesTypeOK ==
  /\ file \in [Credential -> Content]
  /\ events \subseteq Credential
  /\ changes \in 0..MaxChanges
  /\ pendingWrites \subseteq Credential /\ handling \in Credential \cup {NoFile}
  /\ lastAuthHashes \in [Credential -> Content]
  /\ scan \in [Scanner -> [at : Place, seen : [Credential -> Update]]]
  /\ currentAuths \in [Credential -> Content]
  /\ pendingUpdates \in [Credential -> Update]
  /\ batch \in [Credential -> Update]
  /\ authUpdates \in Seq(Credential \X Content) /\ Len(authUpdates) <= QueueSize
  /\ auths \in [Credential -> Content]
  /\ models \in [Credential -> Content]
  /\ lastRegisteredVersion \subseteq Credential
  /\ had \in [Credential -> SUBSET Content]
  /\ unnoticed \subseteq Credential /\ forgotten \subseteq Credential
  /\ latest \in [Credential -> Content]
  /\ overlapped \in BOOLEAN

\* The update of a credential that will be applied last: the youngest one that
\* waits, or the one in force when none does.
Queued(c) == {i \in 1..Len(authUpdates) : authUpdates[i][1] = c}
Destined(c) ==
  IF pendingUpdates[c] # NoUpdate THEN pendingUpdates[c]
  ELSE IF batch[c] # NoUpdate THEN batch[c]
  ELSE IF Queued(c) # {}
    THEN authUpdates[CHOOSE i \in Queued(c) : \A j \in Queued(c) : j <= i][2]
  ELSE auths[c]

\* Merging, batching and queueing of updates (auth_dispatch.go:133-209) neither
\* lose the last update of a credential nor let an older one overtake it,
\* whatever goroutines dispatch.
LastUpdateWins == \A c \in Credential : Destined(c) = latest[c]

\* Nothing left to do.
Settled ==
  /\ events = {} /\ handling = NoFile
  /\ \A s \in Scanner : scan[s].at = "idle"
  /\ pendingUpdates = Nothing /\ batch = Nothing /\ authUpdates = <<>>

\* The two ways in which a change escapes without overlapping scans.  The event
\* that would have led to a scan was dismissed, as the file had its old contents
\* back (watcher.go:296), or skipped, as a write had been announced
\* (watcher.go:275).  Or the file is gone, and currentAuths did not have it when
\* that was seen, because a reload of the configuration had taken it out
\* (client_registration.go:31) or it was gone before the first scan: no deletion
\* is reported then (auth_dispatch.go:124).
Escaped(c) == c \in unnoticed \/ (c \in forgotten /\ file[c] = Absent)

\* The manager has the credential the file holds, unless a change has escaped.
InStep(c) == auths[c] = file[c] \/ Escaped(c)

\* Once everything has been handled the manager has the credentials the files
\* hold: no change of a file is missed, however events, announcements, reloads,
\* scans, batches and the consumer interleave, unless two scans overlap or it
\* escapes in one of the two ways.
FilesFollowed == Settled /\ ~overlapped => \A c \in Credential : InStep(c)

\* When the edits have stopped the manager comes to have what the files hold,
\* with the same exceptions.
EventuallyInSync == <>[](overlapped \/ \A c \in Credential : InStep(c))

\* No change escapes as long as no two scans overlap.
NothingEscapes == Settled /\ ~overlapped => auths = file

\* internal/watcher/config_reload.go:33, "Serialize entire reload
\* check-and-execute to prevent race conditions": scans that overlap do not
\* matter either.
FilesAlwaysFollowed == Settled => \A c \in Credential : InStep(c)

\* internal/service/model_registration.go:19, "registerModelsForAuth (re)binds
\* provider models in the global registry": once everything has been handled, a
\* credential in use that has ever been registered has the models of its present
\* version registered.
ModelsRebound ==
  Settled => \A c \in lastRegisteredVersion : auths[c] # Absent => models[c] = auths[c]

=============================================================================
