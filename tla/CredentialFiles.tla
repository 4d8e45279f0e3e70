-------------------------- MODULE CredentialFiles --------------------------
(***************************************************************************)
(* How credentials get into their files, and how a file that is removed    *)
(* takes its credential out of service.                                    *)
(*                                                                         *)
(*   internal/provider     a change of an entry is marked in a bounded     *)
(*                         queue; persistLoop gathers marks into a batch   *)
(*                         and saves the batch.  Manager.Update saves the  *)
(*                         copy it was given, too.                         *)
(*   internal/auth/login   FileTokenStore: one Save at a time compares     *)
(*                         and replaces the file, and announces that to    *)
(*                         the watcher, which skips the next event on the  *)
(*                         file within two seconds.                        *)
(*   internal/watcher      a file that is gone for longer than a replace   *)
(*                         takes disables its credential.                  *)
(*                                                                         *)
(* A file holds a token and no flag; what else a save writes has no part   *)
(* here.  The process may end at any moment; Service.Shutdown does not     *)
(* call Manager.Stop, so that an orderly end is no different.  The way of  *)
(* an update through dispatch and channel is that of CredentialUpdates:    *)
(* the last one wins.  Who removes a file is not told apart: an editor, a  *)
(* tool, or DeleteAuthFile, which disables the credential itself as well.  *)
(***************************************************************************)
EXTENDS Integers, FiniteSets, Sequences, SequencesExt

CONSTANTS
  Credential,  \* credentials with a file
  RuntimeOnly, \* credentials without one: a program behind the relay
  QueueSize,   \* capacity of the persist queue
  MaxTokens,   \* bound: renewals of each credential's token
  MaxRemovals, \* bound: files removed by the user
  MaxFailures, \* bound: writes that fail
  MaxEvents,   \* bound: file events of a credential the watcher has not handled
  MaxExits     \* bound: ends of the process

ASSUME FilesAssumption ==
  /\ Credential \cap RuntimeOnly = {}
  /\ QueueSize \in Nat \ {0}
  /\ MaxTokens \in Nat /\ MaxRemovals \in Nat /\ MaxFailures \in Nat
  /\ MaxEvents \in Nat /\ MaxExits \in Nat

Id == Credential \cup RuntimeOnly

Gone == -1       \* no file, no entry
NoUpdate == -2
Token == 0..MaxTokens
Content == Token \cup {Gone}

\* persistLoop and the consumer of updates.
Saver == {"loop", "service"}

VARIABLES
  file,         \* the credential files
  up,           \* the process runs
  issued,       \* the newest token of each credential
  entry,        \* the registry's entries
  auths,        \* the token in the manager's copy
  unmarked,     \* entries that have been renewed and not yet marked
  queue,        \* persistQueue
  batch,        \* persistBatch
  todo,         \* what flushPending has still to save
  saver,        \* who updates and saves what
  events,       \* file events the watcher has not handled
  pendingWrites, \* files whose next event is skipped
  handling,     \* the removal whose file the watcher will look for
  seen,         \* lastAuthHashes
  currentAuths, \* what the last scan found
  update,       \* the update on its way to the service
  removals, failures, exits, \* how often
  missed,       \* history: a mark was dropped, the loop's write failed, or an
                \* Update saved a token that was out of date, since the last
                \* save of what the entry holds
  failed,       \* history: credentials with a write that failed
  revived       \* history: credentials with a file that came back

disk == <<file, issued>>
registry == <<entry, auths, unmarked>>
marks == <<queue, batch, todo>>
watcher == <<events, pendingWrites, handling, seen, currentAuths, update>>
bounds == <<removals, failures, exits>>
history == <<missed, failed, revived>>
filesVars == <<file, up, issued, entry, auths, unmarked, queue, batch, todo, saver, events,
          pendingWrites, handling, seen, currentAuths, update, removals, failures,
          exits, missed, failed, revived>>

None == "none"
Idle == [at |-> "idle"]

\* Manager.Load reads the files, and the watcher's first scan reports them all.
Loaded ==
  /\ entry' = [c \in Credential |-> [token |-> file[c], disabled |-> FALSE]]
  /\ auths' = file /\ seen' = file /\ currentAuths' = file
  /\ update' = [c \in Credential |-> IF file[c] = Gone THEN NoUpdate ELSE file[c]]

FilesInit ==
  /\ file = [c \in Credential |-> 0] /\ issued = file /\ up = TRUE
  /\ entry = [c \in Credential |-> [token |-> 0, disabled |-> FALSE]]
  /\ auths = file /\ seen = file /\ currentAuths = file /\ update = file
  /\ unmarked = {} /\ queue = <<>> /\ batch = {} /\ todo = {}
  /\ saver = [s \in Saver |-> Idle]
  /\ events = [c \in Credential |-> <<>>] /\ pendingWrites = {} /\ handling = None
  /\ removals = 0 /\ failures = 0 /\ exits = 0
  /\ missed = {} /\ failed = {} /\ revived = {}

-----------------------------------------------------------------------------
(* Changes and marks                                                       *)

Known(c) == up /\ entry[c].token # Gone

\* markDirty does not wait for room in the queue.
MarkDirty(c) ==
  queue' = IF Len(queue) < QueueSize THEN Append(queue, c) ELSE queue

Unmarkable(c) == Len(queue) = QueueSize /\ c \notin ToSet(queue)

\* AuthRegistry.doRefresh changes the entry, whether it is disabled or not,
Renew(c) ==
  /\ Known(c) /\ c \notin unmarked /\ issued[c] < MaxTokens
  /\ issued' = [issued EXCEPT ![c] = @ + 1]
  /\ entry' = [entry EXCEPT ![c].token = issued'[c]]
  /\ unmarked' = unmarked \cup {c}
  /\ UNCHANGED <<file, up, auths, marks, saver, watcher, bounds, history>>

\* and marks it.
MarkRenewed(c) ==
  /\ c \in unmarked
  /\ unmarked' = unmarked \ {c}
  /\ MarkDirty(c)
  /\ missed' = IF Unmarkable(c) THEN missed \cup {c} ELSE missed
  /\ UNCHANGED <<disk, up, entry, auths, batch, todo, saver, watcher, bounds, failed, revived>>

\* MarkResult marks an entry of which nothing that is saved has changed.
MarkUsed(c) ==
  /\ up /\ (c \in Credential => Known(c))
  /\ MarkDirty(c)
  /\ UNCHANGED <<disk, up, registry, batch, todo, saver, watcher, bounds, history>>

-----------------------------------------------------------------------------
(* persistLoop                                                             *)

\* A disabled credential without a file is not saved.
Saving(c, token, disabled) ==
  IF disabled /\ file[c] = Gone THEN Idle
  ELSE [at |-> "compare", of |-> c, token |-> token]

\* The loop of persistLoop is at its select.
LoopWaits == todo = {} /\ saver["loop"] = Idle

TakeMark ==
  /\ LoopWaits /\ queue # <<>>
  /\ batch' = batch \cup {Head(queue)}
  /\ queue' = Tail(queue)
  /\ UNCHANGED <<disk, up, registry, todo, saver, watcher, bounds, history>>

\* The ticker: flushPending swaps the batch,
FlushPending ==
  /\ LoopWaits /\ batch # {}
  /\ todo' = batch /\ batch' = {}
  /\ UNCHANGED <<disk, up, registry, queue, saver, watcher, bounds, history>>

\* Mutant: the flush ends at a credential that has no file.
FlushUntilRuntimeOnly(c) ==
  /\ c \in todo /\ saver["loop"] = Idle
  /\ IF c \in RuntimeOnly THEN todo' = {} /\ UNCHANGED saver
     ELSE /\ todo' = todo \ {c}
          /\ saver' = [saver EXCEPT !["loop"] = Saving(c, entry[c].token, entry[c].disabled)]
  /\ UNCHANGED <<disk, up, registry, queue, batch, watcher, bounds, history>>

\* and saves what the entries hold when their turn comes.
FlushNext(c) ==
  /\ c \in todo /\ saver["loop"] = Idle
  /\ todo' = todo \ {c}
  /\ saver' = IF c \in RuntimeOnly THEN saver
              ELSE [saver EXCEPT !["loop"] = Saving(c, entry[c].token, entry[c].disabled)]
  /\ UNCHANGED <<disk, up, registry, queue, batch, watcher, bounds, history>>

-----------------------------------------------------------------------------
(* FileTokenStore.Save                                                     *)

Ends(s) == saver' = [saver EXCEPT ![s] = Idle]

\* What is saved is what the entry holds.
Current(s) == saver[s].token = entry[saver[s].of].token

\* Nobody is about to save anything else.
Settles(s) ==
  \A t \in {s} \cup {t \in Saver : saver[t].at \in {"compare", "write"}} :
    saver[t].of = saver[s].of => Current(t)

LockFree == \A s \in Saver : saver[s].at # "write"

\* Mutant: the write is announced before it is known that there will be one.
SaveAnnounces(s) ==
  /\ saver[s].at = "compare" /\ LockFree
  /\ pendingWrites' = pendingWrites \cup {saver[s].of}
  /\ IF file[saver[s].of] = saver[s].token
       THEN /\ Ends(s)
            /\ missed' = IF Settles(s) THEN missed \ {saver[s].of} ELSE missed
       ELSE /\ saver' = [saver EXCEPT ![s].at = "write"]
            /\ UNCHANGED missed
  /\ UNCHANGED <<disk, up, registry, marks, events, handling, seen, currentAuths, update,
                 bounds, failed, revived>>

\* Under the lock: a file that holds the same is left alone, else the write is
\* announced,
SaveCompares(s) ==
  /\ saver[s].at = "compare" /\ LockFree
  /\ IF file[saver[s].of] = saver[s].token
       THEN /\ Ends(s)
            /\ missed' = IF Settles(s) THEN missed \ {saver[s].of} ELSE missed
            /\ UNCHANGED pendingWrites
       ELSE /\ saver' = [saver EXCEPT ![s].at = "write"]
            /\ pendingWrites' = pendingWrites \cup {saver[s].of}
            /\ UNCHANGED missed
  /\ UNCHANGED <<disk, up, registry, marks, events, handling, seen, currentAuths, update,
                 bounds, failed, revived>>

\* and the file is replaced by a rename.
SaveWrites(s) ==
  /\ saver[s].at = "write" /\ Len(events[saver[s].of]) < MaxEvents
  /\ LET c == saver[s].of
     IN /\ file' = [file EXCEPT ![c] = saver[s].token]
        /\ events' = [events EXCEPT ![c] = Append(@, "create")]
        /\ revived' = IF file[c] = Gone THEN revived \cup {c} ELSE revived
        /\ missed' = IF Settles(s) THEN missed \ {c}
                     ELSE IF s # "loop" /\ ~Current(s) THEN missed \cup {c} ELSE missed
  /\ Ends(s)
  /\ UNCHANGED <<issued, up, registry, marks, pendingWrites, handling, seen, currentAuths,
                 update, bounds, failed>>

SaveFails(s) ==
  /\ saver[s].at = "write" /\ failures < MaxFailures
  /\ failures' = failures + 1
  /\ failed' = failed \cup {saver[s].of}
  /\ missed' = IF s = "loop" THEN missed \cup {saver[s].of} ELSE missed
  /\ Ends(s)
  /\ UNCHANGED <<disk, up, registry, marks, watcher, removals, exits, revived>>

Save(s) == SaveCompares(s) \/ SaveWrites(s) \/ SaveFails(s)

-----------------------------------------------------------------------------
(* Manager.Update                                                          *)

\* The caller that disables a credential begins with the manager's copy,
CopyDisabled(s) ==
  /\ saver[s].at = "copy"
  /\ saver' = [saver EXCEPT ![s] =
       IF auths[@.of] = Gone THEN Idle
       ELSE [at |-> "update", of |-> @.of, token |-> auths[@.of], disabled |-> TRUE]]
  /\ UNCHANGED <<disk, up, registry, marks, watcher, bounds, history>>

\* Update replaces copy and entry, marks the entry, and goes on to Save.
Update(s) ==
  /\ saver[s].at = "update"
  /\ LET c == saver[s].of
     IN /\ auths' = [auths EXCEPT ![c] = saver[s].token]
        /\ entry' = [entry EXCEPT ![c] = [token |-> saver[s].token,
                                          disabled |-> saver[s].disabled]]
        /\ MarkDirty(c)
        /\ missed' = IF Unmarkable(c) THEN missed \cup {c} ELSE missed
  /\ saver' = [saver EXCEPT ![s] = Saving(@.of, @.token, @.disabled)]
  /\ UNCHANGED <<disk, up, unmarked, batch, todo, watcher, bounds, failed, revived>>

\* The service applies an update: a file that is gone disables.
ApplyUpdate(c) ==
  /\ saver["service"] = Idle /\ update[c] # NoUpdate
  /\ update' = [update EXCEPT ![c] = NoUpdate]
  /\ saver' = [saver EXCEPT !["service"] =
       IF update[c] = Gone THEN [at |-> "copy", of |-> c]
       ELSE [at |-> "update", of |-> c, token |-> update[c], disabled |-> FALSE]]
  /\ UNCHANGED <<disk, up, registry, marks, events, pendingWrites, handling, seen,
                 currentAuths, bounds, history>>

-----------------------------------------------------------------------------
(* Removal of a file                                                       *)

RemoveFile(c) ==
  /\ file[c] # Gone /\ removals < MaxRemovals /\ Len(events[c]) < MaxEvents
  /\ file' = [file EXCEPT ![c] = Gone]
  /\ removals' = removals + 1
  /\ events' = IF up THEN [events EXCEPT ![c] = Append(@, "remove")] ELSE events
  /\ UNCHANGED <<issued, up, registry, marks, saver, pendingWrites, handling, seen,
                 currentAuths, update, failures, exits, history>>

-----------------------------------------------------------------------------
(* The watcher                                                             *)

\* refreshAuthState scans the directory and reports what differs from the last
\* scan.
Scan ==
  /\ update' = [c \in Credential |-> IF file[c] = currentAuths[c] THEN update[c] ELSE file[c]]
  /\ currentAuths' = file

\* A file that is there is scanned for when it differs from what was seen.
LookAt(c) ==
  IF file[c] \in {Gone, seen[c]} THEN UNCHANGED <<seen, currentAuths, update>>
  ELSE seen' = [seen EXCEPT ![c] = file[c]] /\ Scan

\* The next event of a file that has been announced is skipped, unless two
\* seconds have passed.
SkipEvent(c) ==
  /\ handling = None /\ events[c] # <<>> /\ c \in pendingWrites
  /\ events' = [events EXCEPT ![c] = Tail(@)]
  /\ pendingWrites' = pendingWrites \ {c}
  /\ UNCHANGED <<disk, up, registry, marks, saver, handling, seen, currentAuths, update,
                 bounds, history>>

\* handleEvent waits a moment when a file is gone.
HandleEvent(c) ==
  /\ handling = None /\ events[c] # <<>>
  /\ events' = [events EXCEPT ![c] = Tail(@)]
  /\ pendingWrites' = pendingWrites \ {c}
  /\ IF Head(events[c]) = "remove"
       THEN handling' = c /\ UNCHANGED <<seen, currentAuths, update>>
       ELSE LookAt(c) /\ UNCHANGED handling
  /\ UNCHANGED <<disk, up, registry, marks, saver, bounds, history>>

\* removeClient, unless the file is back, or was never known.
HandleRemoval ==
  /\ handling # None
  /\ handling' = None
  /\ IF file[handling] = Gone /\ seen[handling] # Gone
       THEN seen' = [seen EXCEPT ![handling] = Gone] /\ Scan
       ELSE LookAt(handling)
  /\ UNCHANGED <<disk, up, registry, marks, saver, events, pendingWrites, bounds, history>>

-----------------------------------------------------------------------------
(* The end of the process, and the next one                                *)

Behind == {c \in Credential : file[c] # Gone /\ entry[c].token \notin {Gone, file[c]}}

\* A crash, or Service.Shutdown: what waits in memory goes.
Exit ==
  /\ up /\ exits < MaxExits
  /\ up' = FALSE
  /\ exits' = exits + 1
  /\ entry' = [c \in Credential |-> [token |-> Gone, disabled |-> FALSE]]
  /\ auths' = [c \in Credential |-> Gone] /\ unmarked' = {}
  /\ queue' = <<>> /\ batch' = {} /\ todo' = {}
  /\ saver' = [s \in Saver |-> Idle]
  /\ events' = [c \in Credential |-> <<>>] /\ pendingWrites' = {} /\ handling' = None
  /\ seen' = auths' /\ currentAuths' = auths'
  /\ update' = [c \in Credential |-> NoUpdate]
  /\ missed' = {} /\ failed' = {} /\ revived' = {}
  /\ UNCHANGED <<disk, removals, failures>>

Start ==
  /\ ~up
  /\ up' = TRUE
  /\ Loaded
  /\ UNCHANGED <<disk, unmarked, marks, saver, events, pendingWrites, handling, bounds, history>>

-----------------------------------------------------------------------------
PersistLoop == TakeMark \/ FlushPending \/ (\E c \in Id : FlushNext(c)) \/ Save("loop")
Service == (\E c \in Credential : ApplyUpdate(c)) \/ CopyDisabled("service")
             \/ Update("service") \/ Save("service")
Watch == HandleRemoval \/ \E c \in Credential : SkipEvent(c) \/ HandleEvent(c)

FilesNext ==
  \/ \E c \in Credential :
       Renew(c) \/ MarkRenewed(c) \/ RemoveFile(c)
  \/ \E c \in Id : MarkUsed(c)
  \/ PersistLoop \/ Service \/ Watch
  \/ Exit \/ Start

FilesSpec == FilesInit /\ [][FilesNext]_filesVars

\* The goroutines go on while they can.  Of the loop only that a save which has
\* begun ends is needed: nothing the watcher does waits for the ticker.
FairFilesSpec == FilesSpec /\ WF_filesVars(Save("loop")) /\ WF_filesVars(Service) /\ WF_filesVars(Watch)

-----------------------------------------------------------------------------
(* Properties                                                              *)

\* What one who updates and saves is at, and with what.
Job ==
  {Idle} \cup [at : {"copy"}, of : Credential]
    \cup [at : {"update"}, of : Credential, token : Content, disabled : BOOLEAN]
    \cup [at : {"compare", "write"}, of : Credential, token : Content]

\* Every variable has its type, queue and events stay within their bounds, and
\* persistLoop saves but does not update.
FilesTypeOK ==
  /\ file \in [Credential -> Content] /\ issued \in [Credential -> Token]
  /\ up \in BOOLEAN
  /\ entry \in [Credential -> [token : Content, disabled : BOOLEAN]]
  /\ auths \in [Credential -> Content]
  /\ unmarked \subseteq Credential
  /\ queue \in Seq(Id) /\ Len(queue) <= QueueSize
  /\ batch \subseteq Id /\ todo \subseteq Id
  /\ saver \in [Saver -> Job] /\ saver["loop"].at \in {"idle", "compare", "write"}
  /\ events \in [Credential -> Seq({"create", "remove"})]
  /\ \A c \in Credential : Len(events[c]) <= MaxEvents
  /\ pendingWrites \subseteq Credential /\ handling \in Credential \cup {None}
  /\ seen \in [Credential -> Content] /\ currentAuths \in [Credential -> Content]
  /\ update \in [Credential -> Content \cup {NoUpdate}]
  /\ removals \in 0..MaxRemovals /\ failures \in 0..MaxFailures /\ exits \in 0..MaxExits
  /\ missed \subseteq Credential /\ failed \subseteq Credential /\ revived \subseteq Credential

\* What still has the present token of a credential on its way to the file.
Waiting ==
  unmarked \cup ToSet(queue) \cup batch \cup todo
    \cup {c \in Credential :
            saver["loop"] # Idle /\ saver["loop"].of = c /\ Current("loop")}

\* At every moment the process may end, a file is behind its entry only if the
\* change still waits to be marked, queued or saved, or was missed for one of
\* three reasons: no mark is lost between queue, batch and flush, and none is
\* spent on a token that was read before the change.
NothingForgotten == Behind \subseteq Waiting \cup missed

\* A credential whose file has been removed goes out of service, although the
\* watcher skips an event for every file the process writes itself; unless a
\* write has failed that was announced, or has brought the file back.
RemovalNoticed ==
  \A c \in Credential :
    up /\ file[c] = Gone /\ entry[c].token # Gone
      ~> ~up \/ entry[c].disabled \/ c \in failed \cup revived
=============================================================================
