---------------------------- MODULE UsagePipeline ----------------------------
(***************************************************************************)
(* The usage record of a call, from the executor to the database:          *)
(*                                                                         *)
(*   UsageReporter -> Manager.queue -> dispatcher -> Counters, recordChan  *)
(*       -> writeLoop's batch -> usage_records                             *)
(*                                                                         *)
(* (runtime/executor/usage_helpers.go, usage/types.go, logger_plugin.go,   *)
(* counters.go, sqlite_backend.go; the PostgreSQL backend has the same     *)
(* loops), with the shutdown of the service (service/service.go and        *)
(* api/server.go) and the end of the process at any moment.                *)
(***************************************************************************)
EXTENDS Integers, Sequences, FiniteSets, SequencesExt

CONSTANTS
  Call,    \* bound: the calls that are made
  Buffer,     \* the capacity of recordChan
  BatchSize,  \* the records written in one transaction
  MaxBoots    \* bound: how often the process is started again

ASSUME UsageAssumption ==
  /\ IsFiniteSet(Call)
  /\ Buffer \in Nat \ {0} /\ BatchSize \in Nat \ {0}
  /\ MaxBoots \in Nat

VARIABLES
  phase,        \* where the HTTP handler of a call is
  once,      \* sync.Once of the call's reporter: it has published
  failed,    \* Record.Failed, as published
  born,      \* history: the boot in which the record was published
  accepted,  \* history: the records in the order the manager queued them
  queue,     \* Manager.queue
  closed,    \* Manager.closed
  dispatch,  \* where Manager.run is
  item,      \* the record it dispatches, if any
  enabled,   \* statisticsEnabled
  counters,  \* the plugin's Counters
  base,      \* history: the counters as Bootstrap left them
  chan,      \* recordChan
  batch,     \* writeLoop's local of that name
  writer,    \* where writeLoop is
  cleaner,   \* where cleanupLoop is
  stopping,  \* stopChan is closed
  owed,      \* history: what recordChan and batch held when it was closed
  table,     \* usage_records: the record of each row, by its id
  lastRow,   \* the highest id that has been given to a row
  fate,      \* history: how a record that is nowhere any more was lost
  service,   \* where Shutdown is
  boots      \* how often the process has been started again

calls == <<phase, once, failed, born>>
manager == <<accepted, queue, closed, dispatch, item>>
plugin == <<enabled, counters, base>>
backend == <<chan, batch, writer, cleaner, stopping, owed>>
database == <<table, lastRow>>
usageVars == <<calls, manager, plugin, backend, database, fate, service, boots>>

NoCount == [total |-> 0, success |-> 0, failure |-> 0]

UsageInit ==
  /\ phase = [r \in Call |-> "new"]
  /\ once = [r \in Call |-> FALSE]
  /\ failed = [r \in Call |-> FALSE]
  /\ born = [r \in Call |-> 0]
  /\ accepted = <<>> /\ queue = <<>> /\ closed = FALSE
  /\ dispatch = "wait" /\ item = <<>>
  /\ enabled = TRUE
  /\ counters = NoCount /\ base = NoCount
  /\ chan = <<>> /\ batch = <<>>
  /\ writer = "select" /\ cleaner = "select"
  /\ stopping = FALSE /\ owed = {}
  /\ table = <<>> /\ lastRow = 0
  /\ fate = [r \in Call |-> "none"]
  /\ service = "run"
  /\ boots = 0

Rows == Range(table)

Alive == service # "exited"

\* The records of a set are gone, for a reason.
Lose(S, how) == fate' = [r \in Call |-> IF r \in S THEN how ELSE fate[r]]

-----------------------------------------------------------------------------
(* The calls: a handler, and the reporter that may outlive it              *)

Arrive(r) ==
  /\ service = "run" /\ phase[r] = "new"
  /\ phase' = [phase EXCEPT ![r] = "serving"]
  /\ UNCHANGED <<once, failed, born, manager, plugin, backend, database, fate,
                 service, boots>>

\* The goroutine of a stream may go on for a while, and publish then.
Leave(r) ==
  /\ Alive /\ phase[r] = "serving"
  /\ phase' = [phase EXCEPT ![r] = "left"]
  /\ UNCHANGED <<once, failed, born, manager, plugin, backend, database, fate,
                 service, boots>>

\* Publish, PublishFailure or EnsurePublished, whichever comes first; a
\* call that ends in a user error comes to none of them.
Publish(r, f) ==
  /\ Alive /\ phase[r] \in {"serving", "left"} /\ ~once[r]
  /\ once' = [once EXCEPT ![r] = TRUE]
  /\ failed' = [failed EXCEPT ![r] = f]
  /\ born' = [born EXCEPT ![r] = boots]
  /\ IF closed
     THEN /\ Lose({r}, "closed")
          /\ UNCHANGED <<queue, accepted>>
     ELSE /\ queue' = Append(queue, r)
          /\ accepted' = Append(accepted, r)
          /\ UNCHANGED fate
  /\ UNCHANGED <<phase, closed, dispatch, item, plugin, backend, database, service,
                 boots>>

-----------------------------------------------------------------------------
(* Manager.run and the plugin it calls                                     *)

Take ==
  /\ Alive /\ dispatch = "wait" /\ queue # <<>>
  /\ item' = <<Head(queue)>>
  /\ queue' = Tail(queue)
  /\ dispatch' = "handle"
  /\ UNCHANGED <<calls, accepted, closed, plugin, backend, database, fate,
                 service, boots>>

\* Mutant.  An empty queue ends the dispatcher, closed or not.
DispatcherEndsEarly ==
  /\ Alive /\ dispatch = "wait" /\ queue = <<>>
  /\ dispatch' = "done"
  /\ UNCHANGED <<calls, accepted, queue, closed, item, plugin, backend, database,
                 fate, service, boots>>

DispatcherEnds ==
  /\ Alive /\ dispatch = "wait" /\ queue = <<>> /\ closed
  /\ dispatch' = "done"
  /\ UNCHANGED <<calls, accepted, queue, closed, item, plugin, backend, database,
                 fate, service, boots>>

\* HandleUsage returns at once when statistics are switched off.
Skip ==
  /\ Alive /\ dispatch = "handle" /\ ~enabled
  /\ dispatch' = "wait"
  /\ item' = <<>>
  /\ Lose({item[1]}, "disabled")
  /\ UNCHANGED <<calls, accepted, queue, closed, plugin, backend, database,
                 service, boots>>

\* Counters.Record
Counted(c, f) ==
  [c EXCEPT !.total = @ + 1,
            !.failure = IF f THEN @ + 1 ELSE @,
            !.success = IF f THEN @ ELSE @ + 1]

Record ==
  /\ Alive /\ dispatch = "handle" /\ enabled
  /\ counters' = Counted(counters, failed[item[1]])
  /\ dispatch' = "enqueue"
  /\ UNCHANGED <<calls, accepted, queue, closed, item, enabled, base, backend,
                 database, fate, service, boots>>

\* Enqueue never blocks: a full channel loses the record.
Enqueue ==
  /\ Alive /\ dispatch = "enqueue"
  /\ dispatch' = "wait"
  /\ item' = <<>>
  /\ IF Len(chan) < Buffer
     THEN /\ chan' = chan \o item
          /\ UNCHANGED fate
     ELSE /\ Lose({item[1]}, "full")
          /\ UNCHANGED chan
  /\ UNCHANGED <<calls, accepted, queue, closed, plugin, batch, writer, cleaner,
                 stopping, owed, database, service, boots>>

\* UpdateClients of the server, after the configuration file has changed.
SetStatisticsEnabled ==
  /\ Alive
  /\ enabled' = ~enabled
  /\ UNCHANGED <<calls, manager, counters, base, backend, database, fate, service,
                 boots>>

-----------------------------------------------------------------------------
(* SQLiteBackend.writeLoop and cleanupLoop                                 *)

Others == <<calls, manager, plugin, service, boots>>

\* A record is taken in the loop, or in the draining loop; a full batch is
\* flushed before the next turn of the same loop.
Receive ==
  /\ Alive /\ writer \in {"select", "drain"} /\ chan # <<>>
  /\ batch' = Append(batch, Head(chan))
  /\ chan' = Tail(chan)
  /\ writer' = IF Len(batch) + 1 < BatchSize THEN writer
               ELSE IF writer = "select" THEN "flush" ELSE "drainflush"
  /\ UNCHANGED <<Others, cleaner, stopping, owed, database, fate>>

Tick ==
  /\ Alive /\ writer = "select" /\ batch # <<>>
  /\ writer' = "flush"
  /\ UNCHANGED <<Others, chan, batch, cleaner, stopping, owed, database, fate>>

\* Mutant.  The loop that sees the stop flushes its batch but does not drain.
SeesStopUndrained ==
  /\ Alive /\ writer = "select" /\ stopping
  /\ writer' = IF batch = <<>> THEN "done" ELSE "lastflush"
  /\ UNCHANGED <<Others, chan, batch, cleaner, stopping, owed, database, fate>>

SeesStop ==
  /\ Alive /\ writer = "select" /\ stopping
  /\ writer' = "drain"
  /\ UNCHANGED <<Others, chan, batch, cleaner, stopping, owed, database, fate>>

Drained ==
  /\ Alive /\ writer = "drain" /\ chan = <<>>
  /\ writer' = IF batch = <<>> THEN "done" ELSE "lastflush"
  /\ UNCHANGED <<Others, chan, batch, cleaner, stopping, owed, database, fate>>

\* The database numbers its rows, and never gives a number again.
NewIds == lastRow + 1 .. lastRow + Len(batch)

Insert ==
  /\ table' = [id \in DOMAIN table \cup NewIds |->
                 IF id \in NewIds THEN batch[id - lastRow] ELSE table[id]]
  /\ lastRow' = lastRow + Len(batch)

\* Mutant.  A failed batch is kept and written again, with the rows that went through.
FlushRetries ==
  /\ Alive /\ writer \in {"flush", "drainflush", "lastflush"}
  /\ writer' = CASE writer = "flush" -> "select"
                 [] writer = "drainflush" -> "drain"
                 [] writer = "lastflush" -> "done"
  /\ Insert
  /\ batch' \in {<<>>, batch}
  /\ UNCHANGED <<Others, chan, cleaner, stopping, owed, fate>>

\* writeBatch is one transaction: all of the batch is written or none of it,
\* and what is not written is not kept either.
Flush ==
  /\ Alive /\ writer \in {"flush", "drainflush", "lastflush"}
  /\ batch' = <<>>
  /\ writer' = CASE writer = "flush" -> "select"
                 [] writer = "drainflush" -> "drain"
                 [] writer = "lastflush" -> "done"
  /\ \/ /\ Insert
        /\ UNCHANGED fate
     \/ /\ Lose(ToSet(batch), "failed")
        /\ UNCHANGED database
  /\ UNCHANGED <<Others, chan, cleaner, stopping, owed>>

\* Cleanup deletes the rows whose retention has passed: any of them.
Cleanup ==
  /\ Alive /\ cleaner = "select"
  /\ \E old \in SUBSET DOMAIN table \ {{}} :
       /\ table' = Restrict(table, DOMAIN table \ old)
       /\ Lose({table[id] : id \in old}, "expired")
  /\ UNCHANGED <<Others, backend, lastRow>>

CleanerSeesStop ==
  /\ Alive /\ cleaner = "select" /\ stopping
  /\ cleaner' = "done"
  /\ UNCHANGED <<Others, chan, batch, writer, stopping, owed, database, fate>>

-----------------------------------------------------------------------------
(* Service.Shutdown, Server.Stop, SQLiteBackend.Stop, Manager.Stop         *)

Rest == <<calls, accepted, queue, dispatch, item, plugin, database, fate, boots>>

BeginShutdown ==
  /\ service = "run"
  /\ service' = "http"
  /\ UNCHANGED <<Rest, closed, backend>>

Serving == \E r \in Call : phase[r] = "serving"

\* http.Server.Shutdown has waited for the handlers, and the backend is
\* stopped: SQLiteBackend.Stop closes stopChan.
StopBackend ==
  /\ service = "http" /\ ~Serving
  /\ service' = "backend"
  /\ stopping' = TRUE
  /\ owed' = ToSet(chan) \cup ToSet(batch)
  /\ UNCHANGED <<Rest, closed, chan, batch, writer, cleaner>>

\* Run has made the context of the shutdown when it started, with 30 seconds:
\* it has expired long since, http.Server.Shutdown fails at once if a handler
\* is still at work, and Server.Stop returns without stopping the backend.
HttpExpired ==
  /\ service = "http" /\ Serving
  /\ service' = "default"
  /\ UNCHANGED <<Rest, closed, backend>>

BackendStopped ==
  /\ service = "backend" /\ writer = "done" /\ cleaner = "done"
  /\ service' = "default"
  /\ UNCHANGED <<Rest, closed, backend>>

\* Manager.Stop does not wait for the dispatcher.
StopDefault ==
  /\ service = "default"
  /\ closed' = TRUE
  /\ service' = "exit"
  /\ UNCHANGED <<Rest, backend>>

\* The end of the process: what is only in memory is gone.
Dispatched == ToSet(queue) \cup ToSet(item)
Unwritten == ToSet(chan) \cup ToSet(batch)

Exited ==
  /\ service' = "exited"
  /\ queue' = <<>> /\ item' = <<>> /\ chan' = <<>> /\ batch' = <<>>
  /\ phase' = [r \in Call |-> IF phase[r] = "new" THEN "new" ELSE "gone"]
  /\ UNCHANGED <<once, failed, born, accepted, closed, dispatch, plugin, writer,
                 cleaner, stopping, owed, database, boots>>

Exit ==
  /\ service = "exit"
  /\ fate' = [r \in Call |-> IF r \in Dispatched THEN "undispatched"
                                ELSE IF r \in Unwritten THEN "unwritten"
                                ELSE fate[r]]
  /\ Exited

Crash ==
  /\ Alive
  /\ Lose(Dispatched \cup Unwritten, "crash")
  /\ Exited

\* Initialize: the counters start from what the table holds, or from zero if
\* the query fails; then the service runs.
CountRows(f) == Cardinality({id \in DOMAIN table : failed[table[id]] = f})
Stored == [total |-> Cardinality(DOMAIN table), success |-> CountRows(FALSE),
           failure |-> CountRows(TRUE)]

Boot ==
  /\ service = "exited" /\ boots < MaxBoots
  /\ boots' = boots + 1
  /\ service' = "run"
  /\ base' \in {Stored, NoCount}
  /\ counters' = base'
  /\ enabled' = TRUE
  /\ closed' = FALSE /\ dispatch' = "wait"
  /\ writer' = "select" /\ cleaner' = "select"
  /\ stopping' = FALSE /\ owed' = {}
  /\ UNCHANGED <<calls, accepted, queue, item, chan, batch, database, fate>>

-----------------------------------------------------------------------------
Dispatching == Take \/ DispatcherEnds \/ Skip \/ Record \/ Enqueue
Writing == Receive \/ Tick \/ SeesStop \/ Drained \/ Flush
Stopping == StopBackend \/ HttpExpired \/ BackendStopped \/ StopDefault \/ Exit

UsageNext ==
  \/ \E r \in Call :
       \/ Arrive(r) \/ Leave(r)
       \/ \E f \in BOOLEAN : Publish(r, f)
  \/ Take \/ DispatcherEnds \/ Skip \/ Record \/ Enqueue
  \/ SetStatisticsEnabled
  \/ Receive \/ Tick \/ SeesStop \/ Drained \/ Flush
  \/ Cleanup \/ CleanerSeesStop
  \/ BeginShutdown \/ StopBackend \/ HttpExpired \/ BackendStopped
  \/ StopDefault \/ Exit \/ Crash \/ Boot

\* Goroutines that can run do run, the flush ticker ticks, and a shutdown that
\* has begun goes on.  Nothing is assumed of the calls, the configuration or
\* the retention, nor of when a shutdown begins.
Fairness ==
  /\ WF_usageVars(Dispatching)
  /\ WF_usageVars(Writing)
  /\ WF_usageVars(CleanerSeesStop)
  /\ WF_usageVars(Stopping)

UsageSpec == UsageInit /\ [][UsageNext]_usageVars
FairUsageSpec == UsageSpec /\ Fairness

-----------------------------------------------------------------------------
(* Properties                                                              *)

Count == [total : Nat, success : Nat, failure : Nat]

CallsTyped ==
  /\ phase \in [Call -> {"new", "serving", "left", "gone"}]
  /\ once \in [Call -> BOOLEAN] /\ failed \in [Call -> BOOLEAN]
  /\ born \in [Call -> 0..MaxBoots]

SwitchesTyped == closed \in BOOLEAN /\ enabled \in BOOLEAN /\ stopping \in BOOLEAN

ManagerTyped ==
  /\ accepted \in Seq(Call) /\ queue \in Seq(Call) /\ item \in Seq(Call)
  /\ dispatch \in {"wait", "handle", "enqueue", "done"}

\* The dispatcher holds a record just while it handles one.
OneItem ==
  /\ Len(item) <= 1
  /\ Alive => (Len(item) = 1 <=> dispatch \in {"handle", "enqueue"})

PluginTyped == counters \in Count /\ base \in Count

BackendTyped ==
  /\ chan \in Seq(Call) /\ batch \in Seq(Call)
  /\ writer \in {"select", "flush", "drain", "drainflush", "lastflush", "done"}
  /\ cleaner \in {"select", "done"}
  /\ owed \subseteq Call

WithinBounds ==
  /\ Len(chan) <= Buffer /\ Len(batch) <= BatchSize
  /\ writer \in {"select", "drain"} => Len(batch) < BatchSize

DatabaseTyped ==
  /\ lastRow \in Nat /\ DOMAIN table \subseteq 1..lastRow
  /\ \A id \in DOMAIN table : table[id] \in Call

FateTyped ==
  fate \in [Call -> {"none", "closed", "disabled", "full", "failed", "expired",
                     "undispatched", "unwritten", "crash"}]

ServiceTyped ==
  /\ service \in {"run", "http", "backend", "default", "exit", "exited"}
  /\ boots \in 0..MaxBoots

UsageTypeOK ==
  /\ CallsTyped /\ SwitchesTyped /\ ManagerTyped /\ OneItem /\ PluginTyped
  /\ BackendTyped /\ WithinBounds /\ DatabaseTyped /\ FateTyped /\ ServiceTyped

\* Everything that is not yet in the table, the oldest first.
Waiting == batch \o chan \o item \o queue

\* A published record is in one place, or was lost for one reason.
Placed ==
  /\ \A r \in Call :
       r \in Rows \cup ToSet(Waiting) <=> once[r] /\ fate[r] = "none"
  /\ IsInjective(table) /\ IsInjective(Waiting)
  /\ Rows \cap ToSet(Waiting) = {}

\* a was accepted before b.
Before(a, b) ==
  \E i, j \in DOMAIN accepted : i < j /\ accepted[i] = a /\ accepted[j] = b

\* Rows are numbered, and records wait, in the order in which the calls reported.
InOrder ==
  /\ \A i, j \in DOMAIN table : i < j => Before(table[i], table[j])
  /\ \A i, j \in DOMAIN Waiting : i < j => Before(Waiting[i], Waiting[j])
  /\ \A a \in Rows, b \in ToSet(Waiting) : Before(a, b)

\* The counters of the dashboard are what the database knew at the start and
\* what this process has handed to the backend since, lost or not.
Handed ==
  {r \in Call :
     /\ once[r] /\ born[r] = boots
     /\ \/ r \in Rows \cup Unwritten
        \/ r \in ToSet(item) /\ dispatch = "enqueue"
        \/ fate[r] \in {"full", "failed", "expired"}}

CountersAgree ==
  Alive =>
    /\ counters.total = base.total + Cardinality(Handed)
    /\ counters.failure = base.failure + Cardinality({r \in Handed : failed[r]})
    /\ counters.total - base.total = (counters.success - base.success)
                                       + (counters.failure - base.failure)

\* No stop, crash, failed transaction or restart writes a record twice, before
\* an earlier one, or into the counters alone.
Accounted == Placed /\ InOrder /\ CountersAgree

\* SQLiteBackend.Stop returns when all that had reached the backend has been
\* written, or has been in a transaction that failed.
StopFlushes ==
  stopping /\ service \in {"default", "exit"} =>
    \A r \in owed : r \in Rows \/ fate[r] \in {"failed", "expired"}

\* A record that was accepted does not stay where it is: it is written, or it
\* is lost for a reason.  And a shutdown that has begun comes to an end: Stop
\* waits for its two loops, and they end.
Settled ==
  /\ \A r \in Call : once[r] ~> (r \in Rows \/ fate[r] # "none")
  /\ service = "http" ~> service = "exited"

\* Violated.  "Stop stops the dispatcher and drains the queue", "Stop usage
\* persistence and flush pending writes": the process does not end in good order
\* with records that the manager had accepted, or that wait for the database.
PendingFlushed == \A r \in Call : fate[r] \notin {"undispatched", "unwritten"}
=============================================================================
