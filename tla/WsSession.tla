----------------------------- MODULE WsSession -----------------------------
(***************************************************************************)
(* internal/wsrelay: one websocket session that relays requests to a       *)
(* connected client and the client's messages back to the requests.        *)
(*                                                                         *)
(* Around the map of pending requests work, without a common lock: the     *)
(* goroutine of each request (LoadOrStore, Load, check, write), the        *)
(* goroutine that watches its context, the reader that dispatches the      *)
(* client's messages, the consumer of each request's channel, and the one  *)
(* clean-up, which the reader, the heart-beat or Stop runs.                *)
(*                                                                         *)
(* A panic in any goroutine but those of requests ends the process; one in *)
(* a request's goroutine ends the request at best.  Here either stops      *)
(* everything.  The assignment s.pending = sync.Map{} is not synchronised; *)
(* it is taken to happen at once.                                          *)
(***************************************************************************)
EXTENDS Integers, FiniteSets, Sequences

CONSTANTS
  Request,   \* requests sent through the session
  Capacity,  \* capacity of a request's channel (8 in the code)
  Chunks,    \* bound: how many chunks the client answers with
  Cleaners,  \* who may run the clean-up: "reader", "heartbeat", "stop"
  MayCancel  \* whether the context of a request may end

ASSUME SessionAssumption ==
  /\ Capacity \in Nat \ {0}
  /\ Chunks \in Nat
  /\ Cleaners \subseteq {"reader", "heartbeat", "stop"}
  /\ MayCancel \in BOOLEAN

VARIABLES
  pending,   \* requests in the map
  channel,   \* each request's channel
  chClosed,  \* the channels that are closed
  pc,        \* where each request's goroutine or consumer is
  got,       \* chunks each consumer has received
  canceled,  \* requests whose context has ended
  watched,   \* requests whose context is watched
  answer,    \* the next message the client has for each request
  reader,    \* where the reader is: the message it dispatches
  closed,    \* session.closed
  cleanup,   \* where the clean-up is
  connOpen,  \* the connection
  panicked   \* why the process has panicked, if it has

vars == <<pending, channel, chClosed, pc, got, canceled, watched, answer,
          reader, closed, cleanup, connOpen, panicked>>
channels == <<channel, chClosed>>
client == <<answer, connOpen>>

\* A chunk is its number; End and Error are the terminal messages.
End == Chunks + 1
Error == Chunks + 2
Message == 1..Error

Reading == [at |-> "read"]
NotStarted == [at |-> "none"]
Final == {"done", "failed", "canceled", "refused"}

Init ==
  /\ pending = {}
  /\ channel = [r \in Request |-> <<>>] /\ chClosed = {}
  /\ pc = [r \in Request |-> "new"] /\ got = [r \in Request |-> {}]
  /\ canceled = {} /\ watched = {}
  /\ answer = [r \in Request |-> 0]
  /\ reader = Reading
  /\ closed = FALSE /\ cleanup = NotStarted /\ connOpen = TRUE
  /\ panicked = "no"

Goto(r, there) == pc' = [pc EXCEPT ![r] = there]
Panic(why) == panicked' = why

-----------------------------------------------------------------------------
(* Operations on a pending request                                         *)

\* pendingRequest.close, guarded by its own Once.
Close(r) == chClosed' = chClosed \cup {r}

\* if _, loaded := LoadAndDelete(id); loaded { close() }
DeleteAndClose(r) ==
  /\ pending' = pending \ {r}
  /\ IF r \in pending THEN Close(r) ELSE UNCHANGED chClosed

\* The send that gives up when the channel is full.  A send on a closed channel
\* panics.
Offer(r, msg) ==
  IF r \in chClosed THEN Panic("send on closed channel") /\ UNCHANGED channel
  ELSE /\ channel' = [channel EXCEPT ![r] =
                        IF Len(@) < Capacity THEN Append(@, msg) ELSE @]
       /\ UNCHANGED panicked

-----------------------------------------------------------------------------
(* session.request                                                         *)

Store(r) ==
  /\ pc[r] = "new"
  /\ pending' = pending \cup {r}
  /\ Goto(r, "load")
  /\ UNCHANGED <<channels, got, canceled, watched, client, reader, closed, cleanup, panicked>>

\* The second look-up, whose result is used whether it finds anything or not.
Load(r) ==
  /\ pc[r] = "load"
  /\ IF r \in pending THEN Goto(r, "check") /\ UNCHANGED panicked
     ELSE Panic("nil request") /\ UNCHANGED pc
  /\ UNCHANGED <<pending, channels, got, canceled, watched, client, reader, closed, cleanup>>

\* Mutant: send does not look whether the session has closed.
CheckNothing(r) ==
  /\ pc[r] = "check"
  /\ Goto(r, "write")
  /\ UNCHANGED <<pending, channels, got, canceled, watched, client, reader, closed, cleanup, panicked>>

\* send looks whether the session has closed.
CheckClosed(r) ==
  /\ pc[r] = "check"
  /\ IF closed THEN Goto(r, "refused") /\ DeleteAndClose(r)
     ELSE Goto(r, "write") /\ UNCHANGED <<pending, chClosed>>
  /\ UNCHANGED <<channel, got, canceled, watched, client, reader, closed, cleanup, panicked>>

Written(r) ==
  /\ pc[r] = "write" /\ connOpen
  /\ Goto(r, "waiting")
  /\ answer' = [answer EXCEPT ![r] = 1]
  /\ watched' = watched \cup {r}
  /\ UNCHANGED <<pending, channels, got, canceled, connOpen, reader, closed, cleanup, panicked>>

\* Mutant: a request that could not be written stays pending.
WriteFailsKeeps(r) ==
  /\ pc[r] = "write"
  /\ Goto(r, "refused")
  /\ UNCHANGED <<pending, channels, got, canceled, watched, client, reader, closed, cleanup, panicked>>

\* A write fails on a closed connection, and may fail on an open one.
WriteFails(r) ==
  /\ pc[r] = "write"
  /\ Goto(r, "refused")
  /\ DeleteAndClose(r)
  /\ UNCHANGED <<channel, got, canceled, watched, client, reader, closed, cleanup, panicked>>

\* The context of a request ends.
ContextEnds(r) ==
  /\ MayCancel
  /\ r \notin canceled
  /\ pc[r] \in {"write", "waiting"}
  /\ canceled' = canceled \cup {r}
  /\ UNCHANGED <<pending, channels, pc, got, watched, client, reader, closed, cleanup, panicked>>

\* The goroutine that watches the context.
WatchContext(r) ==
  /\ r \in watched
  /\ watched' = watched \ {r}
  /\ \/ r \in canceled /\ DeleteAndClose(r)
     \/ closed /\ UNCHANGED <<pending, chClosed>>
  /\ UNCHANGED <<channel, pc, got, canceled, client, reader, closed, cleanup, panicked>>

-----------------------------------------------------------------------------
(* session.run, dispatch and dispatchBinary                                *)

\* ReadMessage, and the first look-up.
ReadMessage(r) ==
  /\ reader.at = "read" /\ connOpen
  /\ answer[r] \in 1..End
  /\ answer' = [answer EXCEPT ![r] = IF @ = End THEN 0 ELSE @ + 1]
  /\ reader' = IF r \in pending THEN [at |-> "send", to |-> r, msg |-> answer[r]] ELSE Reading
  /\ UNCHANGED <<pending, channels, pc, got, canceled, watched, connOpen, closed, cleanup, panicked>>

\* Mutant: a terminal message closes the request before it is sent.
DispatchFinishFirst ==
  /\ reader.at = "send"
  /\ IF reader.msg = End THEN DeleteAndClose(reader.to) /\ reader' = [reader EXCEPT !.msg = Error]
                              /\ UNCHANGED <<channel, panicked>>
     ELSE Offer(reader.to, reader.msg) /\ reader' = Reading /\ UNCHANGED <<pending, chClosed>>
  /\ UNCHANGED <<pc, got, canceled, watched, client, closed, cleanup>>

DispatchSend ==
  /\ reader.at = "send"
  /\ Offer(reader.to, reader.msg)
  /\ reader' = IF reader.msg = End THEN [at |-> "finish", to |-> reader.to] ELSE Reading
  /\ UNCHANGED <<pending, chClosed, pc, got, canceled, watched, client, closed, cleanup>>

DispatchFinish ==
  /\ reader.at = "finish"
  /\ DeleteAndClose(reader.to)
  /\ reader' = Reading
  /\ UNCHANGED <<channel, pc, got, canceled, watched, client, closed, cleanup, panicked>>

\* ReadMessage fails on a connection the clean-up has closed; run returns.
ReaderStops ==
  /\ reader.at = "read" /\ ~connOpen
  /\ reader' = [at |-> "stopped"]
  /\ UNCHANGED <<pending, channels, pc, got, canceled, watched, client, closed, cleanup, panicked>>

-----------------------------------------------------------------------------
(* session.cleanup, once                                                   *)

\* close(s.closed).  The reader runs it when a read fails; the heart-beat and
\* Stop run it while the reader is anywhere.
StartCleanup(who) ==
  /\ cleanup.at = "none"
  /\ who = "reader" => reader.at = "read"
  /\ closed' = TRUE
  /\ cleanup' = [at |-> "range", todo |-> pending]
  /\ reader' = IF who = "reader" THEN [at |-> "stopped"] ELSE reader
  /\ UNCHANGED <<pending, channels, pc, got, canceled, watched, client, panicked>>

\* Range hands over a request that is pending when it gets there.
RangeNext(r) ==
  /\ cleanup.at = "range"
  /\ r \in pending
  /\ r \in cleanup.todo
  /\ cleanup' = [at |-> "error", todo |-> cleanup.todo \ {r}, to |-> r]
  /\ UNCHANGED <<pending, channels, pc, got, canceled, watched, client, reader, closed, panicked>>

\* Range reaches one that was stored after it began.
RangeLate(r) ==
  /\ cleanup.at = "range"
  /\ r \in pending \ cleanup.todo
  /\ pc[r] \in {"load", "check"}
  /\ r \notin chClosed
  /\ cleanup' = [at |-> "error", todo |-> cleanup.todo, to |-> r]
  /\ UNCHANGED <<pending, channels, pc, got, canceled, watched, client, reader, closed, panicked>>

OfferError ==
  /\ cleanup.at = "error"
  /\ Offer(cleanup.to, Error)
  /\ cleanup' = [cleanup EXCEPT !.at = "close"]
  /\ UNCHANGED <<pending, chClosed, pc, got, canceled, watched, client, reader, closed>>

\* Mutant: the clean-up tells the requests and leaves their channels open.
CloseNothing ==
  /\ cleanup.at = "close"
  /\ cleanup' = [at |-> "range", todo |-> cleanup.todo]
  /\ UNCHANGED <<pending, channels, pc, got, canceled, watched, client, reader, closed, panicked>>

CloseRequest ==
  /\ cleanup.at = "close"
  /\ Close(cleanup.to)
  /\ cleanup' = [at |-> "range", todo |-> cleanup.todo]
  /\ UNCHANGED <<pending, channel, pc, got, canceled, watched, client, reader, closed, panicked>>

\* s.pending = sync.Map{}, conn.Close and the manager's handleSessionClosed.
FinishCleanup ==
  /\ cleanup.at = "range"
  /\ cleanup.todo \cap pending = {}
  /\ pending' = {}
  /\ connOpen' = FALSE
  /\ cleanup' = [at |-> "over"]
  /\ UNCHANGED <<channels, pc, got, canceled, watched, answer, reader, closed, panicked>>

-----------------------------------------------------------------------------
(* Manager.NonStream: the consumer of a request's channel                  *)

\* A chunk is collected; End and Error end the request.
Receive(r) ==
  /\ pc[r] = "waiting"
  /\ channel[r] # <<>>
  /\ LET msg == Head(channel[r]) IN
       /\ got' = IF msg \in 1..Chunks THEN [got EXCEPT ![r] = @ \cup {msg}] ELSE got
       /\ IF msg = End THEN Goto(r, "done")
          ELSE IF msg = Error THEN Goto(r, "failed") ELSE UNCHANGED pc
  /\ channel' = [channel EXCEPT ![r] = Tail(@)]
  /\ UNCHANGED <<pending, chClosed, canceled, watched, client, reader, closed, cleanup, panicked>>

\* The channel is closed and empty: a response that has begun is taken as whole.
ReceiveClosed(r) ==
  /\ pc[r] = "waiting"
  /\ channel[r] = <<>> /\ r \in chClosed
  /\ Goto(r, IF got[r] # {} THEN "done" ELSE "failed")
  /\ UNCHANGED <<pending, channels, got, canceled, watched, client, reader, closed, cleanup, panicked>>

GiveUp(r) ==
  /\ pc[r] = "waiting"
  /\ r \in canceled
  /\ Goto(r, "canceled")
  /\ UNCHANGED <<pending, channels, got, canceled, watched, client, reader, closed, cleanup, panicked>>

-----------------------------------------------------------------------------
RequestStep(r) == Store(r) \/ Load(r) \/ CheckClosed(r) \/ Written(r) \/ WriteFails(r)
Consume(r) == Receive(r) \/ ReceiveClosed(r) \/ GiveUp(r)
Reader == (\E r \in Request : ReadMessage(r)) \/ DispatchSend \/ DispatchFinish \/ ReaderStops
Cleanup ==
  \/ \E r \in Request : RangeNext(r) \/ RangeLate(r)
  \/ OfferError \/ CloseRequest \/ FinishCleanup

Next ==
  /\ panicked = "no"
  /\ \/ \E r \in Request : RequestStep(r) \/ Consume(r) \/ ContextEnds(r) \/ WatchContext(r)
     \/ Reader
     \/ \E who \in Cleaners : StartCleanup(who)
     \/ Cleanup

Spec == Init /\ [][Next]_vars

\* Goroutines that are ready go on; the client need not answer, and no context
\* need end.
Running(A) == panicked = "no" /\ A
Fairness ==
  /\ \A r \in Request : /\ WF_vars(Running(RequestStep(r)))
                        /\ WF_vars(Running(Consume(r)))
                        /\ WF_vars(Running(WatchContext(r)))
  /\ WF_vars(Running(DispatchSend \/ DispatchFinish \/ ReaderStops))
  /\ WF_vars(Running(Cleanup))

FairSpec == Spec /\ Fairness

-----------------------------------------------------------------------------
(* Properties                                                              *)

TypeOK ==
  /\ pending \subseteq Request
  /\ channel \in [Request -> Seq(Message)]
  /\ \A r \in Request : Len(channel[r]) <= Capacity
  /\ chClosed \subseteq Request
  /\ pc \in [Request -> {"new", "load", "check", "write", "waiting"} \cup Final]
  /\ got \in [Request -> SUBSET (1..Chunks)]
  /\ canceled \subseteq Request /\ watched \subseteq Request
  /\ answer \in [Request -> 0..End]
  /\ reader.at \in {"read", "send", "finish", "stopped"}
  /\ closed \in BOOLEAN /\ connOpen \in BOOLEAN
  /\ cleanup.at \in {"none", "range", "error", "close", "over"}
  /\ panicked \in {"no", "send on closed channel", "nil request"}

\* Once the session has been cleaned up no request that was sent waits for a
\* channel nobody will close, however its storing interleaved with the clean-up
\* (session.go:201-248).
NoOrphan == cleanup.at = "over" => \A r \in Request : pc[r] = "waiting" => r \in chClosed

\* A request that has ended, however it ended, does not stay in the map once
\* the goroutines that could still delete it have passed.
NoLeak == \A r \in Request :
  /\ pc[r] \in Final
  /\ r \notin watched
  /\ reader.at \in {"send", "finish"} => reader.to # r
  /\ cleanup.at \in {"none", "over"}
  => r \notin pending

\* Only a context that ends or a clean-up makes a send meet a closed channel:
\* the terminal message itself closes it last.
OrderlySession == panicked # "no" => closed \/ canceled # {}

\* After the session has closed, or its context has ended, a request does not
\* wait for ever.
Released ==
  \A r \in Request :
    (closed \/ r \in canceled) /\ pc[r] \notin {"new"} \cup Final
      ~> pc[r] \in Final \/ panicked # "no"

\* internal/wsrelay/manager.go:95, "Stop gracefully closes all active websocket
\* sessions".
GracefulStop == panicked = "no"

\* internal/wsrelay/manager.go:162-163, "Send ... returns a channel yielding
\* response messages": a response that is taken as whole has all its chunks.
WholeResponse == \A r \in Request : pc[r] = "done" => got[r] = 1..Chunks

=============================================================================
