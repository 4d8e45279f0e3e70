-------------------------- MODULE StreamExecution --------------------------
(***************************************************************************)
(* One streamed answer, from the provider's response body to the client:   *)
(*                                                                         *)
(*   body -> reader -pipe-> converter -mid-> forwarder -out-> wrapper      *)
(*                                              -data, errs-> handler      *)
(*                                                                         *)
(* The reader is the goroutine of RunSSEStream (runtime/executor/stream)   *)
(* or the one of the Gemini executor, the converter is                     *)
(* ConvertPipelineToStreamChunk, the forwarder the goroutine of            *)
(* executeStreamWithProvider (provider/execution.go), the wrapper that of  *)
(* wrapStreamChannel and the handler forwardClaudeStream (api/handlers).   *)
(* Beside them run the shared idle watcher and the end of the request's    *)
(* context.  Every channel is bounded and every select is a choice among   *)
(* its enabled branches.                                                   *)
(***************************************************************************)
EXTENDS Integers, Sequences, FiniteSets, SequencesExt

CONSTANTS
  Auth,   \* the credentials of the provider
  Mode,   \* the kinds of reader: "sse", "scanner", "verbatim"
  Lines,  \* bound: the lines upstream sends
  Depth   \* the capacity of every channel

\* "sse" is RunSSEStream with a translator, "verbatim" RunSSEStream with
\* PassthroughOnEmpty and a processor that returns no chunks, "scanner" the
\* reader that the Gemini executor has of its own.
ASSUME StreamAssumption ==
  /\ IsFiniteSet(Auth)
  /\ Mode \subseteq {"sse", "scanner", "verbatim"}
  /\ Lines \in Nat /\ Depth \in Nat \ {0}

VARIABLES
  mode,     \* the kind of reader this request gets
  call,     \* where executeStreamWithProvider is
  tried,    \* its map of that name
  reports,  \* history: the calls of the breaker's callback
  marks,    \* history: what MarkResult learned of the credential that streams
  ctx,      \* the request's context has ended
  gone,     \* the client has closed its connection
  body,     \* the response body is open
  entry,    \* the idle watcher's map holds the stream
  idled,    \* the watcher has cancelled the stream's own context
  quiet,    \* nothing was read for longer than the idle timeout
  checking, \* checkStreams has the stream in its list
  rd,       \* where the reader is
  todo,     \* the chunks it has to send
  next,     \* where it goes when they are sent
  read,     \* lines read
  stale,    \* verbatim: the lines up to this one are overwritten in the buffer
  chan,     \* the channels
  open,     \* the channels that are not closed
  errs,     \* the wrapper's error channel, capacity 1
  at,       \* where converter, forwarder and wrapper are
  hand,     \* the chunk each of them holds
  failed,   \* the forwarder's local of that name
  sent,     \* history: the chunks the reader has put into its pipeline
  shown,    \* history: what the client was sent
  client    \* how the handler has ended

calling == <<mode, call, tried>>
watcher == <<entry, idled, quiet, checking>>
reader == <<rd, todo, next, read, stale, sent>>
relays == <<at, hand, failed, reports, marks, errs>>
handler == <<shown, client>>
vars == <<calling, ctx, gone, body, watcher, reader, chan, open, relays, handler>>

Channel == {"pipe", "mid", "out", "data"}
Relay == {"convert", "forward", "wrap"}
From == [convert |-> "pipe", forward |-> "mid", wrap |-> "out"]
To == [convert |-> "mid", forward |-> "out", wrap |-> "data"]

\* A chunk is a line's translation, what ProcessDone flushes, an error event
\* sent as data, or an error (one that is a cancellation is an "abort").
Chunk == [kind : {"line", "tail", "notice", "error", "abort"}, line : 0..Lines]
Line(n) == [kind |-> "line", line |-> n]
Only(kind) == [kind |-> kind, line |-> 0]
NoChunk == [kind |-> "none", line |-> 0]
IsError(c) == c.kind \in {"error", "abort"}

Init ==
  /\ mode \in Mode
  /\ call = "allow" /\ tried = {}
  /\ reports = <<>> /\ marks = <<>>
  /\ ctx = FALSE /\ gone = FALSE
  /\ body = FALSE
  /\ entry = FALSE /\ idled = FALSE /\ quiet = FALSE /\ checking = FALSE
  /\ rd = "off" /\ todo = <<>> /\ next = "scan"
  /\ read = 0 /\ stale = 0 /\ sent = <<>>
  /\ chan = [c \in Channel |-> <<>>]
  /\ open = Channel
  /\ errs = <<>>
  /\ at = [g \in Relay |-> "off"]
  /\ hand = [g \in Relay |-> NoChunk]
  /\ failed = FALSE
  /\ shown = <<>> /\ client = "waiting"

-----------------------------------------------------------------------------
(* executeStreamWithProvider: the breaker, the choice of a credential      *)

Report(ok) == reports' = Append(reports, ok)

Unopened == <<mode, ctx, gone, body, watcher, reader, chan, open, at, hand,
              failed, marks, errs, handler>>

\* breaker.Allow refuses: there is no callback.
Refuse ==
  /\ call = "allow"
  /\ call' = "refused"
  /\ UNCHANGED <<tried, reports, Unopened>>

Allow ==
  /\ call = "allow"
  /\ call' = "open"
  /\ UNCHANGED <<tried, reports, Unopened>>

\* pickNextFromRegistry finds none: all have been tried, are blocked or gone.
PickFails ==
  /\ call = "open"
  /\ call' = "failed"
  /\ Report(FALSE)
  /\ UNCHANGED <<tried, Unopened>>

\* A credential's call fails or is not ready: the loop goes on.
OpenFails(a) ==
  /\ call = "open" /\ a \notin tried
  /\ tried' = tried \cup {a}
  /\ UNCHANGED <<call, reports, Unopened>>

\* The context ended during the call.
OpenCanceled(a) ==
  /\ call = "open" /\ a \notin tried
  /\ ctx
  /\ tried' = tried \cup {a}
  /\ call' = "failed"
  /\ Report(FALSE)
  /\ UNCHANGED Unopened

\* The response arrives: its body is open, every goroutine starts.
Opens(a) ==
  /\ call = "open" /\ a \notin tried
  /\ tried' = tried \cup {a}
  /\ call' = "streaming"
  /\ body' = TRUE
  /\ rd' = "start"
  /\ at' = [g \in Relay |-> "recv"]
  /\ UNCHANGED <<mode, reports, marks, ctx, gone, watcher, todo, next, read,
                 stale, sent, chan, open, hand, failed, errs, handler>>

-----------------------------------------------------------------------------
(* The reader                                                              *)

Reading == <<calling, ctx, gone, relays, handler>>

\* NewLineScanner registers the stream with the watcher; the Gemini
\* executor's scanner reads the body as it is.
Register ==
  /\ rd = "start"
  /\ rd' = "scan"
  /\ entry' = (mode # "scanner")
  /\ quiet' = FALSE
  /\ UNCHANGED <<Reading, idled, checking, body, todo, next, read, stale,
                 sent, chan, open>>

\* The chunks the reader has to send before it scans on or returns.
Deliver(chunks, then) ==
  IF chunks = <<>>
  THEN rd' = then /\ todo' = <<>> /\ next' = "scan"
  ELSE rd' = "send" /\ todo' = chunks /\ next' = then

\* What a processor's error leaves: the flush, then an error event as data
\* (RunSSEStream) or an error (the Gemini executor).
ProcessorFailed ==
  <<Only("tail"), Only(IF mode = "scanner" THEN "error" ELSE "notice")>>

\* A line is read: the watcher is touched, the context checked, the line
\* processed.  ReadSlice returns a part of the reader's buffer, which a later
\* read may overwrite.
ReadLine ==
  /\ rd = "scan" /\ body /\ read < Lines
  /\ read' = read + 1
  /\ quiet' = FALSE
  /\ stale' \in (IF mode = "verbatim" THEN {stale, read} ELSE {stale})
  /\ \/ ctx /\ Deliver(<<>>, "close")
     \/ ~ctx /\ Deliver(<<Line(read + 1)>>, "scan")
     \/ ~ctx /\ mode # "verbatim" /\ Deliver(ProcessorFailed, "close")
  /\ UNCHANGED <<Reading, entry, idled, checking, body, sent, chan, open>>

\* What follows the scan loop.  The Gemini executor sends every error;
\* RunSSEStream flushes first and takes every error that says EOF, and a
\* cancellation, for an expected end.
ScannerClosing(kind) ==
  CASE kind = "eof" -> <<Only("tail")>>
    [] kind = "canceled" -> <<Only("abort")>>
    [] OTHER -> <<Only("error")>>

SseClosing(kind) ==
  (IF mode = "sse" THEN <<Only("tail")>> ELSE <<>>)
    \o (IF kind = "broken" THEN <<Only("notice")>> ELSE <<>>)

Closing(kind) ==
  IF mode = "scanner" THEN ScannerClosing(kind) ELSE SseClosing(kind)

ScanEnds(kind) ==
  /\ rd = "scan"
  /\ \/ Deliver(Closing(kind), "close")
     \/ mode = "sse" /\ Deliver(<<Only("error")>>, "close")  \* ProcessDone fails
  /\ UNCHANGED <<Reading, watcher, body, read, stale, sent, chan, open>>

\* Upstream ends the body: in order, too early ("unexpected EOF"), or by
\* another error.
UpstreamEnds == body /\ \E kind \in {"eof", "truncated", "broken"} : ScanEnds(kind)

\* Reading fails here: someone has closed the body, or the context has ended.
ReadFails ==
  \/ ~body /\ ScanEnds("broken")
  \/ ctx /\ ScanEnds("canceled")

\* Pipeline.Send: the channel has room, or the context has ended.
Send ==
  /\ rd = "send"
  /\ Len(chan["pipe"]) < Depth
  /\ chan' = [chan EXCEPT !["pipe"] = Append(@, Head(todo))]
  /\ sent' = Append(sent, Head(todo))
  /\ todo' = Tail(todo)
  /\ IF Len(todo) = 1
     THEN rd' = next /\ next' = "scan"
     ELSE UNCHANGED <<rd, next>>
  /\ UNCHANGED <<Reading, watcher, body, read, stale, open>>

\* Mutant: the send does not watch the context.
SendBlocks == Send

SendAbandoned ==
  /\ rd = "send" /\ ctx
  /\ Deliver(<<>>, "close")
  /\ UNCHANGED <<Reading, watcher, body, read, stale, sent, chan, open>>

\* The deferred calls: the stream leaves the watcher's map, the body is closed.
ReaderCloses ==
  /\ rd = "close"
  /\ rd' = "done"
  /\ entry' = FALSE
  /\ body' = FALSE
  /\ UNCHANGED <<Reading, idled, quiet, checking, todo, next, read, stale,
                 sent, chan, open>>

\* Pipeline.Close: all goroutines of the group have returned.
PipelineCloses ==
  /\ rd = "done" /\ "pipe" \in open
  /\ open' = open \ {"pipe"}
  /\ UNCHANGED <<Reading, watcher, body, reader, chan>>

-----------------------------------------------------------------------------
(* The idle watcher and the end of the context                             *)

Watching == <<calling, ctx, gone, reader, chan, open, relays, handler>>

\* The idle timeout passes without a read.
Quiet ==
  /\ entry /\ ~quiet
  /\ quiet' = TRUE
  /\ UNCHANGED <<Watching, body, entry, idled, checking>>

\* checkStreams copies the map under its lock.
Collect ==
  /\ entry /\ ~checking
  /\ checking' = TRUE
  /\ UNCHANGED <<Watching, body, entry, idled, quiet>>

\* Mutant: an idle stream's own context is cancelled, its body stays open.
InspectCancels ==
  /\ checking
  /\ checking' = FALSE
  /\ idled' = (idled \/ (entry /\ ~ctx /\ quiet))
  /\ UNCHANGED <<Watching, body, entry, quiet>>

\* Then, without the lock, it looks at each.  A stream that is done, idled or
\* whose context has ended is passed over.
Inspect ==
  /\ checking
  /\ checking' = FALSE
  /\ IF entry /\ ~ctx /\ ~idled /\ quiet
     THEN body' = FALSE /\ idled' = TRUE
     ELSE UNCHANGED <<body, idled>>
  /\ UNCHANGED <<Watching, entry, quiet>>

\* context.AfterFunc: the body is closed, the entry removed.
AfterContext ==
  /\ ctx /\ entry
  /\ body' = FALSE
  /\ entry' = FALSE
  /\ UNCHANGED <<Watching, idled, quiet, checking>>

-----------------------------------------------------------------------------
(* Converter, forwarder, wrapper                                           *)

Relaying == <<calling, ctx, gone, body, watcher, reader, handler>>

Arrived(g) == at[g] = "recv" /\ chan[From[g]] # <<>>
Arrival(g) == Head(chan[From[g]])
Drained(g) == at[g] = "recv" /\ chan[From[g]] = <<>> /\ From[g] \notin open
Consume(g) == chan' = [chan EXCEPT ![From[g]] = Tail(@)]
Hold(g, c) == /\ hand' = [hand EXCEPT ![g] = c]
              /\ at' = [at EXCEPT ![g] = "send"]

\* The goroutine returns; its deferred call closes its channel.
Return(g) ==
  /\ at' = [at EXCEPT ![g] = "done"]
  /\ hand' = [hand EXCEPT ![g] = NoChunk]
  /\ open' = open \ {To[g]}

\* A select's other branch: the context has ended.
Interrupted(g) == ctx /\ at[g] \in {"recv", "send"}

\* A held chunk goes on.
Put(g) ==
  /\ at[g] = "send"
  /\ Len(chan[To[g]]) < Depth
  /\ chan' = [chan EXCEPT ![To[g]] = Append(@, hand[g])]
  /\ at' = [at EXCEPT ![g] = "recv"]
  /\ hand' = [hand EXCEPT ![g] = NoChunk]
  /\ UNCHANGED <<Relaying, open, failed, reports, marks, errs>>

ConvertTakes ==
  /\ Arrived("convert")
  /\ Consume("convert")
  /\ Hold("convert", Arrival("convert"))
  /\ UNCHANGED <<Relaying, open, failed, reports, marks, errs>>

ConvertEnds ==
  /\ Drained("convert") \/ Interrupted("convert")
  /\ Return("convert")
  /\ UNCHANGED <<Relaying, chan, failed, reports, marks, errs>>

\* Mutant: the failure is recorded but not remembered.
ForwardForgets ==
  /\ Arrived("forward")
  /\ Consume("forward")
  /\ Hold("forward", Arrival("forward"))
  /\ marks' = IF IsError(Arrival("forward")) THEN Append(marks, "failure") ELSE marks
  /\ UNCHANGED <<Relaying, open, failed, reports, errs>>

\* The forwarder passes a chunk on; the first error is the stream's failure.
ForwardTakes ==
  LET c == Arrival("forward")
      fails == IsError(c) /\ ~failed
  IN /\ Arrived("forward")
     /\ ~(c.kind = "abort" /\ ~failed)
     /\ Consume("forward")
     /\ Hold("forward", c)
     /\ failed' = (failed \/ fails)
     /\ marks' = IF fails THEN Append(marks, "failure") ELSE marks
     /\ UNCHANGED <<Relaying, open, reports, errs>>

\* Mutant: a cancellation is reported, and the goroutine goes on.
ForwardAbortsOn ==
  /\ Arrived("forward")
  /\ Arrival("forward").kind = "abort" /\ ~failed
  /\ Consume("forward")
  /\ Report(TRUE)
  /\ UNCHANGED <<Relaying, at, hand, open, failed, marks, errs>>

\* An error that is a cancellation is no failure; the rest is not read.
ForwardAborts ==
  /\ Arrived("forward")
  /\ Arrival("forward").kind = "abort" /\ ~failed
  /\ Consume("forward")
  /\ Report(TRUE)
  /\ Return("forward")
  /\ UNCHANGED <<Relaying, failed, marks, errs>>

\* The stream is complete.
ForwardEnds ==
  /\ Drained("forward")
  /\ marks' = IF failed THEN marks ELSE Append(marks, "success")
  /\ Report(~failed)
  /\ Return("forward")
  /\ UNCHANGED <<Relaying, chan, failed, errs>>

ForwardInterrupted ==
  /\ Interrupted("forward")
  /\ Report(~failed)
  /\ Return("forward")
  /\ UNCHANGED <<Relaying, chan, failed, marks, errs>>

WrapTakes ==
  /\ Arrived("wrap") /\ ~IsError(Arrival("wrap"))
  /\ Consume("wrap")
  /\ Hold("wrap", Arrival("wrap"))
  /\ UNCHANGED <<Relaying, open, failed, reports, marks, errs>>

\* An error goes into the other channel and is the last thing read.
WrapFails ==
  /\ Arrived("wrap") /\ IsError(Arrival("wrap"))
  /\ Consume("wrap")
  /\ errs' \in {<<Arrival("wrap")>>} \cup (IF ctx THEN {errs} ELSE {})
  /\ Return("wrap")
  /\ UNCHANGED <<Relaying, failed, reports, marks>>

WrapEnds ==
  /\ Drained("wrap") \/ Interrupted("wrap")
  /\ Return("wrap")
  /\ UNCHANGED <<Relaying, chan, failed, reports, marks, errs>>

-----------------------------------------------------------------------------
(* The handler and its client                                              *)

Handling == <<calling, gone, body, watcher, reader, open, at, hand, failed,
              reports, marks>>

\* The bytes of a chunk when they are written out.
Written(c) ==
  IF mode = "verbatim" /\ c.kind = "line" /\ c.line <= stale THEN Only("line") ELSE c

Show ==
  /\ client = "waiting" /\ chan["data"] # <<>>
  /\ shown' = Append(shown, Written(Head(chan["data"])))
  /\ chan' = [chan EXCEPT !["data"] = Tail(@)]
  /\ UNCHANGED <<Handling, ctx, errs, client>>

\* The handler returns and cancels the request's context.
HandlerReturns(how) ==
  /\ client' = how
  /\ ctx' = TRUE
  /\ UNCHANGED <<Handling, chan, shown>>

\* Mutant: a closed channel is taken for an empty one.
ShowEndEarly ==
  /\ client = "waiting"
  /\ "data" \notin open
  /\ HandlerReturns("end")
  /\ UNCHANGED errs

ShowEnd ==
  /\ client = "waiting"
  /\ chan["data"] = <<>> /\ "data" \notin open
  /\ HandlerReturns("end")
  /\ UNCHANGED errs

ShowError ==
  /\ client = "waiting" /\ errs # <<>>
  /\ errs' = <<>>
  /\ HandlerReturns("error")

\* ExecuteStream has failed: the error is all there is.
ShowFailure ==
  /\ client = "waiting" /\ call \in {"refused", "failed"}
  /\ HandlerReturns("error")
  /\ UNCHANGED errs

\* The client closes its connection, and with it the context.
Leave ==
  /\ client = "waiting" /\ ~gone
  /\ gone' = TRUE
  /\ ctx' = TRUE
  /\ UNCHANGED <<calling, body, watcher, reader, chan, open, relays, handler>>

NoticeGone ==
  /\ client = "waiting" /\ gone
  /\ HandlerReturns("gone")
  /\ UNCHANGED errs

-----------------------------------------------------------------------------
Caller ==
  \/ Refuse \/ Allow \/ PickFails
  \/ \E a \in Auth : OpenFails(a) \/ OpenCanceled(a) \/ Opens(a)

Reader ==
  Register \/ ReadFails \/ Send \/ SendAbandoned \/ ReaderCloses \/ PipelineCloses

Convert == Put("convert") \/ ConvertTakes \/ ConvertEnds
Forward == Put("forward") \/ ForwardTakes \/ ForwardAborts \/ ForwardEnds
             \/ ForwardInterrupted
Wrap == Put("wrap") \/ WrapTakes \/ WrapFails \/ WrapEnds
Handler == Show \/ ShowEnd \/ ShowError \/ ShowFailure \/ NoticeGone
Upstream == ReadLine \/ UpstreamEnds

Next ==
  \/ Caller \/ Upstream \/ Reader \/ Convert \/ Forward \/ Wrap \/ Handler
  \/ Quiet \/ Collect \/ Inspect \/ AfterContext \/ Leave

\* Goroutines run, tickers tick, time passes.  Nothing is assumed of upstream:
\* it may never answer, never send, never end.
Fairness ==
  /\ WF_vars(Reader) /\ WF_vars(Convert) /\ WF_vars(Forward)
  /\ WF_vars(Wrap) /\ WF_vars(Handler)
  /\ WF_vars(Allow) /\ WF_vars(\E a \in Auth : OpenCanceled(a))
  /\ WF_vars(Auth \subseteq tried /\ PickFails)
  /\ WF_vars(Quiet) /\ WF_vars(Collect) /\ WF_vars(Inspect)
  /\ WF_vars(AfterContext)

Spec == Init /\ [][Next]_vars
FairSpec == Spec /\ Fairness
-----------------------------------------------------------------------------
(* What is checked                                                         *)

\* Every variable has its type.
TypeOK ==
  /\ mode \in Mode
  /\ call \in {"allow", "refused", "open", "streaming", "failed"}
  /\ tried \subseteq Auth
  /\ reports \in Seq(BOOLEAN) /\ marks \in Seq({"success", "failure"})
  /\ ctx \in BOOLEAN /\ gone \in BOOLEAN /\ body \in BOOLEAN
  /\ entry \in BOOLEAN /\ idled \in BOOLEAN /\ quiet \in BOOLEAN
  /\ checking \in BOOLEAN /\ failed \in BOOLEAN
  /\ rd \in {"off", "start", "scan", "send", "close", "done"}
  /\ next \in {"scan", "close"}
  /\ todo \in Seq(Chunk) /\ sent \in Seq(Chunk) /\ shown \in Seq(Chunk)
  /\ read \in 0..Lines /\ stale \in 0..read
  /\ chan \in [Channel -> Seq(Chunk)]
  /\ \A c \in Channel : Len(chan[c]) <= Depth
  /\ open \subseteq Channel
  /\ errs \in Seq(Chunk) /\ Len(errs) <= 1
  /\ at \in [Relay -> {"off", "recv", "send", "done"}]
  /\ hand \in [Relay -> Chunk \cup {NoChunk}]
  /\ client \in {"waiting", "end", "error", "gone"}

\* The breaker's callback is called once for every Allow: when the call has
\* failed to open a stream, or when the forwarder returns, on whichever of its
\* five ways out, and never before (streaming_breaker.go:43 "MUST be called").
OneReport ==
  Len(reports) = IF call = "failed" \/ at["forward"] = "done" THEN 1 ELSE 0

\* The verdict is honest about errors that travel as errors, four channels
\* away from where they arise: unless the context has ended, a stream whose
\* reader sent an error is never reported as a success, and the credential
\* learns of one outcome only, which agrees with the verdict.
HonestReport ==
  (call = "streaming" /\ reports # <<>> /\ ~ctx) =>
    LET erred == \E i \in DOMAIN sent : IsError(sent[i])
    IN /\ reports = <<~erred>>
       /\ marks = <<IF erred THEN "failure" ELSE "success">>

\* What the client is shown is what the reader sent, line by line, in order and
\* with the bytes that were read; an error is the last thing it sends and is not
\* shown as data; and a client that is shown the end of a stream it did not leave
\* was shown everything else.
WholeAnswer ==
  LET data == IF sent # <<>> /\ IsError(Last(sent)) THEN Front(sent) ELSE sent
  IN /\ \A i \in DOMAIN data : ~IsError(data[i])
     /\ IsPrefix(shown, data)
     /\ (client = "end" /\ ~gone) => shown = data

\* Nothing of the request is left.
Over ==
  /\ client # "waiting"
  /\ call \in {"refused", "failed"} \/ (rd = "done" /\ \A g \in Relay : at[g] = "done")
  /\ ~entry /\ ~body

\* However upstream behaves, once the context has ended every goroutine of the
\* request returns, its body is closed and the watcher forgets it.
Released == ctx ~> Over

\* A stream of RunSSEStream comes to an end even if upstream falls silent with
\* the connection open and the client stays: the watcher closes the body.
StallEnds == (call = "streaming" /\ mode # "scanner") ~> Over

(* What the code's own comments say, and the runs show otherwise           *)

\* A stream that fails midway is a failure to the breaker, whether the error
\* travels as an error or as an event in the data (streaming_breaker.go:47).
FailureReported ==
  (call = "streaming" /\ reports = <<TRUE>> /\ ~ctx) =>
    \A i \in DOMAIN sent : sent[i].kind \in {"line", "tail"}

\* An error that reaches the handler is shown to the client that waits for it
\* (code_handlers.go:180).
ErrorsShown ==
  (client = "end" /\ ~gone) => ~\E i \in DOMAIN sent : IsError(sent[i])
=============================================================================
