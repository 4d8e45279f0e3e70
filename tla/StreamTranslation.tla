-------------------------- MODULE StreamTranslation --------------------------
(***************************************************************************)
(* The translation of one streamed answer, line by line: a line of the     *)
(* upstream is filtered, parsed into events (translator/to_ir, ir), the    *)
(* events pass StreamTranslator (runtime/executor/stream/translator.go)    *)
(* and are written in the client's format (translator/from_ir).            *)
(*                                                                         *)
(* Upstream is one of five: Claude; Gemini, whose executor filters the     *)
(* usage out of every chunk but the last; Vertex, which sends the same and *)
(* does not filter; chat completions; and the Responses API of Codex.  The *)
(* client speaks Claude's format, whose blocks have to be opened, numbered *)
(* and closed, chat completions, whose tool calls are numbered, or Gemini  *)
(* or Ollama, whose chunks stand for themselves.  One goroutine does all   *)
(* of it: what is hard is the order.                                       *)
(*                                                                         *)
(* A chunk of Gemini has one part here and one of chat completions one     *)
(* delta: several are translated like several chunks.                      *)
(***************************************************************************)
EXTENDS Integers, Sequences, FiniteSets, SequencesExt

CONSTANTS
  Upstream, \* the formats answers come in
  Client,   \* the formats clients ask for
  Lines     \* bound: the lines upstream sends

ASSUME TranslationAssumption ==
  /\ Upstream \subseteq {"claude", "gemini", "vertex", "openai", "responses"}
  /\ Client \subseteq {"claude", "openai", "gemini", "ollama"}
  /\ Lines \in Nat

VARIABLES
  up,         \* the format of the upstream
  to,         \* the format of the client
  src,        \* the body of the response: "open" or "ended"
  raw,        \* the runner's own error chunk: "none", "due" or "sent"
  lines,      \* lines read
  closed,     \* upstream has said why it stops
  said,       \* history: the content upstream has said
  calls,      \* history: the tool calls upstream has made
  todo,       \* the events of the line, still to be translated
  pending,    \* PendingThinkingEvent, by the line it came with
  metaSent,   \* streamMetaSent
  finishSent, \* StreamContext.FinishSent
  hasTools,   \* StreamContext.HasToolCalls
  toolIndex,  \* StreamContext.ToolCallIndex
  cs,         \* ClaudeStreamState
  buffered,   \* PassthroughBuffer.finishSent
  client,     \* what the client makes of what it reads
  shown,      \* history: the content the client was sent
  told        \* history: the reason the client was given for the end

source == <<up, to, src, raw, lines, closed, said, calls, pending>>
translator == <<metaSent, finishSent, hasTools, toolIndex, cs, buffered>>
output == <<client, shown, told>>
vars == <<source, todo, translator, output>>

Event(type, n) == [type |-> type, n |-> n, reason |-> "none"]
Finish(reason) == [type |-> "finish", n |-> 0, reason |-> reason]

\* Claude's own answers go to Claude's clients as they are.
Init ==
  /\ up \in Upstream /\ to \in Client /\ ~(up = "claude" /\ to = "claude")
  /\ src = "open" /\ raw = "none" /\ lines = 0 /\ closed = FALSE
  /\ said = <<>> /\ calls = 0
  /\ todo = <<>> /\ pending = 0
  /\ metaSent = FALSE /\ finishSent = FALSE /\ hasTools = FALSE
  /\ toolIndex = 0
  /\ cs = [open |-> "none", index |-> 0, text |-> FALSE, tools |-> FALSE]
  /\ buffered = FALSE
  /\ client = [at |-> IF to = "claude" THEN "fresh" ELSE "between", next |-> 0]
  /\ shown = <<>> /\ told = "none"

-----------------------------------------------------------------------------
(* A reader of the client's format.  Claude's: a message starts once, its  *)
(* blocks are numbered from 0, each is opened, gets pieces of its own kind *)
(* and is closed before the next; then the message ends and nothing        *)
(* follows.  The others: chunks, in chat completions with tool calls       *)
(* numbered from 0, the reason for the end, and nothing after it.  Where   *)
(* the runner puts an error chunk of its own between them, it reads no     *)
(* further.                                                                *)

Content == {"text", "thinking", "tool"}

Read(c, now, then) == IF now THEN then ELSE [c EXCEPT !.at = "broken"]

MessageStart(c) == Read(c, c.at = "fresh", [c EXCEPT !.at = "between"])
BlockStart(c, i, kind) ==
  Read(c, c.at = "between" /\ i = c.next, [c EXCEPT !.at = kind])
BlockDelta(c, i, kind) == Read(c, c.at = kind /\ i = c.next, c)
BlockStop(c, i) ==
  Read(c, c.at \in Content /\ i = c.next, [at |-> "between", next |-> i + 1])
WholeBlock(c, i, kind) ==
  BlockStop(BlockDelta(BlockStart(c, i, kind), i, kind), i)
MessageStop(c) == Read(c, c.at = "between", [c EXCEPT !.at = "stopped"])

Chunk(c) == Read(c, c.at = "between", c)
ToolChunk(c, i) ==
  Read(c, c.at = "between" /\ i = c.next, [c EXCEPT !.next = i + 1])

\* Whatever the format and wherever it comes.
RawError(c) == Read(c, c.at \notin {"torn", "broken"}, [c EXCEPT !.at = "torn"])

-----------------------------------------------------------------------------
(* Lines                                                                   *)

\* Translate starts a message with the first events there are.
Translate(events) ==
  /\ todo' = events
  /\ metaSent' = (metaSent \/ events # <<>>)
  /\ client' = IF to = "claude" /\ ~metaSent /\ events # <<>>
               THEN MessageStart(client) ELSE client
  /\ UNCHANGED <<finishSent, hasTools, toolIndex, cs, buffered, shown, told>>

\* A line is read when the one before has been translated.
Line(events, items) ==
  /\ src = "open" /\ todo = <<>> /\ lines < Lines
  /\ lines' = lines + 1
  /\ said' = said \o items
  /\ Translate(events)
  /\ UNCHANGED <<up, to, src, raw>>

Here == lines + 1
Item(kind) == [kind |-> kind, n |-> Here]

\* What upstream says of its end is true of what it said before.
Reasons == {"length"} \cup (IF calls = 0 THEN {"stop"} ELSE {"tool"})

(* Gemini and Vertex                                                       *)

GeminiEvents(part) ==
  CASE part = "none" -> <<>>
    [] part = "signature" -> <<Event("signature", Here)>>
    [] OTHER -> <<Event(part, Here)>>

\* FilterSSEUsageMetadata leaves the usage where there is a reason too.
UsageSeen(usage, fin) == usage /\ (up = "vertex" \/ fin # "none")

\* A chunk that has the usage is a finish, whether it has a reason or not.
GeminiFinish(part, usage, fin) ==
  IF fin = "none" /\ ~UsageSeen(usage, fin)
  THEN <<>>
  ELSE <<Finish(IF fin = "length" THEN "length"
                ELSE IF part = "tool" THEN "tool" ELSE "stop")>>

\* Mutant.  The finish goes before what came with it.
GeminiChunkFinishFirst(part, usage, fin) ==
  /\ up \in {"gemini", "vertex"} /\ ~closed
  /\ Line(GeminiFinish(part, usage, fin) \o GeminiEvents(part),
          IF part \in {"none", "signature"} THEN <<>> ELSE <<Item(part)>>)
  /\ calls' = calls + (IF part = "tool" THEN 1 ELSE 0)
  /\ closed' = (fin # "none")
  /\ UNCHANGED pending

\* The parser's own buffer of thinking is never read for output.
GeminiChunk(part, usage, fin) ==
  /\ up \in {"gemini", "vertex"} /\ ~closed
  /\ Line(GeminiEvents(part) \o GeminiFinish(part, usage, fin),
          IF part \in {"none", "signature"} THEN <<>> ELSE <<Item(part)>>)
  /\ calls' = calls + (IF part = "tool" THEN 1 ELSE 0)
  /\ closed' = (fin # "none")
  /\ UNCHANGED pending

(* Claude                                                                  *)

Pending == IF pending = 0 THEN <<>> ELSE <<Event("thinking", pending)>>

\* Whatever is not a signature flushes the buffer, and thinking, which is
\* emitted at once, goes into it as well.  A tool call is one line here: its
\* start and its arguments only fill the parser's maps until its stop.
ClaudeChunk(part) ==
  /\ up = "claude" /\ ~closed
  /\ CASE part = "signature" -> Line(<<>>, <<>>)
       [] part = "redacted" -> Line(Pending \o <<Event("redacted", Here)>>, <<>>)
       [] OTHER -> Line(Pending \o <<Event(part, Here)>>, <<Item(part)>>)
  /\ pending' = IF part = "thinking" THEN Here ELSE 0
  /\ calls' = calls + (IF part = "tool" THEN 1 ELSE 0)
  /\ UNCHANGED closed

\* message_delta leaves the buffer as it is.
ClaudeEnd(reason) ==
  /\ up = "claude" /\ ~closed
  /\ Line(<<Finish(reason)>>, <<>>)
  /\ closed' = TRUE
  /\ UNCHANGED <<calls, pending>>

\* message_stop
ClaudeStop ==
  /\ up = "claude" /\ closed
  /\ Line(<<Finish("stop")>>, <<>>)
  /\ UNCHANGED <<closed, calls, pending>>

(* Chat completions and the Responses API                                  *)

\* A tool call comes in pieces, the first and more; each is parsed as a call.
OpenAIChunk(part) ==
  /\ up = "openai" /\ ~closed
  /\ part = "more" => calls > 0
  /\ LET kind == IF part = "more" THEN "tool" ELSE part
     IN Line(<<Event(kind, Here)>>, <<Item(kind)>>)
  /\ calls' = calls + (IF part = "tool" THEN 1 ELSE 0)
  /\ UNCHANGED <<closed, pending>>

\* The arguments of a call come in pieces, then as a whole.  No client is
\* shown a summary, so it counts as little as the pieces.
ResponsesChunk(part) ==
  /\ up = "responses" /\ ~closed
  /\ Line(<<Event(part, Here)>>,
          IF part \in Content THEN <<Item(part)>> ELSE <<>>)
  /\ calls' = calls + (IF part = "tool" THEN 1 ELSE 0)
  /\ UNCHANGED <<closed, pending>>

OpenAIEnd(reason) ==
  /\ \/ up = "openai"
     \/ up = "responses" /\ reason = "stop"  \* response.completed
  /\ ~closed
  /\ Line(<<Finish(reason)>>, <<>>)
  /\ closed' = TRUE
  /\ UNCHANGED <<calls, pending>>

\* A chunk with the usage alone, after the one with the reason.
OpenAIUsage ==
  /\ up = "openai" /\ closed
  /\ Line(<<Finish("none")>>, <<>>)
  /\ UNCHANGED <<closed, calls, pending>>

\* ParseOpenAIChunk hands only "response." types on, so that an error of the
\* Responses API makes no event.
UpstreamError ==
  /\ up \in {"claude", "responses"} /\ ~closed
  /\ Line(IF up = "claude" THEN <<Event("error", 0)>> ELSE <<>>, <<>>)
  /\ UNCHANGED <<closed, calls, pending>>

\* ProcessDone: chat completions add a [DONE]; Flush takes the thinking out of
\* the Claude parser's buffer.
DoneEvents == (IF up = "openai" THEN <<Finish("stop")>> ELSE <<>>) \o Pending

Done ==
  /\ src = "open" /\ todo = <<>>
  /\ Translate(DoneEvents)
  /\ pending' = 0
  /\ UNCHANGED <<up, to, lines, closed, said, calls>>

\* [DONE], after which reading goes on.
DoneLine == up = "openai" /\ closed /\ Done /\ UNCHANGED <<src, raw>>

\* The body ends, in order or where upstream broke off, or the scanner fails
\* with an error that is not taken for an end.
BodyEnds == Done /\ src' = "ended" /\ raw' \in {"none", "due"}

\* "event: error", after what ProcessDone has flushed, past the translator and
\* its buffer, to clients of any format.
SendError ==
  /\ raw = "due" /\ todo = <<>>
  /\ raw' = "sent"
  /\ client' = RawError(client)
  /\ UNCHANGED <<up, to, src, lines, closed, said, calls, pending, todo,
                 translator, shown, told>>

-----------------------------------------------------------------------------
(* Writing events in the client's format                                   *)

\* Mutant.  The buffer does not look back.
PutAnyway(c, items) == client' = c /\ shown' = shown \o items

\* PassthroughBuffer drops whatever follows the finish.
Put(c, items) ==
  IF buffered THEN UNCHANGED <<client, shown>>
  ELSE client' = c /\ shown' = shown \o items

\* A block that is open is closed; the next has the next number.
Closed(c) == IF cs.open # "none" THEN BlockStop(c, cs.index) ELSE c
NextIndex == IF cs.open # "none" THEN cs.index + 1 ELSE cs.index

Emitting(e, type) ==
  /\ todo # <<>> /\ e = Head(todo) /\ e.type = type
  /\ todo' = Tail(todo)
  /\ UNCHANGED <<source, metaSent>>

\* emitTextDeltaTo, emitThinkingDeltaTo
EmitDelta(e, kind) ==
  /\ Emitting(e, kind)
  /\ IF to = "claude"
     THEN LET i == IF cs.open = kind THEN cs.index ELSE NextIndex
              c == IF cs.open = kind THEN client
                   ELSE BlockStart(Closed(client), i, kind)
          IN /\ Put(BlockDelta(c, i, kind), <<[kind |-> kind, n |-> e.n]>>)
             /\ cs' = [cs EXCEPT !.open = kind, !.index = i,
                                 !.text = @ \/ kind = "text"]
     ELSE /\ Put(Chunk(client), <<[kind |-> kind, n |-> e.n]>>)
          /\ UNCHANGED cs
  /\ UNCHANGED <<finishSent, hasTools, toolIndex, buffered, told>>

\* A signature without thinking belongs to the block of thinking, if it is
\* still open.
EmitSignature(e) ==
  /\ Emitting(e, "signature")
  /\ Put(IF to # "claude" THEN Chunk(client)
         ELSE IF cs.open = "thinking"
         THEN BlockDelta(client, cs.index, "thinking")
         ELSE client, <<>>)
  /\ UNCHANGED <<finishSent, hasTools, toolIndex, cs, buffered, told>>

\* emitToolCallTo: a block of its own.
EmitTool(e) ==
  /\ Emitting(e, "tool")
  /\ hasTools' = TRUE
  /\ IF to = "claude"
     THEN /\ Put(WholeBlock(Closed(client), NextIndex, "tool"),
                 <<[kind |-> "tool", n |-> e.n]>>)
          /\ cs' = [cs EXCEPT !.open = "none", !.index = NextIndex + 1,
                              !.tools = TRUE]
          /\ UNCHANGED toolIndex
     ELSE /\ Put(IF to = "openai" THEN ToolChunk(client, toolIndex)
                 ELSE Chunk(client), <<[kind |-> "tool", n |-> e.n]>>)
          /\ toolIndex' = IF to = "openai" THEN toolIndex + 1 ELSE toolIndex
          /\ UNCHANGED cs
  /\ UNCHANGED <<finishSent, buffered, told>>

\* The call that a piece of arguments is said to continue in chat completions:
\* the one before, which is theirs when a call comes before its arguments.
ArgsCall == IF toolIndex > 0 THEN toolIndex - 1 ELSE 0

\* The other formats have no use for pieces.
EmitArgs(e) ==
  /\ Emitting(e, "args")
  /\ IF to = "claude" THEN UNCHANGED <<client, shown>> ELSE Put(Chunk(client), <<>>)
  /\ UNCHANGED <<finishSent, hasTools, toolIndex, cs, buffered, told>>

\* Redacted thinking and summaries reach clients as an empty chunk.  Claude's
\* get none: there the writer has no case for a summary, and what is redacted
\* comes from Claude only.
EmitEmpty(e, type) ==
  /\ Emitting(e, type)
  /\ IF to = "claude" THEN UNCHANGED <<client, shown>> ELSE Put(Chunk(client), <<>>)
  /\ UNCHANGED <<finishSent, hasTools, toolIndex, cs, buffered, told>>

\* Mutant.  The reason is upstream's, whatever was seen before.
ReasonOfUpstream(e) ==
  IF to = "claude" THEN (IF cs.tools THEN "tool" ELSE "stop") ELSE e.reason

\* emitFinishTo looks only for tool calls, Gemini's writer knows one reason, and
\* preprocess puts tool calls over what upstream says.
Reason(e) ==
  CASE to = "claude" -> IF cs.tools THEN "tool" ELSE "stop"
    [] to = "gemini" -> "stop"
    [] to \in {"openai", "ollama"} /\ hasTools -> "tool"
    [] OTHER -> e.reason

\* emitFinishTo: a message without text or a tool call gets a text of one blank.
EmitFinish(e) ==
  /\ Emitting(e, "finish") /\ ~finishSent
  /\ finishSent' = TRUE
  /\ IF to = "claude"
     THEN LET c == IF cs.text \/ cs.tools THEN Closed(client)
                   ELSE WholeBlock(Closed(client), NextIndex, "text")
          IN /\ Put(MessageStop(c), <<>>)
             /\ cs' = [cs EXCEPT !.open = "none", !.index = NextIndex]
     ELSE /\ Put(MessageStop(client), <<>>)
          /\ UNCHANGED cs
  /\ told' = IF buffered THEN told ELSE Reason(e)
  /\ buffered' = TRUE
  /\ UNCHANGED <<hasTools, toolIndex>>

\* preprocess skips every finish but the first.
SkipFinish(e) ==
  /\ Emitting(e, "finish") /\ finishSent
  /\ UNCHANGED <<finishSent, hasTools, toolIndex, cs, buffered, output>>

\* Claude's clients are sent an error event and the stream goes on.
EmitError(e) ==
  /\ to = "claude"
  /\ Emitting(e, "error")
  /\ UNCHANGED <<finishSent, hasTools, toolIndex, cs, buffered, output>>

\* For the others it is an error of the translation: RunSSEStream calls
\* ProcessDone, sends an error chunk and stops reading.
FailOnError(e) ==
  /\ to # "claude"
  /\ todo # <<>> /\ e = Head(todo) /\ e.type = "error"
  /\ src' = "ended" /\ raw' = "due"
  /\ todo' = DoneEvents
  /\ pending' = 0
  /\ UNCHANGED <<up, to, lines, closed, said, calls, translator, output>>

-----------------------------------------------------------------------------
ReadLine ==
  \/ \E part \in {"none", "text", "thinking", "signature", "tool"},
        usage \in BOOLEAN, fin \in {"none", "stop", "length"} :
       GeminiChunk(part, usage, fin)
  \/ \E part \in {"text", "thinking", "signature", "redacted", "tool"} :
       ClaudeChunk(part)
  \/ \E reason \in Reasons : ClaudeEnd(reason)
  \/ ClaudeStop
  \/ \E part \in {"text", "thinking", "tool", "more"} : OpenAIChunk(part)
  \/ \E part \in {"text", "summary", "args", "tool"} : ResponsesChunk(part)
  \/ \E reason \in Reasons \cup {"stop"} : OpenAIEnd(reason)
  \/ OpenAIUsage
  \/ UpstreamError
  \/ DoneLine
  \/ BodyEnds

Emit(e) ==
  \/ EmitDelta(e, "text") \/ EmitDelta(e, "thinking")
  \/ EmitSignature(e)
  \/ EmitTool(e)
  \/ EmitArgs(e)
  \/ EmitEmpty(e, "redacted") \/ EmitEmpty(e, "summary")
  \/ EmitFinish(e)
  \/ SkipFinish(e)
  \/ EmitError(e)
  \/ FailOnError(e)

Next == ReadLine \/ SendError \/ \E e \in ToSet(todo) : Emit(e)

Spec == Init /\ [][Next]_vars

-----------------------------------------------------------------------------
(* Properties                                                              *)

Types ==
  Content \cup {"summary", "args", "signature", "redacted", "finish", "error"}
EndReasons == {"none", "stop", "length", "tool"}

\* Every variable has its type.
TypeOK ==
  /\ up \in Upstream /\ to \in Client /\ src \in {"open", "ended"}
  /\ raw \in {"none", "due", "sent"}
  /\ lines \in Nat /\ calls \in Nat /\ pending \in Nat /\ closed \in BOOLEAN
  /\ said \in Seq([kind : Content, n : Nat])
  /\ shown \in Seq([kind : Content, n : Nat])
  /\ todo \in Seq([type : Types, n : Nat, reason : EndReasons])
  /\ <<metaSent, finishSent, hasTools, buffered>>
       \in BOOLEAN \X BOOLEAN \X BOOLEAN \X BOOLEAN
  /\ toolIndex \in Nat
  /\ cs \in [open : {"none", "text", "thinking"}, index : Nat,
             text : BOOLEAN, tools : BOOLEAN]
  /\ client \in [at : Content \cup {"fresh", "between", "stopped", "torn", "broken"},
                 next : Nat]
  /\ told \in EndReasons

\* What the client is sent is a stream of its own format, whatever upstream
\* sends and wherever it breaks off: the blocks that the writer's state opens,
\* numbers and closes in several places fit together, and what the parser still
\* holds at the end does not come after the end.  An error chunk of the runner's
\* own is excepted: it is of no format but Claude's and may come after the end,
\* but what came before it is such a stream, and nothing follows it.
Orderly == client.at # "broken"

\* The number of the i-th item, when what repeats its predecessor does not count.
Number(items, i) ==
  Cardinality({j \in 1..i : j = 1 \/ items[j] # items[j - 1]})

\* The items are the first of those told, in the same order, but for repetitions.
Retells(items, tale) ==
  \A i \in DOMAIN items :
    Number(items, i) \in DOMAIN tale /\ items[i] = tale[Number(items, i)]

\* The client gets what upstream says, in that order, through the filter, the
\* parser, the parser's buffer and the buffer of chunks, but for repetitions, and
\* between two lines it has got all of it; Vertex's answers are cut off, but never
\* reordered or with a hole in them.
ContentKept ==
  /\ Retells(shown, said)
  /\ todo = <<>> /\ up # "vertex" => Number(shown, Len(shown)) = Len(said)

\* In the end the client has a reason if upstream gave one (chat completions get
\* one in any case), and it says that there are tool calls exactly if the client
\* has got any, in the formats that say so.
ReasonHonest ==
  src = "ended" /\ todo = <<>> =>
    /\ closed \/ up = "openai" => told # "none"
    /\ told # "none" /\ to # "gemini" =>
         (told = "tool" <=> \E item \in ToSet(shown) : item.kind = "tool")

-----------------------------------------------------------------------------
(* What the code does not keep                                             *)

\* thought_signature_test.go, line 152: "attaches to already emitted event, no
\* new event".  A piece of thinking that is followed by anything but its
\* signature is shown again, from the parser's buffer.
ThinkingOnce == IsInjective(shown)

\* The whole answer of Vertex gets through.
WholeContent == todo = <<>> => Number(shown, Len(shown)) = Len(said)

\* stream/translator.go, line 269: a piece of arguments goes to "the tool call we're
\* continuing".  The Responses API sends the pieces before the call.
ArgsOfTheirCall ==
  to = "openai" /\ ~buffered /\ todo # <<>> /\ Head(todo).type = "args" =>
    ArgsCall = Cardinality({i \in DOMAIN shown : shown[i].kind = "tool"})
=============================================================================
