---------------------- MODULE StreamTranslationProofs ----------------------
(***************************************************************************)
(* Theorems about StreamTranslation, for streams of any length.            *)
(*                                                                         *)
(* A line of any upstream is a list of typed events (ReadLineTranslates).  *)
(* The first argument then forgets upstream: between two emissions the     *)
(* client's reader is where the writer's state says (Unbroken), in the     *)
(* block that is open, at its number, or at the end once the finish was    *)
(* let through.  The second follows the tool calls and the reasons         *)
(* (Accords), the third the items: the events of a line lead the client    *)
(* from the item it has to the last that was said (Kept).                  *)
(***************************************************************************)
EXTENDS StreamTranslation, FiniteSetTheorems, SequenceTheorems, TLAPS

SaidItem == [kind : Content, n : Nat]
LineEvent == [type : Types, n : Nat, reason : EndReasons]

\* What a step that reads a line does to everything but the line's own state.
Translated ==
  /\ \E events \in Seq(LineEvent) : Translate(events)
  /\ UNCHANGED <<up, to>>
  /\ src = "open" /\ src' \in {"open", "ended"} /\ lines' \in Nat
  /\ raw' = raw \/ (raw' \in {"none", "due"} /\ src' = "ended")
  /\ said' \in Seq(SaidItem)

\* What the parsers make of a line are events.
LEMMA EventTyped ==
  /\ \A type \in Types, n \in Nat : Event(type, n) \in LineEvent
  /\ \A reason \in EndReasons : Finish(reason) \in LineEvent
  BY DEF Event, Finish, LineEvent, EndReasons, Types

\* A line hands its events to Translate and changes the history by its items.
LEMMA LineTranslates ==
  ASSUME TypeOK, NEW events \in Seq(LineEvent), NEW items \in Seq(SaidItem),
         Line(events, items)
  PROVE  Translated
  <1>1. said \o items \in Seq(SaidItem)
    BY ConcatProperties DEF TypeOK, SaidItem
  <1> QED
    BY <1>1 DEF Translated, Line, TypeOK

\* Nothing is a list of events, and of items.
LEMMA EmptyTyped == <<>> \in Seq(LineEvent) /\ <<>> \in Seq(SaidItem)
  OBVIOUS

\* Where a line leaves the counters alone, they keep their types.
LEMMA CountsTyped ==
  TypeOK => calls \in Nat /\ pending \in Nat /\ closed \in BOOLEAN
  BY DEF TypeOK

\* The thinking that the parser of Claude holds back is an event.
LEMMA PendingTyped == TypeOK => Pending \in Seq(LineEvent)
  BY EventTyped DEF TypeOK, Pending, Types, Content

\* So is what ProcessDone flushes.
LEMMA DoneEventsTyped == TypeOK => DoneEvents \in Seq(LineEvent)
  <1> SUFFICES ASSUME TypeOK PROVE DoneEvents \in Seq(LineEvent)
    OBVIOUS
  <1>1. (IF up = "openai" THEN <<Finish("stop")>> ELSE <<>>) \in Seq(LineEvent)
    BY EventTyped DEF EndReasons
  <1> QED
    BY <1>1, PendingTyped, ConcatProperties DEF DoneEvents

\* ProcessDone goes through Translate as a line does.
LEMMA DoneTranslates ==
  ASSUME TypeOK, Done, src' \in {"open", "ended"},
         raw' = raw \/ (raw' \in {"none", "due"} /\ src' = "ended")
  PROVE  Translated
  BY DoneEventsTyped DEF Translated, Done, TypeOK, SaidItem

\* Whatever is read goes through Translate.
LEMMA ReadLineTranslates ==
  TypeOK /\ ReadLine =>
    Translated /\ calls' \in Nat /\ pending' \in Nat /\ closed' \in BOOLEAN
  <1> DEFINE Goal == Translated /\ calls' \in Nat /\ pending' \in Nat
                       /\ closed' \in BOOLEAN
  <1> SUFFICES ASSUME TypeOK, ReadLine PROVE Goal
    OBVIOUS
  <1>h. Here \in Nat /\ \A k \in Content : Item(k) \in SaidItem
    BY DEF Here, Item, TypeOK, SaidItem
  <1>k. Content \cup {"summary", "args", "signature", "redacted"} \subseteq Types
    BY DEF Types
  <1>1. ASSUME NEW part \in {"none", "text", "thinking", "signature", "tool"},
               NEW usage \in BOOLEAN, NEW fin \in {"none", "stop", "length"},
               GeminiChunk(part, usage, fin)
        PROVE  Goal
    <2>1. GeminiEvents(part) \in Seq(LineEvent)
      BY <1>h, EventTyped DEF GeminiEvents, Types, Content
    <2>2. GeminiFinish(part, usage, fin) \in Seq(LineEvent)
      BY EventTyped DEF GeminiFinish, EndReasons
    <2> DEFINE events == GeminiEvents(part) \o GeminiFinish(part, usage, fin)
               items == IF part \in {"none", "signature"} THEN <<>>
                        ELSE <<Item(part)>>
    <2>3. events \in Seq(LineEvent)
      BY <2>1, <2>2, ConcatProperties
    <2>4. items \in Seq(SaidItem)
      BY <1>h DEF Content
    <2>5. Line(events, items)
      BY <1>1 DEF GeminiChunk
    <2> HIDE DEF events, items
    <2>6. Translated
      BY <2>3, <2>4, <2>5, LineTranslates
    <2> QED
      BY <1>1, <2>6, CountsTyped DEF GeminiChunk
  <1>2. ASSUME NEW part \in {"text", "thinking", "signature", "redacted", "tool"},
               ClaudeChunk(part)
        PROVE  Goal
    <2>1. Pending \o <<Event(part, Here)>> \in Seq(LineEvent)
      BY <1>h, <1>k, EventTyped, PendingTyped, ConcatProperties DEF Content
    <2>2. part \in Content => <<Item(part)>> \in Seq(SaidItem)
      BY <1>h
    <2>3. Translated
      <3>1. CASE part = "signature"
        <4>1. Line(<<>>, <<>>)
          BY <1>2, <3>1 DEF ClaudeChunk
        <4> QED
          BY <4>1, LineTranslates, EmptyTyped
      <3>2. CASE part = "redacted"
        <4>1. Line(Pending \o <<Event("redacted", Here)>>, <<>>)
          BY <1>2, <3>2 DEF ClaudeChunk
        <4> QED
          BY <2>1, <3>2, <4>1, LineTranslates, EmptyTyped
      <3>3. CASE part \notin {"signature", "redacted"}
        <4>1. Line(Pending \o <<Event(part, Here)>>, <<Item(part)>>)
          BY <1>2, <3>3 DEF ClaudeChunk
        <4> QED
          BY <2>1, <2>2, <3>3, <4>1, LineTranslates DEF Content
      <3> QED
        BY <3>1, <3>2, <3>3
    <2> QED
      BY <1>2, <1>h, <2>3 DEF ClaudeChunk, TypeOK
  <1>3. ASSUME NEW reason \in Reasons, ClaudeEnd(reason)
        PROVE  Goal
    <2>1. <<Finish(reason)>> \in Seq(LineEvent)
      BY EventTyped DEF Reasons, EndReasons
    <2> QED
      BY <1>3, <2>1, LineTranslates, EmptyTyped, CountsTyped DEF ClaudeEnd
  <1>4. ASSUME ClaudeStop \/ OpenAIUsage PROVE Goal
    <2>1. <<Finish("stop")>> \in Seq(LineEvent) /\ <<Finish("none")>> \in Seq(LineEvent)
      BY EventTyped DEF EndReasons
    <2> QED
      BY <1>4, <2>1, LineTranslates, EmptyTyped, CountsTyped DEF ClaudeStop, OpenAIUsage
  <1>5. ASSUME NEW part \in {"text", "thinking", "tool", "more"}, OpenAIChunk(part)
        PROVE  Goal
    <2> DEFINE kind == IF part = "more" THEN "tool" ELSE part
    <2>1. <<Event(kind, Here)>> \in Seq(LineEvent) /\ <<Item(kind)>> \in Seq(SaidItem)
      BY <1>h, <1>k, EventTyped DEF Content
    <2>2. Line(<<Event(kind, Here)>>, <<Item(kind)>>)
      BY <1>5 DEF OpenAIChunk
    <2> HIDE DEF kind
    <2>3. Translated
      BY <2>1, <2>2, LineTranslates
    <2> QED
      BY <1>5, <2>3, CountsTyped DEF OpenAIChunk
  <1>6. ASSUME NEW part \in {"text", "summary", "args", "tool"}, ResponsesChunk(part)
        PROVE  Goal
    <2> DEFINE items == IF part \in Content THEN <<Item(part)>> ELSE <<>>
    <2>1. <<Event(part, Here)>> \in Seq(LineEvent)
      BY <1>h, <1>k, EventTyped DEF Content
    <2>2. items \in Seq(SaidItem)
      BY <1>h DEF Content
    <2>3. Line(<<Event(part, Here)>>, items)
      BY <1>6 DEF ResponsesChunk
    <2> HIDE DEF items
    <2>4. Translated
      BY <2>1, <2>2, <2>3, LineTranslates
    <2> QED
      BY <1>6, <2>4, CountsTyped DEF ResponsesChunk
  <1>7. ASSUME NEW reason \in Reasons \cup {"stop"}, OpenAIEnd(reason)
        PROVE  Goal
    <2>1. <<Finish(reason)>> \in Seq(LineEvent)
      BY EventTyped DEF Reasons, EndReasons
    <2> QED
      BY <1>7, <2>1, LineTranslates, EmptyTyped, CountsTyped DEF OpenAIEnd
  <1>8. ASSUME UpstreamError PROVE Goal
    <2>1. (IF up = "claude" THEN <<Event("error", 0)>> ELSE <<>>) \in Seq(LineEvent)
      BY EventTyped DEF Types, Content
    <2> QED
      BY <1>8, <2>1, LineTranslates, EmptyTyped, CountsTyped DEF UpstreamError
  <1>9. ASSUME DoneLine \/ BodyEnds PROVE Goal
    <2>1. /\ Done /\ src' \in {"open", "ended"}
          /\ raw' = raw \/ (raw' \in {"none", "due"} /\ src' = "ended")
      BY <1>9 DEF DoneLine, BodyEnds, TypeOK
    <2> QED
      BY <2>1, DoneTranslates DEF Done, TypeOK
  <1> QED
    BY <1>1, <1>2, <1>3, <1>4, <1>5, <1>6, <1>7, <1>8, <1>9 DEF ReadLine

\* Where the writer's state says that the reader is.
At ==
  IF raw = "sent" THEN "torn"
  ELSE IF buffered THEN "stopped"
  ELSE IF to # "claude" THEN "between"
  ELSE IF ~metaSent THEN "fresh"
  ELSE IF cs.open = "none" THEN "between" ELSE cs.open

\* The reader is there and expects the writer's number next; a message has been
\* started before anything is emitted, and the buffer is closed by the finish.
Unbroken ==
  /\ raw # "none" => src = "ended"
  /\ raw = "sent" => todo = <<>>
  /\ buffered = finishSent
  /\ to = "claude" /\ ~metaSent => todo = <<>> /\ ~buffered /\ cs.open = "none"
  /\ client.at = At
  /\ ~buffered /\ to = "claude" => client.next = cs.index
  /\ ~buffered /\ to = "openai" => client.next = toolIndex

\* It holds at the start.
LEMMA InitUnbroken == Init => TypeOK /\ Unbroken
  <1> SUFFICES ASSUME Init PROVE TypeOK /\ Unbroken
    OBVIOUS
  <1>1. client \in [at : Content \cup {"fresh", "between", "stopped", "torn", "broken"},
                    next : Nat]
    BY DEF Init
  <1>2. TypeOK
    BY <1>1, EmptyTyped DEF Init, TypeOK, EndReasons, LineEvent, SaidItem
  <1>3. client.at = At
    BY DEF Init, At
  <1> QED
    BY <1>2, <1>3 DEF Init, Unbroken

\* A line at most starts the message.
LEMMA ReadLineKeeps == TypeOK /\ Unbroken /\ ReadLine => TypeOK' /\ Unbroken'
  <1> SUFFICES ASSUME TypeOK, Unbroken, ReadLine PROVE TypeOK' /\ Unbroken'
    OBVIOUS
  <1>1. PICK events \in Seq(LineEvent) : Translate(events)
    BY ReadLineTranslates DEF Translated
  <1>2. /\ UNCHANGED <<up, to>>
        /\ src' \in {"open", "ended"} /\ lines' \in Nat /\ said' \in Seq(SaidItem)
        /\ src = "open" /\ (raw' = raw \/ (raw' \in {"none", "due"} /\ src' = "ended"))
        /\ calls' \in Nat /\ pending' \in Nat /\ closed' \in BOOLEAN
    BY ReadLineTranslates DEF Translated
  <1>3. client' \in [at : Content \cup {"fresh", "between", "stopped", "torn", "broken"},
                     next : Nat]
    BY <1>1 DEF Translate, MessageStart, Read, TypeOK
  <1>4. TypeOK'
    BY <1>1, <1>2, <1>3 DEF Translate, TypeOK, LineEvent, SaidItem
  <1>5. Unbroken'
    <2>1. CASE to = "claude" /\ ~metaSent /\ events # <<>>
      <3>1. client' = [client EXCEPT !.at = "between"]
        BY <1>1, <1>2, <2>1 DEF Translate, MessageStart, Read, Unbroken, At
      <3>2. metaSent' /\ cs' = cs /\ cs.open = "none" /\ ~buffered
            /\ UNCHANGED <<buffered, finishSent, toolIndex>>
        BY <1>1, <2>1 DEF Translate, Unbroken
      <3>3. client'.at = "between" /\ client'.next = client.next
        BY <3>1 DEF TypeOK
      <3> QED
        BY <1>2, <2>1, <3>2, <3>3 DEF Unbroken, At
    <2>2. CASE ~(to = "claude" /\ ~metaSent /\ events # <<>>)
      <3>1. /\ UNCHANGED <<client, cs, buffered, finishSent, toolIndex>>
            /\ todo' = events /\ metaSent' = (metaSent \/ events # <<>>)
        BY <1>1, <2>2 DEF Translate
      <3> QED
        BY <1>2, <2>2, <3>1 DEF Unbroken, At
    <2> QED
      BY <2>1, <2>2
  <1> QED
    BY <1>4, <1>5

\* An emission that leaves the block that is open, and the reader, alone.
LEMMA SameReader ==
  ASSUME TypeOK, todo' \in Seq(LineEvent), shown' \in Seq(SaidItem), hasTools' \in BOOLEAN,
         UNCHANGED <<up, to, src, raw, lines, closed, said, calls, pending, metaSent, finishSent,
                     toolIndex, cs, client, buffered, told>>
  PROVE  TypeOK'
  BY DEF TypeOK, LineEvent, SaidItem

\* Whatever block was open, after Closed the reader expects the next one.
LEMMA ClosedReader ==
  ASSUME TypeOK, Unbroken, to = "claude", todo # <<>>, ~buffered
  PROVE  /\ Closed(client) = [at |-> "between", next |-> NextIndex]
         /\ NextIndex \in Nat
         /\ cs.open # "none" => client = [at |-> cs.open, next |-> cs.index]
  <1>1. client = [at |-> client.at, next |-> client.next] /\ cs.index \in Nat
    BY DEF TypeOK
  <1>2. client.next = cs.index
        /\ client.at = IF cs.open = "none" THEN "between" ELSE cs.open
    BY DEF Unbroken, At
  <1>3. cs.open \in {"none", "text", "thinking"}
    BY DEF TypeOK
  <1> QED
    BY <1>1, <1>2, <1>3 DEF Closed, NextIndex, BlockStop, Read, Content

\* An emission moves writer and reader together, or is held back by the buffer.
LEMMA EmitKeeps ==
  ASSUME TypeOK, Unbroken, NEW e, Emit(e)
  PROVE  TypeOK' /\ Unbroken'
  <1>n. ASSUME NEW type, Emitting(e, type)
        PROVE  /\ e \in LineEvent /\ e.type = type /\ e.n \in Nat
               /\ e.reason \in EndReasons
               /\ todo # <<>> /\ todo' \in Seq(LineEvent)
               /\ to = "claude" => metaSent
               /\ UNCHANGED <<up, to, src, raw, lines, closed, said, calls, pending,
                              metaSent>>
    <2>1. todo # <<>> /\ e = Head(todo) /\ e.type = type /\ todo' = Tail(todo)
          /\ UNCHANGED <<up, to, src, raw, lines, closed, said, calls, pending, metaSent>>
      BY <1>n DEF Emitting, source
    <2>2. e \in LineEvent /\ Tail(todo) \in Seq(LineEvent)
      BY <2>1, HeadTailProperties DEF TypeOK, LineEvent
    <2> QED
      BY <2>1, <2>2 DEF LineEvent, Unbroken
  <1>v. finishSent \in BOOLEAN /\ hasTools \in BOOLEAN /\ buffered \in BOOLEAN
    BY DEF TypeOK
  <1>s. ASSUME NEW kind \in Content, NEW n \in Nat
        PROVE  shown \o <<[kind |-> kind, n |-> n]>> \in Seq(SaidItem)
    BY ConcatProperties DEF TypeOK, SaidItem
  <1>b. shown \o <<>> \in Seq(SaidItem)
    BY ConcatProperties DEF TypeOK, SaidItem
  <1>a. ~buffered /\ to # "claude" => client.at = "between"
    <2>1. todo # <<>>
      BY DEF Emit, EmitDelta, EmitSignature, EmitTool, EmitArgs, EmitEmpty, EmitFinish,
             SkipFinish, EmitError, FailOnError, Emitting
    <2> QED
      BY <2>1 DEF Unbroken, At
  <1>1. ASSUME NEW kind \in {"text", "thinking"}, EmitDelta(e, kind)
        PROVE  TypeOK' /\ Unbroken'
    <2> DEFINE i == IF cs.open = kind THEN cs.index ELSE NextIndex
               c == IF cs.open = kind THEN client
                    ELSE BlockStart(Closed(client), i, kind)
               item == [kind |-> kind, n |-> e.n]
    <2>1. Emitting(e, kind) /\ UNCHANGED <<finishSent, hasTools, toolIndex, buffered, told>>
      BY <1>1 DEF EmitDelta
    <2>2. shown \o <<item>> \in Seq(SaidItem)
      BY <1>s, <1>n, <2>1 DEF Content
    <2>3. CASE to = "claude"
      <3>1. /\ Put(BlockDelta(c, i, kind), <<item>>)
            /\ cs' = [cs EXCEPT !.open = kind, !.index = i, !.text = @ \/ kind = "text"]
        BY <1>1, <2>3 DEF EmitDelta
      <3>2. ~buffered => BlockDelta(c, i, kind) = [at |-> kind, next |-> i] /\ i \in Nat
        <4> SUFFICES ASSUME ~buffered
                     PROVE  BlockDelta(c, i, kind) = [at |-> kind, next |-> i] /\ i \in Nat
          OBVIOUS
        <4>1. c = [at |-> kind, next |-> i] /\ i \in Nat
          BY <1>n, <2>1, <2>3, ClosedReader DEF BlockStart, Read, TypeOK
        <4> QED
          BY <4>1 DEF BlockDelta, Read
      <3>3. i \in Nat
        BY DEF TypeOK, NextIndex
      <3>4. cs' \in [open : {"none", "text", "thinking"}, index : Nat,
                     text : BOOLEAN, tools : BOOLEAN]
            /\ cs'.open = kind /\ cs'.index = i
        BY <3>1, <3>3 DEF TypeOK
      <3> HIDE DEF i, c, item
      <3>5. CASE buffered
        <4>1. UNCHANGED <<client, shown>>
          BY <3>1, <3>5 DEF Put
        <4> QED
          BY <1>n, <2>1, <3>4, <3>5, <4>1 DEF TypeOK, Unbroken, At, LineEvent
      <3>6. CASE ~buffered
        <4>1. client' = [at |-> kind, next |-> i] /\ shown' = shown \o <<item>>
          BY <3>1, <3>2, <3>6 DEF Put
        <4>2. TypeOK'
          <5>1. client' \in [at : Content \cup {"fresh", "between", "stopped", "torn", "broken"}, next : Nat]
            BY <1>n, <3>3, <4>1 DEF Content
          <5> QED BY <1>n, <2>1, <2>2, <3>4, <4>1, <5>1 DEF TypeOK, LineEvent, SaidItem
        <4>3. Unbroken'
          BY <1>n, <2>1, <2>3, <3>4, <3>6, <4>1 DEF Unbroken, At
        <4> QED BY <4>2, <4>3
      <3> QED BY <3>5, <3>6
    <2>4. CASE to # "claude"
      <3>1. Put(Chunk(client), <<item>>) /\ UNCHANGED cs
        BY <1>1, <2>4 DEF EmitDelta
      <3>2. client' = client /\ shown' \in Seq(SaidItem)
        <4>1. ~buffered => Chunk(client) = client
          BY <1>a, <2>4 DEF Chunk, Read
        <4>2. shown \in Seq(SaidItem)
          BY DEF TypeOK, SaidItem
        <4> QED BY <2>2, <3>1, <4>1, <4>2 DEF Put
      <3>3. TypeOK'
        BY <1>n, <1>v, <2>1, <3>1, <3>2, SameReader
      <3>4. Unbroken'
        BY <1>n, <2>1, <2>4, <3>1, <3>2 DEF Unbroken, At
      <3> QED BY <3>3, <3>4
    <2> QED BY <2>3, <2>4
  \* The emissions that leave the reader where it is.
  <1>k. ASSUME NEW type, Emitting(e, type), client' = client,
               shown' \in Seq(SaidItem), hasTools' \in BOOLEAN,
               UNCHANGED <<finishSent, toolIndex, cs, buffered, told>>
        PROVE  TypeOK' /\ Unbroken'
    <2>1. TypeOK'
      BY <1>k, <1>n, <1>v, SameReader
    <2>2. Unbroken'
      BY <1>k, <1>n DEF Unbroken, At
    <2> QED BY <2>1, <2>2
  <1>2. CASE EmitSignature(e)
    <2> DEFINE c == IF to # "claude" THEN Chunk(client)
                    ELSE IF cs.open = "thinking"
                    THEN BlockDelta(client, cs.index, "thinking")
                    ELSE client
    <2>1. /\ Emitting(e, "signature") /\ Put(c, <<>>)
          /\ UNCHANGED <<finishSent, hasTools, toolIndex, cs, buffered, told>>
      BY <1>2 DEF EmitSignature
    <2>2. ~buffered => c = client
      <3>1. ~buffered /\ to # "claude" => Chunk(client) = client
        BY <1>a DEF Chunk, Read
      <3>2. ~buffered /\ to = "claude" /\ cs.open = "thinking"
              => BlockDelta(client, cs.index, "thinking") = client
        BY <1>n, <2>1, ClosedReader DEF BlockDelta, Read
      <3> QED BY <3>1, <3>2
    <2>3. client' = client /\ shown' \in Seq(SaidItem)
      BY <1>b, <2>1, <2>2 DEF Put, TypeOK, SaidItem
    <2> QED
      BY <1>k, <2>1, <2>3 DEF TypeOK
  <1>3. CASE EmitTool(e)
    <2> DEFINE item == [kind |-> "tool", n |-> e.n]
    <2>1. /\ Emitting(e, "tool") /\ hasTools' = TRUE
          /\ UNCHANGED <<finishSent, buffered, told>>
      BY <1>3 DEF EmitTool
    <2>2. shown \o <<item>> \in Seq(SaidItem)
      BY <1>s, <1>n, <2>1 DEF Content
    <2>3. CASE to = "claude"
      <3>1. /\ Put(WholeBlock(Closed(client), NextIndex, "tool"), <<item>>)
            /\ cs' = [cs EXCEPT !.open = "none", !.index = NextIndex + 1, !.tools = TRUE]
            /\ UNCHANGED toolIndex
        BY <1>3, <2>3 DEF EmitTool
      <3>2. ~buffered => WholeBlock(Closed(client), NextIndex, "tool")
                           = [at |-> "between", next |-> NextIndex + 1]
        BY <1>n, <2>1, <2>3, ClosedReader
           DEF WholeBlock, BlockStart, BlockDelta, BlockStop, Read, Content
      <3>3. NextIndex \in Nat
        BY DEF TypeOK, NextIndex
      <3>4. cs' \in [open : {"none", "text", "thinking"}, index : Nat,
                     text : BOOLEAN, tools : BOOLEAN]
            /\ cs'.open = "none" /\ cs'.index = NextIndex + 1
        <4>1. cs' = [cs EXCEPT !.open = "none", !.index = NextIndex + 1, !.tools = TRUE]
          BY <3>1
        <4>2. NextIndex + 1 \in Nat
          BY <3>3
        <4> QED
          BY <4>1, <4>2 DEF TypeOK
      <3> HIDE DEF item
      <3>5. CASE buffered
        <4>1. UNCHANGED <<client, shown>>
          BY <3>1, <3>5 DEF Put
        <4>2. TypeOK'
          BY <1>n, <2>1, <3>1, <3>4, <4>1 DEF TypeOK, LineEvent
        <4>3. Unbroken'
          BY <1>n, <2>1, <3>1, <3>4, <3>5, <4>1 DEF Unbroken, At
        <4> QED
          BY <4>2, <4>3
      <3>6. CASE ~buffered
        <4>1. client' = [at |-> "between", next |-> NextIndex + 1]
              /\ shown' = shown \o <<item>>
          BY <3>1, <3>2, <3>6 DEF Put
        <4>2. TypeOK'
          <5>1. client' \in [at : Content \cup {"fresh", "between", "stopped", "torn", "broken"},
                             next : Nat]
            BY <3>3, <4>1
          <5>2. cs' \in [open : {"none", "text", "thinking"}, index : Nat,
                         text : BOOLEAN, tools : BOOLEAN]
            BY <3>4
          <5> QED
            BY <1>n, <2>1, <2>2, <3>1, <4>1, <5>1, <5>2 DEF TypeOK, LineEvent, SaidItem
        <4>3. Unbroken'
          BY <1>n, <2>1, <2>3, <3>4, <3>6, <4>1 DEF Unbroken, At
        <4> QED BY <4>2, <4>3
      <3> QED BY <3>5, <3>6
    <2>4. CASE to # "claude"
      <3> DEFINE c == IF to = "openai" THEN ToolChunk(client, toolIndex)
                      ELSE Chunk(client)
      <3>1. /\ Put(c, <<item>>) /\ UNCHANGED cs
            /\ toolIndex' = IF to = "openai" THEN toolIndex + 1 ELSE toolIndex
        BY <1>3, <2>4 DEF EmitTool
      <3>2. ~buffered =>
              c = [client EXCEPT !.next = IF to = "openai" THEN toolIndex + 1 ELSE @]
        BY <1>a, <2>4 DEF ToolChunk, Chunk, Read, Unbroken, TypeOK
      <3>5. toolIndex' \in Nat
        BY <3>1 DEF TypeOK
      <3> HIDE DEF c, item
      <3>3. CASE buffered
        <4>1. UNCHANGED <<client, shown>>
          BY <3>1, <3>3 DEF Put
        <4> QED
          BY <1>n, <2>1, <2>4, <3>1, <3>3, <3>5, <4>1
             DEF TypeOK, Unbroken, At, LineEvent
      <3>4. CASE ~buffered
        <4>1. client' = [client EXCEPT !.next = IF to = "openai" THEN toolIndex + 1 ELSE @]
              /\ shown' = shown \o <<item>>
          BY <3>1, <3>2, <3>4 DEF Put
        <4>5. client' \in [at : Content \cup {"fresh", "between", "stopped", "torn", "broken"},
                           next : Nat]
          <5> DEFINE n == IF to = "openai" THEN toolIndex + 1 ELSE client.next
          <5>1. n \in Nat
            BY DEF TypeOK
          <5>2. client' = [client EXCEPT !.next = n]
            BY <4>1
          <5> HIDE DEF n
          <5> QED
            BY <5>1, <5>2 DEF TypeOK
        <4>2. TypeOK'
          BY <1>n, <2>1, <2>2, <3>1, <3>5, <4>1, <4>5 DEF TypeOK, LineEvent, SaidItem
        <4>3. client'.at = client.at /\ (to = "openai" => client'.next = toolIndex')
          BY <3>1, <4>1 DEF TypeOK
        <4>4. Unbroken'
          BY <1>n, <2>1, <2>4, <3>1, <3>4, <4>3 DEF Unbroken, At
        <4> QED BY <4>2, <4>4
      <3> QED BY <3>3, <3>4
    <2> QED BY <2>3, <2>4
  <1>4. CASE EmitArgs(e)
    <2>1. Emitting(e, "args") /\ UNCHANGED <<finishSent, hasTools, toolIndex, cs, buffered, told>>
      BY <1>4 DEF EmitArgs
    <2>2. ~buffered /\ to # "claude" => Chunk(client) = client
      BY <1>a DEF Chunk, Read
    <2>3. client' = client /\ shown' \in Seq(SaidItem)
      BY <1>4, <1>b, <2>2 DEF EmitArgs, Put, TypeOK, SaidItem
    <2> QED
      BY <1>k, <2>1, <2>3 DEF TypeOK
  <1>5. ASSUME NEW type, EmitEmpty(e, type)
        PROVE  TypeOK' /\ Unbroken'
    <2>1. Emitting(e, type) /\ UNCHANGED <<finishSent, hasTools, toolIndex, cs, buffered, told>>
      BY <1>5 DEF EmitEmpty
    <2>2. ~buffered /\ to # "claude" => Chunk(client) = client
      BY <1>a DEF Chunk, Read
    <2>3. client' = client /\ shown' \in Seq(SaidItem)
      BY <1>5, <1>b, <2>2 DEF EmitEmpty, Put, TypeOK, SaidItem
    <2> QED
      BY <1>k, <2>1, <2>3 DEF TypeOK
  <1>6. CASE EmitFinish(e)
    <2>1. /\ Emitting(e, "finish") /\ finishSent' /\ buffered'
          /\ finishSent' = TRUE /\ buffered' = TRUE
          /\ UNCHANGED <<hasTools, toolIndex>> /\ ~buffered
          /\ told' = Reason(e)
      BY <1>6 DEF EmitFinish, Unbroken
    <2>2. told' \in EndReasons
      BY <1>n, <2>1 DEF Reason, EndReasons
    <2>3. /\ cs' \in [open : {"none", "text", "thinking"}, index : Nat,
                       text : BOOLEAN, tools : BOOLEAN]
          /\ to = "claude" => cs'.open = "none"
          /\ client' \in [at : {"stopped"}, next : Nat]
          /\ shown' = shown \o <<>>
      <3>1. CASE to = "claude"
        <4> DEFINE c == IF cs.text \/ cs.tools THEN Closed(client)
                        ELSE WholeBlock(Closed(client), NextIndex, "text")
        <4>1. Put(MessageStop(c), <<>>)
              /\ cs' = [cs EXCEPT !.open = "none", !.index = NextIndex]
          BY <1>6, <3>1 DEF EmitFinish
        <4>2. c \in [at : {"between"}, next : Nat]
          BY <1>n, <2>1, <3>1, ClosedReader
             DEF WholeBlock, BlockStart, BlockDelta, BlockStop, Read, Content
        <4>3. NextIndex \in Nat
          BY DEF TypeOK, NextIndex
        <4> HIDE DEF c
        <4>4. MessageStop(c) \in [at : {"stopped"}, next : Nat]
          BY <4>2 DEF MessageStop, Read
        <4> QED
          BY <2>1, <4>1, <4>3, <4>4 DEF Put, TypeOK
      <3>2. CASE to # "claude"
        <4>1. Put(MessageStop(client), <<>>) /\ UNCHANGED cs
          BY <1>6, <3>2 DEF EmitFinish
        <4>2. MessageStop(client) \in [at : {"stopped"}, next : Nat]
          BY <1>a, <2>1, <3>2 DEF MessageStop, Read, TypeOK
        <4> QED
          BY <2>1, <3>2, <4>1, <4>2 DEF Put, TypeOK
      <3> QED BY <3>1, <3>2
    <2>4. TypeOK'
      BY <1>n, <1>b, <2>1, <2>2, <2>3 DEF TypeOK, LineEvent, SaidItem
    <2>5. Unbroken'
      BY <1>n, <2>1, <2>3 DEF Unbroken, At
    <2> QED BY <2>4, <2>5
  <1>7. CASE SkipFinish(e) \/ EmitError(e)
    <2>1. /\ Emitting(e, "finish") \/ Emitting(e, "error")
          /\ UNCHANGED <<finishSent, hasTools, toolIndex, cs, buffered, client, shown, told>>
      BY <1>7 DEF SkipFinish, EmitError, output
    <2> QED
      BY <1>k, <2>1 DEF TypeOK, SaidItem
  <1>8. CASE FailOnError(e)
    <2>1. /\ todo # <<>> /\ to # "claude" /\ src' = "ended" /\ raw' = "due" /\ pending' = 0
          /\ todo' = DoneEvents /\ DoneEvents \in Seq(LineEvent)
          /\ UNCHANGED <<up, to, lines, closed, said, calls, metaSent, finishSent,
                         hasTools, toolIndex, cs, buffered, client, shown, told>>
      BY <1>8, DoneEventsTyped DEF FailOnError, translator, output
    <2> QED
      BY <2>1 DEF TypeOK, Unbroken, At, LineEvent
  <1> QED
    BY <1>1, <1>2, <1>3, <1>4, <1>5, <1>6, <1>7, <1>8 DEF Emit

\* The runner's error chunk is the last the reader is handed.
LEMMA ErrorKeeps == ASSUME TypeOK, Unbroken, SendError PROVE TypeOK' /\ Unbroken'
  <1>1. /\ raw = "due" /\ raw' = "sent" /\ todo = <<>> /\ client' = RawError(client)
        /\ UNCHANGED <<up, to, src, lines, closed, said, calls, pending, todo, metaSent,
                       finishSent, hasTools, toolIndex, cs, buffered, shown, told>>
    BY DEF SendError, translator
  <1>2. client.at \notin {"torn", "broken"}
    BY <1>1 DEF Unbroken, At, TypeOK
  <1>3. client' = [client EXCEPT !.at = "torn"]
    BY <1>1, <1>2 DEF RawError, Read
  <1>4. client' \in [at : Content \cup {"fresh", "between", "stopped", "torn", "broken"},
                     next : Nat]
        /\ client'.at = "torn" /\ client'.next = client.next
    BY <1>3 DEF TypeOK
  <1>5. TypeOK'
    BY <1>1, <1>4 DEF TypeOK
  <1>6. Unbroken'
    BY <1>1, <1>4 DEF Unbroken, At
  <1> QED
    BY <1>5, <1>6

\* The two together are inductive.
LEMMA NextKeeps == TypeOK /\ Unbroken /\ [Next]_vars => TypeOK' /\ Unbroken'
  <1>1. ASSUME TypeOK, Unbroken, NEW e \in ToSet(todo), Emit(e)
        PROVE  TypeOK' /\ Unbroken'
    BY <1>1, EmitKeeps
  <1>2. TypeOK /\ Unbroken /\ UNCHANGED vars => TypeOK' /\ Unbroken'
    BY DEF vars, source, translator, output, TypeOK, Unbroken, At
  <1> QED
    BY <1>1, <1>2, ReadLineKeeps, ErrorKeeps DEF Next

\* Every variable keeps its type, for streams of any length.
THEOREM TranslationTypeCorrect == Spec => []TypeOK
  BY InitUnbroken, NextKeeps, PTL DEF Spec

\* The chunks that a client is sent make a stream of its format: for any length
\* of the answer, wherever it breaks off, and whatever the parser still holds
\* then; up to an error chunk of the runner's own, if there is one, which is the
\* last.
THEOREM ClientStreamOrderly == Spec => []Orderly
  <1>1. TypeOK /\ Unbroken => Orderly
    BY DEF TypeOK, Unbroken, At, Orderly
  <1> QED
    BY <1>1, InitUnbroken, NextKeeps, PTL DEF Spec

-----------------------------------------------------------------------------
(* The reason for the end                                                  *)

HasFinish(events) == \E i \in DOMAIN events : events[i].type = "finish"
HasTool(events) == \E i \in DOMAIN events : events[i].type = "tool"
ToolShown == \E i \in DOMAIN shown : shown[i].kind = "tool"

\* Events that may follow what has been translated: upstream speaks of tool calls
\* after it has made one, a finish without a reason comes after one that has, and
\* an error comes alone.
Fits(events) ==
  \A i \in DOMAIN events :
    /\ events[i].type = "finish" /\ events[i].reason = "tool" =>
         hasTools \/ \E j \in DOMAIN events : j < i /\ events[j].type = "tool"
    /\ events[i].type = "finish" /\ events[i].reason = "none" => finishSent
    /\ events[i].type = "error" => Len(events) = 1 /\ up = "claude"

\* What upstream has said, what is still to be translated and what the writer has
\* noted agree; and the writer has noted a tool call exactly if it was shown one.
Accords ==
  /\ Fits(todo)
  /\ calls > 0 => hasTools \/ HasTool(todo)
  /\ closed \/ (up = "openai" /\ src = "ended") => finishSent \/ HasFinish(todo)
  /\ to = "claude" => cs.tools = hasTools
  /\ ~finishSent => (hasTools <=> ToolShown) /\ told = "none"
  /\ finishSent => told # "none" /\ (to # "gemini" => (told = "tool" <=> ToolShown))

LEMMA InitAccords == Init => Accords
<1> SUFFICES ASSUME Init PROVE Accords
  OBVIOUS
<1>1. Fits(todo)
  BY DEF Init, Fits
<1>2. ~HasTool(todo) /\ ~ToolShown
  BY DEF Init, HasTool, ToolShown
<1>3. /\ calls = 0 /\ closed = FALSE /\ src = "open" /\ told = "none"
      /\ ~finishSent /\ ~hasTools /\ cs.tools = hasTools
  BY DEF Init
<1>4. ~(calls > 0) /\ ~closed /\ src # "ended"
  BY <1>3
<1> QED
  BY <1>1, <1>2, <1>3, <1>4, Zenon DEF Accords

\* Short lists of events.
LEMMA ShortEvents ==
  /\ DOMAIN <<>> = {} /\ Len(<<>>) = 0
  /\ \A a : DOMAIN <<a>> = {1} /\ <<a>>[1] = a /\ Len(<<a>>) = 1
  /\ \A a, b : DOMAIN <<a, b>> = {1, 2} /\ <<a, b>>[1] = a /\ <<a, b>>[2] = b
               /\ Len(<<a, b>>) = 2
OBVIOUS

LEMMA ShortConcat ==
  \A a \in LineEvent, b \in LineEvent :
    /\ <<>> \o <<>> = <<>> /\ <<a>> \o <<>> = <<a>> /\ <<>> \o <<b>> = <<b>>
    /\ <<a>> \o <<b>> = <<a, b>>
<1> TAKE a \in LineEvent, b \in LineEvent
<1>1. <<>> \in Seq(LineEvent) /\ <<a>> \in Seq(LineEvent) /\ <<b>> \in Seq(LineEvent)
  OBVIOUS
<1>2. <<>> \o <<>> = <<>> /\ <<a>> \o <<>> = <<a>> /\ <<>> \o <<b>> = <<b>>
  BY <1>1, ConcatEmptySeq
<1> DEFINE s == <<a>>
           t == <<b>>
           both == <<a, b>>
<1>3. /\ s \in Seq(LineEvent) /\ Len(s) = 1 /\ s[1] = a
      /\ t \in Seq(LineEvent) /\ Len(t) = 1 /\ t[1] = b
      /\ both \in Seq(LineEvent) /\ Len(both) = 2 /\ both[1] = a /\ both[2] = b
  OBVIOUS
<1> HIDE DEF s, t, both
<1>5. /\ s \o t \in Seq(LineEvent) /\ Len(s \o t) = 2
      /\ \A i \in 1..2 : (s \o t)[i] = IF i <= 1 THEN s[i] ELSE t[i - 1]
  <2>1. /\ s \o t \in Seq(LineEvent) /\ Len(s \o t) = Len(s) + Len(t)
        /\ \A i \in 1..Len(s) + Len(t) :
             (s \o t)[i] = IF i <= Len(s) THEN s[i] ELSE t[i - Len(s)]
    BY <1>3, ConcatProperties
  <2> QED
    BY <1>3, <2>1
<1>6. /\ Len(s \o t) = Len(both)
      /\ \A i \in 1..Len(s \o t) : (s \o t)[i] = both[i]
  BY <1>3, <1>5
<1>7. s \o t = both
  <2> DEFINE joint == s \o t
  <2>1. /\ joint \in Seq(LineEvent) /\ Len(joint) = Len(both)
        /\ \A i \in 1..Len(joint) : joint[i] = both[i]
    BY <1>5, <1>6
  <2> HIDE DEF joint
  <2>2. joint = both
    BY <1>3, <2>1, SeqEqual
  <2> QED
    BY <2>2 DEF joint
<1>4. <<a>> \o <<b>> = <<a, b>>
  BY <1>7 DEF s, t, both
<1> QED
  BY <1>2, <1>4

LEMMA EventFields ==
  /\ \A type, n : Event(type, n).type = type
  /\ \A reason : Finish(reason).type = "finish" /\ Finish(reason).reason = reason
BY DEF Event, Finish

\* Lists of one event, and of an event that is no finish and another.
LEMMA FitsShort ==
  ASSUME NEW a, NEW b
  PROVE  /\ Fits(<<>>)
         /\ (/\ a.type = "finish" /\ a.reason = "tool" => hasTools
             /\ a.type = "finish" /\ a.reason = "none" => finishSent
             /\ a.type = "error" => up = "claude") => Fits(<<a>>)
         /\ (/\ a.type \notin {"finish", "error"} /\ b.type # "error"
             /\ b.type = "finish" /\ b.reason = "tool" => hasTools \/ a.type = "tool"
             /\ b.type = "finish" /\ b.reason = "none" => finishSent) => Fits(<<a, b>>)
         /\ a.type = "tool" => HasTool(<<a>>) /\ HasTool(<<a, b>>)
         /\ b.type = "tool" => HasTool(<<a, b>>)
         /\ a.type = "finish" => HasFinish(<<a>>)
         /\ b.type = "finish" => HasFinish(<<a, b>>)
<1>1. Fits(<<>>)
  BY ShortEvents DEF Fits
<1>2. (/\ a.type = "finish" /\ a.reason = "tool" => hasTools
       /\ a.type = "finish" /\ a.reason = "none" => finishSent
       /\ a.type = "error" => up = "claude") => Fits(<<a>>)
  BY ShortEvents DEF Fits
<1>3. (/\ a.type \notin {"finish", "error"} /\ b.type # "error"
       /\ b.type = "finish" /\ b.reason = "tool" => hasTools \/ a.type = "tool"
       /\ b.type = "finish" /\ b.reason = "none" => finishSent) => Fits(<<a, b>>)
  BY ShortEvents DEF Fits
<1>4. /\ a.type = "tool" => HasTool(<<a>>) /\ HasTool(<<a, b>>)
      /\ b.type = "tool" => HasTool(<<a, b>>)
      /\ a.type = "finish" => HasFinish(<<a>>)
      /\ b.type = "finish" => HasFinish(<<a, b>>)
  BY ShortEvents DEF HasTool, HasFinish
<1> QED
  BY <1>1, <1>2, <1>3, <1>4

\* A line that upstream sends, or the end: its events fit, they hold the tool call
\* that it makes, and where upstream closes they hold a finish.
LEMMA EventsAccord ==
  ASSUME TypeOK, Accords, NEW events, Translate(events), todo = <<>>,
         UNCHANGED <<up, to>>, Fits(events),
         calls' = calls \/ HasTool(events),
         closed' => closed \/ HasFinish(events),
         src' = src \/ (up = "openai" => HasFinish(events))
  PROVE  Accords'
<1>1. /\ todo' = events
      /\ UNCHANGED <<finishSent, hasTools, cs, shown, told, up, to>>
  BY DEF Translate
<1>2. ~HasTool(todo) /\ ~HasFinish(todo)
  BY ShortEvents DEF HasTool, HasFinish
<1>3. Fits(events)'
  BY <1>1 DEF Fits
<1>4. Fits(todo)'
  BY <1>1 DEF Fits
<1>5. HasTool(todo)' <=> HasTool(events)
  BY <1>1 DEF HasTool
<1>6. HasFinish(todo)' <=> HasFinish(events)
  BY <1>1 DEF HasFinish
<1>7. ToolShown' <=> ToolShown
  BY <1>1 DEF ToolShown
<1> QED
  BY <1>1, <1>2, <1>4, <1>5, <1>6, <1>7 DEF Accords

LEMMA ReadLineAccords ==
  ASSUME TypeOK, Accords, ReadLine PROVE Accords'
<1>h. Here \in Nat /\ calls \in Nat
  BY DEF Here, TypeOK
<1>n. \A type \in Types : Event(type, Here) \in LineEvent /\ Event(type, Here).type = type
  BY <1>h, EventTyped, EventFields
<1>f. \A reason \in EndReasons :
        /\ Finish(reason) \in LineEvent
        /\ Finish(reason).type = "finish" /\ Finish(reason).reason = reason
  BY EventTyped, EventFields
<1>k. Types = {"text", "thinking", "tool", "summary", "args", "signature", "redacted",
               "finish", "error"}
      /\ Content = {"text", "thinking", "tool"}
      /\ EndReasons = {"none", "stop", "length", "tool"}
  BY DEF Types, Content, EndReasons
\* Before a line everything has been translated.
<1>e. todo = <<>> => /\ calls > 0 => hasTools
                     /\ closed => finishSent
                     /\ \A reason \in Reasons : reason \in EndReasons \ {"none"}
                                                /\ (reason = "tool" => hasTools)
  <2> SUFFICES ASSUME todo = <<>>
               PROVE  /\ calls > 0 => hasTools
                      /\ closed => finishSent
                      /\ \A reason \in Reasons : reason \in EndReasons \ {"none"}
                                                 /\ (reason = "tool" => hasTools)
    OBVIOUS
  <2>1. ~HasTool(todo) /\ ~HasFinish(todo)
    BY ShortEvents DEF HasTool, HasFinish
  <2> QED
    BY <1>h, <2>1 DEF Accords, Reasons, EndReasons
<1>l. ASSUME NEW events, NEW items, Line(events, items)
      PROVE  Translate(events) /\ todo = <<>> /\ UNCHANGED <<up, to, src>>
  BY <1>l DEF Line
<1>p. \/ Pending = <<>>
      \/ Pending = <<Event("thinking", pending)>>
         /\ Event("thinking", pending) \in LineEvent
         /\ Event("thinking", pending).type = "thinking"
  BY <1>k, EventTyped, EventFields DEF Pending, TypeOK
<1>1. ASSUME NEW part \in {"none", "text", "thinking", "signature", "tool"},
             NEW usage \in BOOLEAN, NEW fin \in {"none", "stop", "length"},
             GeminiChunk(part, usage, fin)
      PROVE  Accords'
  <2> DEFINE events == GeminiEvents(part) \o GeminiFinish(part, usage, fin)
             items == IF part \in {"none", "signature"} THEN <<>> ELSE <<Item(part)>>
  <2>1. /\ Line(events, items)
        /\ calls' = calls + (IF part = "tool" THEN 1 ELSE 0)
        /\ closed' = (fin # "none")
    BY <1>1 DEF GeminiChunk
  <2>2. \/ GeminiEvents(part) = <<>> /\ part = "none"
        \/ /\ GeminiEvents(part) = <<Event(part, Here)>>
           /\ Event(part, Here) \in LineEvent /\ Event(part, Here).type = part
    BY <1>n, <1>k DEF GeminiEvents
  <2>3. \/ GeminiFinish(part, usage, fin) = <<>> /\ fin = "none"
        \/ \E reason \in {"length", "tool", "stop"} :
             /\ GeminiFinish(part, usage, fin) = <<Finish(reason)>>
             /\ reason = "tool" => part = "tool"
    BY DEF GeminiFinish
  <2> HIDE DEF items
  <2>4. /\ Fits(events)
        /\ part = "tool" => HasTool(events)
        /\ fin # "none" => HasFinish(events)
    <3>1. CASE GeminiFinish(part, usage, fin) = <<>> /\ fin = "none"
      <4>1. CASE GeminiEvents(part) = <<>> /\ part = "none"
        <5>1. events = <<>>
          BY <3>1, <4>1
        <5> QED
          BY <3>1, <4>1, <5>1, FitsShort
      <4>2. CASE /\ GeminiEvents(part) = <<Event(part, Here)>>
                 /\ Event(part, Here) \in LineEvent /\ Event(part, Here).type = part
        <5>1. events = <<Event(part, Here)>>
          BY <3>1, <4>2, ShortConcat
        <5> HIDE DEF events
        <5> QED
          BY <3>1, <4>2, <5>1, FitsShort
      <4> QED
        BY <2>2, <4>1, <4>2
    <3>2. ASSUME NEW reason \in {"length", "tool", "stop"},
                 GeminiFinish(part, usage, fin) = <<Finish(reason)>>,
                 reason = "tool" => part = "tool"
          PROVE  /\ Fits(events)
                 /\ part = "tool" => HasTool(events)
                 /\ fin # "none" => HasFinish(events)
      <4>f. Finish(reason) \in LineEvent /\ Finish(reason).type = "finish"
            /\ Finish(reason).reason = reason
        BY <1>f, <1>k
      <4>1. CASE GeminiEvents(part) = <<>> /\ part = "none"
        <5>1. events = <<Finish(reason)>>
          BY <3>2, <4>1, <4>f, ShortConcat
        <5> HIDE DEF events
        <5> QED
          BY <3>2, <4>1, <4>f, <5>1, FitsShort
      <4>2. CASE /\ GeminiEvents(part) = <<Event(part, Here)>>
                 /\ Event(part, Here) \in LineEvent /\ Event(part, Here).type = part
        <5>1. events = <<Event(part, Here), Finish(reason)>>
          BY <3>2, <4>2, <4>f, ShortConcat
        <5> HIDE DEF events
        <5> QED
          BY <3>2, <4>2, <4>f, <5>1, FitsShort
      <4> QED
        BY <2>2, <4>1, <4>2
    <3> QED
      BY <2>3, <3>1, <3>2
  <2> HIDE DEF events
  <2>5. part # "tool" => calls' = calls
    BY <1>h, <2>1
  <2>6. /\ Translate(events) /\ todo = <<>> /\ UNCHANGED <<up, to, src>>
        /\ calls' = calls \/ HasTool(events)
        /\ closed' => closed \/ HasFinish(events)
    BY <1>l, <2>1, <2>4, <2>5
  <2> QED
    BY <2>4, <2>6, EventsAccord
<1>2. ASSUME NEW part \in {"text", "thinking", "signature", "redacted", "tool"},
             ClaudeChunk(part)
      PROVE  Accords'
  <2>1. /\ calls' = calls + (IF part = "tool" THEN 1 ELSE 0)
        /\ closed' = closed
    BY <1>2 DEF ClaudeChunk
  <2>2. PICK events : /\ Translate(events) /\ todo = <<>> /\ UNCHANGED <<up, to, src>>
                      /\ \/ events = <<>> /\ part = "signature"
                         \/ events = Pending \o <<Event(part, Here)>>
    <3>1. CASE part = "signature"
      BY <1>2, <1>l, <3>1 DEF ClaudeChunk
    <3>2. CASE part = "redacted"
      BY <1>2, <1>l, <3>2 DEF ClaudeChunk
    <3>3. CASE part \notin {"signature", "redacted"}
      <4>1. Line(Pending \o <<Event(part, Here)>>, <<Item(part)>>)
        BY <1>2, <3>3 DEF ClaudeChunk
      <4> QED
        BY <1>l, <4>1
    <3> QED
      BY <3>1, <3>2, <3>3
  <2>3. Event(part, Here) \in LineEvent /\ Event(part, Here).type = part
    BY <1>n, <1>k
  <2>4. Fits(events) /\ (part = "tool" => HasTool(events))
    <3>1. CASE events = <<>> /\ part = "signature"
      BY <3>1, FitsShort
    <3>2. CASE events = Pending \o <<Event(part, Here)>> /\ Pending = <<>>
      <4>1. events = <<Event(part, Here)>>
        BY <2>3, <3>2, ShortConcat
      <4> QED
        BY <2>3, <4>1, FitsShort
    <3>3. CASE events = Pending \o <<Event(part, Here)>> /\ Pending # <<>>
      <4>1. events = <<Event("thinking", pending), Event(part, Here)>>
        BY <1>p, <2>3, <3>3, ShortConcat
      <4> QED
        BY <1>p, <2>3, <3>3, <4>1, FitsShort
    <3> QED
      BY <2>2, <3>1, <3>2, <3>3
  <2>5. part # "tool" => calls' = calls
    BY <1>h, <2>1
  <2> QED
    BY <2>1, <2>2, <2>4, <2>5, EventsAccord
<1>3. ASSUME NEW reason \in EndReasons, Line(<<Finish(reason)>>, <<>>),
             reason = "tool" => hasTools, reason = "none" => finishSent,
             calls' = calls
      PROVE  Accords'
  <2>1. Translate(<<Finish(reason)>>) /\ todo = <<>> /\ UNCHANGED <<up, to, src>>
    BY <1>3, <1>l
  <2>2. Fits(<<Finish(reason)>>) /\ HasFinish(<<Finish(reason)>>)
    BY <1>3, <1>f, FitsShort
  <2> QED
    BY <1>3, <2>1, <2>2, EventsAccord
<1>4. ASSUME NEW reason \in Reasons \cup {"stop"},
             ClaudeEnd(reason) \/ OpenAIEnd(reason)
      PROVE  Accords'
  <2>1. Line(<<Finish(reason)>>, <<>>) /\ calls' = calls /\ todo = <<>>
    BY <1>4 DEF ClaudeEnd, OpenAIEnd, Line
  <2>2. reason \in EndReasons /\ reason # "none" /\ (reason = "tool" => hasTools)
    BY <1>e, <1>k, <2>1
  <2> QED
    BY <1>3, <2>1, <2>2
<1>5. CASE ClaudeStop
  <2>1. Line(<<Finish("stop")>>, <<>>) /\ calls' = calls
    BY <1>5 DEF ClaudeStop
  <2> QED
    BY <1>3, <1>k, <2>1
<1>6. CASE OpenAIUsage
  <2>1. Line(<<Finish("none")>>, <<>>) /\ calls' = calls /\ closed /\ todo = <<>>
    BY <1>6 DEF OpenAIUsage, Line
  <2>2. finishSent
    BY <1>e, <2>1
  <2> QED
    BY <1>3, <1>k, <2>1, <2>2
<1>7. ASSUME NEW kind \in Types \ {"finish", "error"}, NEW items, Line(<<Event(kind, Here)>>, items),
             kind # "tool" => calls' = calls, closed' = closed
      PROVE  Accords'
  <2>1. /\ Translate(<<Event(kind, Here)>>) /\ todo = <<>> /\ UNCHANGED <<up, to, src>>
    BY <1>7, <1>l
  <2>2. Fits(<<Event(kind, Here)>>) /\ (kind = "tool" => HasTool(<<Event(kind, Here)>>))
    <3>1. Event(kind, Here).type \notin {"finish", "error"}
      BY <1>n, <1>k
    <3>2. kind = "tool" => Event(kind, Here).type = "tool"
      BY <1>n, <1>k
    <3> QED
      BY <3>1, <3>2, FitsShort
  <2> QED
    BY <1>7, <2>1, <2>2, EventsAccord
<1>8. ASSUME NEW part \in {"text", "thinking", "tool", "more"}, OpenAIChunk(part)
      PROVE  Accords'
  <2> DEFINE kind == IF part = "more" THEN "tool" ELSE part
  <2>1. /\ Line(<<Event(kind, Here)>>, <<Item(kind)>>)
        /\ calls' = calls + (IF part = "tool" THEN 1 ELSE 0)
        /\ closed' = closed
    BY <1>8 DEF OpenAIChunk
  <2>2. kind \in Types \ {"finish", "error"} /\ (kind # "tool" => part # "tool")
    BY <1>k
  <2>3. kind # "tool" => calls' = calls
    BY <1>h, <2>1, <2>2
  <2> HIDE DEF kind
  <2> QED
    BY <1>7, <2>1, <2>2, <2>3
<1>9. ASSUME NEW part \in {"text", "summary", "args", "tool"}, ResponsesChunk(part)
      PROVE  Accords'
  <2>1. /\ \E items : Line(<<Event(part, Here)>>, items)
        /\ calls' = calls + (IF part = "tool" THEN 1 ELSE 0)
        /\ closed' = closed
    BY <1>9 DEF ResponsesChunk
  <2>2. part \in Types \ {"finish", "error"} /\ (part # "tool" => calls' = calls)
    BY <1>h, <1>k, <2>1
  <2> QED
    BY <1>7, <2>1, <2>2
<1>10. CASE UpstreamError
  <2> DEFINE events == IF up = "claude" THEN <<Event("error", 0)>> ELSE <<>>
  <2>1. Line(events, <<>>) /\ UNCHANGED <<closed, calls>>
    BY <1>10 DEF UpstreamError
  <2>2. Event("error", 0).type = "error"
    BY EventFields
  <2>3. Fits(events)
    <3>1. CASE up = "claude"
      BY <2>2, <3>1, FitsShort
    <3>2. CASE up # "claude"
      BY <3>2, FitsShort
    <3> QED
      BY <3>1, <3>2
  <2> HIDE DEF events
  <2>4. Translate(events) /\ todo = <<>> /\ UNCHANGED <<up, to, src>>
    BY <1>l, <2>1
  <2> QED
    BY <2>1, <2>3, <2>4, EventsAccord
<1>d. Fits(DoneEvents) /\ (up = "openai" => HasFinish(DoneEvents))
  <2>f. Finish("stop") \in LineEvent /\ Finish("stop").type = "finish"
        /\ Finish("stop").reason = "stop"
    BY <1>f, <1>k
  <2>1. CASE up = "openai" /\ Pending = <<>>
    <3>1. DoneEvents = <<Finish("stop")>>
      BY <2>1, <2>f, ShortConcat DEF DoneEvents
    <3> QED
      BY <2>f, <3>1, FitsShort
  <2>2. CASE up = "openai" /\ Pending # <<>>
    <3>1. DoneEvents = <<Finish("stop"), Event("thinking", pending)>>
      BY <1>p, <2>2, <2>f, ShortConcat DEF DoneEvents
    <3>2. Event("thinking", pending).type = "thinking"
      BY <1>p, <2>2
    <3> DEFINE a == Finish("stop")
               b == Event("thinking", pending)
    <3>3. a.type = "finish" /\ a.reason = "stop" /\ b.type = "thinking"
      BY <2>f, <3>2
    <3> HIDE DEF a, b
    <3>4. Fits(<<a, b>>) /\ HasFinish(<<a, b>>)
      BY <3>3, ShortEvents DEF Fits, HasFinish
    <3> QED
      BY <3>1, <3>4 DEF a, b
  <2>3. CASE up # "openai"
    <3>1. DoneEvents = <<>> \/ (DoneEvents = <<Event("thinking", pending)>>
                                /\ Event("thinking", pending).type = "thinking")
      BY <1>p, <2>3, ShortConcat DEF DoneEvents
    <3> QED
      BY <2>3, <3>1, FitsShort
  <2> QED
    BY <2>1, <2>2, <2>3
<1>11. CASE DoneLine \/ BodyEnds
  <2>1. Translate(DoneEvents) /\ todo = <<>> /\ UNCHANGED <<up, to, closed, calls>>
    BY <1>11 DEF DoneLine, BodyEnds, Done
  <2> QED
    BY <1>d, <2>1, EventsAccord
<1>12. \A reason \in Reasons : reason \in Reasons \cup {"stop"}
  OBVIOUS
<1> QED
  BY <1>1, <1>2, <1>4, <1>5, <1>6, <1>8, <1>9, <1>10, <1>11, <1>12 DEF ReadLine

\* When the first event has been taken, the others still fit what was noted then.
LEMMA RestFits ==
  ASSUME NEW events \in Seq(LineEvent), events # <<>>, Fits(events)
  PROVE  LET first == Head(events)
             rest == Tail(events)
         IN /\ \A i \in DOMAIN rest :
                 /\ rest[i].type = "finish" /\ rest[i].reason = "tool" =>
                      \/ hasTools \/ first.type = "tool"
                      \/ \E j \in DOMAIN rest : j < i /\ rest[j].type = "tool"
                 /\ rest[i].type = "finish" /\ rest[i].reason = "none" => finishSent
                 /\ rest[i].type # "error"
            /\ first.type = "finish" /\ first.reason = "tool" => hasTools
            /\ first.type = "finish" /\ first.reason = "none" => finishSent
            /\ first.type = "error" => rest = <<>> /\ up = "claude"
            /\ HasTool(events) => first.type = "tool" \/ HasTool(rest)
            /\ HasFinish(events) => first.type = "finish" \/ HasFinish(rest)
<1> DEFINE first == Head(events)
           rest == Tail(events)
           n == Len(events)
<1>1. /\ n \in Nat /\ n >= 1 /\ DOMAIN events = 1..n
      /\ first = events[1]
      /\ rest \in Seq(LineEvent) /\ Len(rest) = n - 1 /\ DOMAIN rest = 1..n - 1
      /\ \A i \in 1..n - 1 : rest[i] = events[i + 1]
  BY HeadTailProperties
<1>2. /\ n = 1 => rest = <<>>
  BY <1>1
<1> HIDE DEF first, rest
<1>3. \A i \in 1..n :
        /\ events[i].type = "finish" /\ events[i].reason = "tool" =>
             hasTools \/ \E j \in 1..n : j < i /\ events[j].type = "tool"
        /\ events[i].type = "finish" /\ events[i].reason = "none" => finishSent
        /\ events[i].type = "error" => n = 1 /\ up = "claude"
  BY <1>1 DEF Fits
<1> HIDE DEF n
<1>4. \A i \in 1..n - 1 :
        /\ rest[i].type = "finish" /\ rest[i].reason = "tool" =>
             \/ hasTools \/ first.type = "tool"
             \/ \E j \in 1..n - 1 : j < i /\ rest[j].type = "tool"
        /\ rest[i].type = "finish" /\ rest[i].reason = "none" => finishSent
        /\ rest[i].type # "error"
  <2> TAKE i \in 1..n - 1
  <2>1. i + 1 \in 1..n /\ rest[i] = events[i + 1] /\ n # 1
    BY <1>1
  <2>2. ASSUME NEW j \in 1..n, j < i + 1, events[j].type = "tool"
        PROVE  first.type = "tool" \/ \E k \in 1..n - 1 : k < i /\ rest[k].type = "tool"
    <3>1. CASE j = 1
      BY <1>1, <2>2, <3>1
    <3>2. CASE j # 1
      <4>1. j - 1 \in 1..n - 1 /\ j - 1 < i /\ rest[j - 1] = events[(j - 1) + 1]
            /\ (j - 1) + 1 = j
        BY <1>1, <2>2, <3>2
      <4> QED
        BY <2>2, <4>1
    <3> QED
      BY <3>1, <3>2
  <2> QED
    BY <1>3, <2>1, <2>2
<1>5. /\ first.type = "finish" /\ first.reason = "tool" => hasTools
      /\ first.type = "finish" /\ first.reason = "none" => finishSent
      /\ first.type = "error" => rest = <<>> /\ up = "claude"
  <2>1. 1 \in 1..n /\ ~\E j \in 1..n : j < 1
    BY <1>1
  <2> QED
    BY <1>1, <1>2, <1>3, <2>1
<1>6. ASSUME NEW i \in 1..n PROVE events[i] = first \/ (\E k \in 1..n - 1 : rest[k] = events[i])
  <2>1. CASE i = 1
    BY <1>1, <2>1
  <2>2. CASE i # 1
    <3>1. i - 1 \in 1..n - 1 /\ rest[i - 1] = events[(i - 1) + 1] /\ (i - 1) + 1 = i
      BY <1>1, <1>6, <2>2
    <3> QED
      BY <3>1
  <2> QED
    BY <2>1, <2>2
<1>7. /\ HasTool(events) => first.type = "tool" \/ HasTool(rest)
      /\ HasFinish(events) => first.type = "finish" \/ HasFinish(rest)
  BY <1>1, <1>6 DEF HasTool, HasFinish
<1> QED
  BY <1>1, <1>4, <1>5, <1>7 DEF first, rest

\* A chunk shows a tool call exactly if it is one.
LEMMA ShownAppended ==
  ASSUME TypeOK
  PROVE  /\ shown \o <<>> = shown
         /\ \A kind \in Content, n \in Nat : shown' = shown \o <<[kind |-> kind, n |-> n]>>
              => (ToolShown' <=> ToolShown \/ kind = "tool")
         /\ shown' = shown => (ToolShown' <=> ToolShown)
<1>1. shown \in Seq(SaidItem)
  BY DEF TypeOK, SaidItem
<1>2. shown \o <<>> = shown
  BY <1>1, ConcatEmptySeq
<1>3. ASSUME NEW kind \in Content, NEW n \in Nat,
             shown' = shown \o <<[kind |-> kind, n |-> n]>>
      PROVE  ToolShown' <=> ToolShown \/ kind = "tool"
  <2> DEFINE item == [kind |-> kind, n |-> n]
             one == <<item>>
             l == Len(shown)
  <2>1. /\ item \in SaidItem /\ item.kind = kind
        /\ one \in Seq(SaidItem) /\ Len(one) = 1 /\ one[1] = item
    BY DEF SaidItem
  <2> HIDE DEF item, one
  <2>2. shown' = shown \o one
    BY <1>3 DEF one, item
  <2>3. /\ shown' \in Seq(SaidItem) /\ Len(shown') = l + 1 /\ l \in Nat
        /\ \A i \in 1..l + 1 : shown'[i] = IF i <= l THEN shown[i] ELSE one[i - l]
    <3> DEFINE joint == shown \o one
    <3>1. /\ joint \in Seq(SaidItem) /\ Len(joint) = l + Len(one)
          /\ \A i \in 1..l + Len(one) : joint[i] = IF i <= l THEN shown[i] ELSE one[i - l]
      BY <1>1, <2>1, ConcatProperties
    <3>2. l \in Nat
      BY <1>1
    <3> HIDE DEF joint, l
    <3>3. shown' = joint
      BY <2>2 DEF joint
    <3> QED
      BY <2>1, <3>1, <3>2, <3>3
  <2>4. /\ DOMAIN shown = 1..l /\ DOMAIN shown' = 1..l + 1
    BY <1>1, <2>3
  <2>5. /\ \A i \in 1..l : shown'[i] = shown[i]
        /\ shown'[l + 1] = item
    BY <2>1, <2>3
  <2> HIDE DEF l
  <2> QED
    BY <2>1, <2>3, <2>4, <2>5 DEF ToolShown
<1>4. shown' = shown => (ToolShown' <=> ToolShown)
  BY DEF ToolShown
<1> QED
  BY <1>2, <1>3, <1>4

\* What an emission does to the tools and to the reason: it notes a tool call and
\* shows it, unless the buffer is closed, and tells the reason with the first finish.
Noted(e) ==
  /\ e.type = "tool" => hasTools' = TRUE
  /\ e.type # "tool" => hasTools' = hasTools
  /\ to = "claude" /\ cs.tools = hasTools => cs'.tools = hasTools'
  /\ buffered => (ToolShown' <=> ToolShown)
  /\ ~buffered => (ToolShown' <=> ToolShown \/ e.type = "tool")
  /\ e.type = "finish" => finishSent'
  /\ \/ finishSent' = finishSent /\ told' = told /\ (e.type = "finish" => finishSent)
     \/ e.type = "finish" /\ ~finishSent /\ finishSent' /\ told' = Reason(e)

LEMMA EmitNotes ==
  ASSUME TypeOK, Unbroken, NEW e, Emit(e), e.type # "error" \/ to = "claude"
  PROVE  /\ Noted(e)
         /\ todo # <<>> /\ e = Head(todo) /\ todo' = Tail(todo)
         /\ UNCHANGED <<up, to, src, closed, calls>>
<1>b. buffered = finishSent /\ hasTools \in BOOLEAN /\ finishSent \in BOOLEAN
  BY DEF Unbroken, TypeOK
<1>n. ASSUME NEW type, Emitting(e, type)
      PROVE  /\ e.type = type /\ e.n \in Nat
             /\ todo # <<>> /\ e = Head(todo) /\ todo' = Tail(todo)
             /\ UNCHANGED <<up, to, src, closed, calls>>
  <2>1. todo # <<>> /\ e = Head(todo) /\ e.type = type /\ todo' = Tail(todo)
        /\ UNCHANGED <<up, to, src, closed, calls>>
    BY <1>n DEF Emitting, source
  <2>2. e \in LineEvent
    BY <2>1, HeadTailProperties DEF TypeOK, LineEvent
  <2> QED
    BY <2>1, <2>2 DEF LineEvent
<1>p. ASSUME NEW c, NEW kind \in Content, NEW n \in Nat, Put(c, <<[kind |-> kind, n |-> n]>>)
      PROVE  /\ buffered => (ToolShown' <=> ToolShown)
             /\ ~buffered => (ToolShown' <=> ToolShown \/ kind = "tool")
  BY <1>p, ShownAppended DEF Put
<1>q. ASSUME NEW c, Put(c, <<>>) PROVE ToolShown' <=> ToolShown
  BY <1>q, ShownAppended DEF Put
\* The emissions that show no tool call and note none.
<1>k. ASSUME NEW type, Emitting(e, type), type \notin {"tool", "finish"},
             ToolShown' <=> ToolShown, cs'.tools = cs.tools,
             finishSent' = finishSent, hasTools' = hasTools, told' = told
      PROVE  Noted(e)
  <2>1. e.type = type /\ type # "tool" /\ type # "finish"
    BY <1>k, <1>n
  <2> QED
    BY <1>k, <2>1, Zenon DEF Noted
<1>1. ASSUME NEW kind \in {"text", "thinking"}, EmitDelta(e, kind) PROVE Noted(e)
  <2>1. Emitting(e, kind) /\ finishSent' = finishSent /\ hasTools' = hasTools /\ told' = told
    BY <1>1 DEF EmitDelta
  <2>2. \E c : Put(c, <<[kind |-> kind, n |-> e.n]>>)
    <3>1. CASE to = "claude"
      BY <1>1, <3>1, Zenon DEF EmitDelta
    <3>2. CASE to # "claude"
      BY <1>1, <3>2, Zenon DEF EmitDelta
    <3> QED
      BY <3>1, <3>2
  <2>3. kind \in Content /\ kind # "tool" /\ e.n \in Nat
    BY <1>n, <2>1 DEF Content
  <2>4. ToolShown' <=> ToolShown
    BY <1>p, <2>2, <2>3
  <2>5. cs'.tools = cs.tools
    <3>1. CASE to = "claude"
      <4>1. PICK i : cs' = [cs EXCEPT !.open = kind, !.index = i, !.text = @ \/ kind = "text"]
        BY <1>1, <3>1, Zenon DEF EmitDelta
      <4> QED
        BY <4>1 DEF TypeOK
    <3>2. CASE to # "claude"
      BY <1>1, <3>2 DEF EmitDelta
    <3> QED
      BY <3>1, <3>2
  <2> QED
    BY <1>k, <2>1, <2>3, <2>4, <2>5
<1>2. ASSUME EmitSignature(e) PROVE Noted(e)
  <2>1. Emitting(e, "signature") /\ (\E c : Put(c, <<>>))
        /\ finishSent' = finishSent /\ hasTools' = hasTools /\ cs' = cs /\ told' = told
    BY <1>2 DEF EmitSignature
  <2>2. ToolShown' <=> ToolShown
    BY <1>q, <2>1
  <2>3. cs'.tools = cs.tools /\ "signature" \notin {"tool", "finish"}
    BY <2>1
  <2> QED
    BY <1>k, <2>1, <2>2, <2>3, Zenon
<1>3. ASSUME EmitTool(e) PROVE Noted(e)
  <2>1. Emitting(e, "tool") /\ hasTools' = TRUE /\ finishSent' = finishSent /\ told' = told
    BY <1>3 DEF EmitTool
  <2>2. \E c : Put(c, <<[kind |-> "tool", n |-> e.n]>>)
    <3>1. CASE to = "claude"
      BY <1>3, <3>1, Zenon DEF EmitTool
    <3>2. CASE to # "claude"
      BY <1>3, <3>2, Zenon DEF EmitTool
    <3> QED
      BY <3>1, <3>2
  <2>3. e.n \in Nat /\ e.type = "tool" /\ "tool" \in Content
    BY <1>n, <2>1 DEF Content
  <2>4. to = "claude" => cs'.tools = TRUE
    <3> SUFFICES ASSUME to = "claude" PROVE cs'.tools = TRUE
      OBVIOUS
    <3> DEFINE i == NextIndex + 1
    <3>1. cs' = [cs EXCEPT !.open = "none", !.index = i, !.tools = TRUE]
      BY <1>3 DEF EmitTool
    <3> HIDE DEF i
    <3> QED
      BY <3>1 DEF TypeOK
  <2>5. /\ buffered => (ToolShown' <=> ToolShown)
        /\ ~buffered => ToolShown'
    BY <1>p, <2>2, <2>3
  <2> QED
    BY <2>1, <2>3, <2>4, <2>5, Zenon DEF Noted
<1>4. ASSUME EmitArgs(e) PROVE Noted(e)
  <2>1. Emitting(e, "args") /\ finishSent' = finishSent /\ hasTools' = hasTools /\ cs' = cs /\ told' = told
    BY <1>4 DEF EmitArgs
  <2>2. ToolShown' <=> ToolShown
    <3>1. CASE to = "claude"
      BY <1>4, <3>1, ShownAppended DEF EmitArgs
    <3>2. CASE to # "claude"
      BY <1>4, <1>q, <3>2 DEF EmitArgs
    <3> QED
      BY <3>1, <3>2
  <2>3. cs'.tools = cs.tools /\ "args" \notin {"tool", "finish"}
    BY <2>1
  <2> QED
    BY <1>k, <2>1, <2>2, <2>3, Zenon
<1>5. ASSUME NEW type \in {"redacted", "summary"}, EmitEmpty(e, type) PROVE Noted(e)
  <2>1. Emitting(e, type) /\ finishSent' = finishSent /\ hasTools' = hasTools /\ cs' = cs /\ told' = told
    BY <1>5 DEF EmitEmpty
  <2>2. ToolShown' <=> ToolShown
    <3>1. CASE to = "claude"
      BY <1>5, <3>1, ShownAppended DEF EmitEmpty
    <3>2. CASE to # "claude"
      BY <1>5, <1>q, <3>2 DEF EmitEmpty
    <3> QED
      BY <3>1, <3>2
  <2> QED
    BY <1>k, <2>1, <2>2
<1>6. ASSUME EmitFinish(e) PROVE Noted(e)
  <2>1. /\ Emitting(e, "finish") /\ ~finishSent /\ finishSent' = TRUE
        /\ hasTools' = hasTools /\ told' = Reason(e)
    BY <1>6, <1>b DEF EmitFinish
  <2>2. \E c : Put(c, <<>>)
    <3>1. CASE to = "claude"
      BY <1>6, <3>1, Zenon DEF EmitFinish
    <3>2. CASE to # "claude"
      BY <1>6, <3>2, Zenon DEF EmitFinish
    <3> QED
      BY <3>1, <3>2
  <2>3. cs'.tools = cs.tools
    <3>1. CASE to = "claude"
      <4>1. cs' = [cs EXCEPT !.open = "none", !.index = NextIndex]
        BY <1>6, <3>1 DEF EmitFinish
      <4> QED
        BY <4>1 DEF TypeOK
    <3>2. CASE to # "claude"
      BY <1>6, <3>2 DEF EmitFinish
    <3> QED
      BY <3>1, <3>2
  <2>4. e.type = "finish" /\ (ToolShown' <=> ToolShown)
    BY <1>n, <1>q, <2>1, <2>2
  <2>5. e.type # "tool" /\ finishSent'
    BY <2>1, <2>4
  <2> QED
    BY <2>1, <2>3, <2>4, <2>5, Zenon DEF Noted
<1>7. ASSUME SkipFinish(e) PROVE Noted(e)
  <2>1. /\ Emitting(e, "finish") /\ finishSent
        /\ finishSent' = finishSent /\ hasTools' = hasTools /\ cs' = cs /\ told' = told /\ shown' = shown
    BY <1>7 DEF SkipFinish, output
  <2>2. e.type = "finish" /\ (ToolShown' <=> ToolShown)
    BY <1>n, <2>1, ShownAppended
  <2>3. e.type # "tool" /\ finishSent' /\ cs'.tools = cs.tools
    BY <1>b, <2>1, <2>2
  <2> QED
    BY <2>1, <2>2, <2>3, Zenon DEF Noted
<1>8. ASSUME EmitError(e) PROVE Noted(e)
  <2>1. /\ Emitting(e, "error")
        /\ finishSent' = finishSent /\ hasTools' = hasTools /\ cs' = cs /\ told' = told /\ shown' = shown
    BY <1>8 DEF EmitError, output
  <2>2. ToolShown' <=> ToolShown
    BY <2>1, ShownAppended
  <2>3. cs'.tools = cs.tools /\ "error" \notin {"tool", "finish"}
    BY <2>1
  <2> QED
    BY <1>k, <2>1, <2>2, <2>3, Zenon
<1>9. ~FailOnError(e)
  BY DEF FailOnError
<1>10. Noted(e)
  BY <1>1, <1>2, <1>3, <1>4, <1>5, <1>6, <1>7, <1>8, <1>9 DEF Emit
<1>11. \E type : Emitting(e, type)
  BY <1>9, Zenon DEF Emit, EmitDelta, EmitSignature, EmitTool, EmitArgs, EmitEmpty, EmitFinish,
              SkipFinish, EmitError
<1> QED
  BY <1>n, <1>10, <1>11

\* The events that are flushed when the translation fails: no finish of Claude's.
LEMMA FailureFlushes ==
  ASSUME TypeOK, Accords, NEW e, FailOnError(e) PROVE Accords'
<1>1. /\ todo # <<>> /\ e = Head(todo) /\ e.type = "error" /\ to # "claude"
      /\ todo' = DoneEvents
      /\ UNCHANGED <<up, to, closed, calls, finishSent, hasTools, cs, shown, told>>
  BY DEF FailOnError, translator, output
<1>2. up = "claude" /\ ~HasTool(todo) /\ ~HasFinish(todo)
  <2>1. todo \in Seq(LineEvent)
    BY DEF TypeOK, LineEvent
  <2>2. Len(todo) \in Nat /\ DOMAIN todo = 1..Len(todo) /\ 1 \in DOMAIN todo /\ todo[1] = e
    BY <1>1, <2>1, HeadTailProperties
  <2>3. Len(todo) = 1 /\ up = "claude"
    BY <1>1, <2>2 DEF Accords, Fits
  <2>4. \A i \in DOMAIN todo : todo[i] = e
    BY <2>2, <2>3
  <2> QED
    BY <1>1, <2>3, <2>4 DEF HasTool, HasFinish
<1>3. DoneEvents = <<>> \/ (DoneEvents = <<Event("thinking", pending)>>
                            /\ Event("thinking", pending).type = "thinking")
  <2>1. \/ Pending = <<>>
        \/ Pending = <<Event("thinking", pending)>>
           /\ Event("thinking", pending) \in LineEvent
           /\ Event("thinking", pending).type = "thinking"
    <3>1. "thinking" \in Types /\ pending \in Nat
      BY DEF Types, Content, TypeOK
    <3> QED
      BY <3>1, EventTyped, EventFields DEF Pending
  <2> QED
    BY <1>2, <2>1, ShortConcat DEF DoneEvents
<1>4. Fits(DoneEvents)
  BY <1>3, FitsShort
<1>5. Fits(todo)'
  BY <1>1, <1>4 DEF Fits
<1>6. ToolShown' <=> ToolShown
  BY <1>1 DEF ToolShown
<1> QED
  BY <1>1, <1>2, <1>5, <1>6 DEF Accords

LEMMA EmitAccords ==
  ASSUME TypeOK, Unbroken, Accords, NEW e, Emit(e) PROVE Accords'
<1>1. CASE e.type = "error" /\ to # "claude"
  <2>1. FailOnError(e)
    BY <1>1 DEF Emit, EmitDelta, EmitSignature, EmitTool, EmitArgs, EmitEmpty, EmitFinish,
                SkipFinish, EmitError, Emitting
  <2> QED
    BY <2>1, FailureFlushes
<1>2. CASE e.type # "error" \/ to = "claude"
  <2>1. /\ Noted(e)
        /\ todo # <<>> /\ e = Head(todo) /\ todo' = Tail(todo)
        /\ UNCHANGED <<up, to, src, closed, calls>>
    BY <1>2, EmitNotes
  <2>2. todo \in Seq(LineEvent) /\ Fits(todo)
    BY DEF TypeOK, LineEvent, Accords
  <2>3. /\ \A i \in DOMAIN todo' :
             /\ todo'[i].type = "finish" /\ todo'[i].reason = "tool" =>
                  \/ hasTools \/ e.type = "tool"
                  \/ \E j \in DOMAIN todo' : j < i /\ todo'[j].type = "tool"
             /\ todo'[i].type = "finish" /\ todo'[i].reason = "none" => finishSent
             /\ todo'[i].type # "error"
        /\ e.type = "finish" /\ e.reason = "tool" => hasTools
        /\ e.type = "finish" /\ e.reason = "none" => finishSent
        /\ HasTool(todo) => e.type = "tool" \/ HasTool(Tail(todo))
        /\ HasFinish(todo) => e.type = "finish" \/ HasFinish(Tail(todo))
    BY <2>1, <2>2, RestFits
  <2>b. buffered = finishSent /\ hasTools \in BOOLEAN /\ finishSent \in BOOLEAN
        /\ told \in EndReasons /\ to \in {"claude", "openai", "gemini", "ollama"}
    BY TranslationAssumption DEF Unbroken, TypeOK
  <2>h. /\ HasTool(todo)' <=> HasTool(Tail(todo))
        /\ HasFinish(todo)' <=> HasFinish(Tail(todo))
    BY <2>1 DEF HasTool, HasFinish
  <2>n. /\ hasTools' <=> hasTools \/ e.type = "tool"
        /\ finishSent => finishSent'
        /\ e.type = "finish" => finishSent'
    BY <2>1, <2>b DEF Noted
  <2>4. Fits(todo)'
    BY <2>3, <2>n DEF Fits
  <2>5. (calls > 0)' => hasTools' \/ HasTool(todo)'
    BY <2>1, <2>3, <2>h, <2>n DEF Accords
  <2>6. (closed \/ (up = "openai" /\ src = "ended"))' => finishSent' \/ HasFinish(todo)'
    BY <2>1, <2>3, <2>h, <2>n DEF Accords
  <2>7. (to = "claude")' => cs'.tools = hasTools'
    BY <2>1 DEF Accords, Noted
  <2>8. CASE finishSent' = finishSent /\ told' = told /\ (e.type = "finish" => finishSent)
    <3>1. ~finishSent => e.type # "finish"
      BY <2>8, <2>b, <2>n
    <3>2. /\ finishSent => (ToolShown' <=> ToolShown)
          /\ ~finishSent => (ToolShown' <=> ToolShown \/ e.type = "tool")
      BY <2>1, <2>b DEF Noted
    <3>3. ~finishSent' => (hasTools' <=> ToolShown') /\ told' = "none"
      BY <2>8, <2>n, <3>2 DEF Accords
    <3>4. finishSent' => told' # "none" /\ (to' # "gemini" => (told' = "tool" <=> ToolShown'))
      BY <2>1, <2>8, <3>2 DEF Accords
    <3> QED
      BY <2>4, <2>5, <2>6, <2>7, <3>3, <3>4 DEF Accords
  <2>9. CASE e.type = "finish" /\ ~finishSent /\ finishSent' /\ told' = Reason(e)
    <3>1. ToolShown' <=> ToolShown
      BY <2>1, <2>9, <2>b DEF Noted
    <3>2. hasTools <=> ToolShown
      BY <2>9 DEF Accords
    <3>3. e.reason # "none" /\ (e.reason = "tool" => hasTools)
      BY <2>3, <2>9
    <3>4. to = "claude" => cs.tools = hasTools
      BY DEF Accords
    <3>5. Reason(e) # "none" /\ (to # "gemini" => (Reason(e) = "tool" <=> hasTools))
      <4>1. CASE to = "claude"
        BY <2>b, <3>4, <4>1 DEF Reason
      <4>2. CASE to = "gemini"
        BY <4>2 DEF Reason
      <4>3. CASE to \in {"openai", "ollama"}
        BY <2>b, <3>3, <4>3 DEF Reason
      <4> QED
        BY <2>b, <4>1, <4>2, <4>3
    <3>6. told' # "none" /\ (to' # "gemini" => (told' = "tool" <=> ToolShown'))
      BY <2>1, <2>9, <3>1, <3>2, <3>5
    <3> QED
      BY <2>4, <2>5, <2>6, <2>7, <2>9, <3>6 DEF Accords
  <2> QED
    BY <2>1, <2>8, <2>9 DEF Noted
<1> QED
  BY <1>1, <1>2

LEMMA NextAccords == TypeOK /\ Unbroken /\ Accords /\ [Next]_vars => Accords'
<1>1. ASSUME TypeOK, Unbroken, Accords, NEW e \in ToSet(todo), Emit(e) PROVE Accords'
  BY <1>1, EmitAccords
<1>2. TypeOK /\ Accords /\ UNCHANGED vars => Accords'
  BY DEF vars, source, translator, output, Accords, Fits, HasTool, HasFinish, ToolShown
<1>3. TypeOK /\ Accords /\ SendError => Accords'
  BY DEF SendError, translator, Accords, Fits, HasTool, HasFinish, ToolShown
<1> QED
  BY <1>1, <1>2, <1>3, ReadLineAccords DEF Next

\* For answers of any length and every pair of formats: the client is told why the
\* answer ends if upstream has said so, and is told that there are tool calls
\* exactly if it was shown one.
THEOREM ReasonIsHonest == Spec => []ReasonHonest
<1>1. ASSUME TypeOK, Accords PROVE ReasonHonest
  <2>1. (\E item \in ToSet(shown) : item.kind = "tool") <=> ToolShown
    BY DEF ToSet, ToolShown
  <2>2. todo = <<>> => ~HasFinish(todo)
    BY ShortEvents DEF HasFinish
  <2>3. finishSent \in BOOLEAN
    BY <1>1 DEF TypeOK
  <2> QED
    BY <1>1, <2>1, <2>2, <2>3 DEF ReasonHonest, Accords
<1> DEFINE Inv == TypeOK /\ Unbroken /\ Accords
<1>2. Init => Inv
  BY InitUnbroken, InitAccords
<1>3. Inv /\ [Next]_vars => Inv'
  BY NextKeeps, NextAccords
<1>4. Inv => ReasonHonest
  BY <1>1
<1> HIDE DEF Inv
<1> QED
  BY <1>2, <1>3, <1>4, PTL DEF Spec
-----------------------------------------------------------------------------
(* The content                                                             *)

\* The number of the last item the client was sent.
Reached == Number(shown, Len(shown))

\* The event is the k-th item that was said.
Tells(e, k) == k \in DOMAIN said /\ said[k] = [kind |-> e.type, n |-> e.n]

\* Emitting the event takes the client from the k-th item to the m-th, or tells it
\* the k-th again.
Moves(e, k, m) ==
  IF e.type \in Content THEN m \in {k, k + 1} /\ Tells(e, m) ELSE m = k

\* The events take the client from the k-th item to the last.
Leads(events, k) ==
  \/ events = <<>> /\ k = Len(said)
  \/ Len(events) = 1 /\ Moves(events[1], k, Len(said))
  \/ Len(events) = 2 /\ \E m \in DOMAIN said \cup {0} :
       Moves(events[1], k, m) /\ Moves(events[2], m, Len(said))

\* Items differ from their predecessors, for they come with different lines; what
\* the parser holds back is the last item; the client has the first items, and
\* until a finish closes the buffer the events of the line are the others.  A
\* finish is the last event, and but for Vertex nothing is said after it.
Kept ==
  /\ \A i \in DOMAIN said :
       said[i].n <= lines /\ (i > 1 => said[i] # said[i - 1])
  /\ pending # 0 => up = "claude" /\ Tells(Event("thinking", pending), Len(said))
  /\ Retells(shown, said)
  /\ \A i \in DOMAIN todo : todo[i].type = "finish" => i = Len(todo)
  /\ ~buffered => Leads(todo, Reached)
  /\ up # "vertex" =>
       /\ buffered => Reached = Len(said)
       /\ finishSent \/ HasFinish(todo) => closed \/ src = "ended"

\* A sequence with one more item.
LEMMA OneMore ==
  ASSUME NEW items \in Seq(SaidItem), NEW x \in SaidItem
  PROVE  /\ items \o <<x>> \in Seq(SaidItem)
         /\ Len(items) \in Nat /\ DOMAIN items = 1..Len(items)
         /\ Len(items \o <<x>>) = Len(items) + 1
         /\ DOMAIN (items \o <<x>>) = 1..Len(items) + 1
         /\ \A i \in 1..Len(items) : (items \o <<x>>)[i] = items[i]
         /\ (items \o <<x>>)[Len(items) + 1] = x
<1> DEFINE one == <<x>>
           more == items \o one
           n == Len(items)
<1>1. one \in Seq(SaidItem) /\ Len(one) = 1 /\ one[1] = x
  OBVIOUS
<1>2. n \in Nat /\ DOMAIN items = 1..n
  OBVIOUS
<1> HIDE DEF one
<1>3. /\ more \in Seq(SaidItem) /\ Len(more) = n + Len(one)
      /\ \A i \in 1..n + Len(one) : more[i] = IF i <= n THEN items[i] ELSE one[i - n]
  BY <1>1, ConcatProperties
<1> HIDE DEF more, n
<1>4. /\ more \in Seq(SaidItem) /\ Len(more) = n + 1 /\ DOMAIN more = 1..n + 1
      /\ \A i \in 1..n : more[i] = items[i]
      /\ more[n + 1] = x
  BY <1>1, <1>2, <1>3
<1> QED
  BY <1>2, <1>4 DEF more, one, n

\* One more item has the number of the last, if it repeats it, or the next.
LEMMA NumberOfOneMore ==
  ASSUME NEW items \in Seq(SaidItem), NEW x \in SaidItem
  PROVE  LET n == Len(items)
             more == items \o <<x>>
         IN /\ \A i \in 1..n : Number(more, i) = Number(items, i)
            /\ Number(items, n) \in Nat /\ (n = 0 => Number(items, n) = 0)
            /\ Number(more, n + 1) = IF n > 0 /\ x = items[n] THEN Number(items, n)
                                     ELSE Number(items, n) + 1
<1> DEFINE n == Len(items)
           more == items \o <<x>>
           New(s, i) == {j \in 1..i : j = 1 \/ s[j] # s[j - 1]}
<1>1. /\ n \in Nat
      /\ \A i \in 1..n : more[i] = items[i]
      /\ more[n + 1] = x
  BY OneMore
<1> HIDE DEF n, more
<1>2. ASSUME NEW i \in 0..n PROVE New(more, i) = New(items, i)
  BY <1>1, <1>2
<1>3. IsFiniteSet(New(items, n))
  <2>1. IsFiniteSet(1..n)
    BY <1>1, FS_Interval
  <2>2. New(items, n) \in SUBSET (1..n)
    OBVIOUS
  <2> HIDE DEF New
  <2> QED
    BY <2>1, <2>2, FS_Subset
<1>4. n + 1 \notin New(items, n)
  BY <1>1
<1>5. New(more, n + 1) = IF n > 0 /\ x = items[n] THEN New(items, n)
                         ELSE New(items, n) \cup {n + 1}
  <2>1. n + 1 \in New(more, n + 1) <=> ~(n > 0 /\ x = items[n])
    BY <1>1
  <2>2. \A j \in 1..n : j \in New(more, n + 1) <=> j \in New(items, n)
    BY <1>1
  <2>3. /\ \A j \in New(more, n + 1) : j \in 1..n \/ j = n + 1
        /\ \A j \in New(items, n) : j \in 1..n
    BY <1>1
  <2> QED
    BY <2>1, <2>2, <2>3, <1>4
<1>6. /\ Cardinality(New(items, n)) \in Nat
      /\ Cardinality(New(items, n) \cup {n + 1}) = Cardinality(New(items, n)) + 1
  BY <1>3, <1>4, FS_CardinalityType, FS_AddElement
<1>7. n = 0 => New(items, n) = {}
  BY <1>1
<1>8. n = 0 => Cardinality(New(items, n)) = 0
  BY <1>7, FS_EmptySet
<1>n. \A s, i : Number(s, i) = Cardinality(New(s, i))
  BY DEF Number
<1> HIDE DEF New
<1>9. \A i \in 1..n : Number(more, i) = Number(items, i)
  BY <1>1, <1>2, <1>n
<1>10. Number(more, n + 1) = IF n > 0 /\ x = items[n] THEN Number(items, n)
                             ELSE Number(items, n) + 1
  BY <1>5, <1>6, <1>n
<1> QED
  BY <1>6, <1>8, <1>9, <1>10, <1>n DEF n, more

\* The client is told the last item again, or the next one.
LEMMA RetellsOneMore ==
  ASSUME NEW items \in Seq(SaidItem), NEW tale \in Seq(SaidItem), NEW x \in SaidItem,
         Retells(items, tale), NEW m \in DOMAIN tale, tale[m] = x,
         m \in {Number(items, Len(items)), Number(items, Len(items)) + 1},
         \A i \in DOMAIN tale : i > 1 => tale[i] # tale[i - 1]
  PROVE  /\ Retells(items \o <<x>>, tale)
         /\ Number(items \o <<x>>, Len(items \o <<x>>)) = m
<1> DEFINE n == Len(items)
           k == Number(items, n)
           more == items \o <<x>>
<1>1. /\ n \in Nat /\ DOMAIN items = 1..n /\ Len(more) = n + 1 /\ DOMAIN more = 1..n + 1
      /\ \A i \in 1..n : more[i] = items[i]
      /\ more[n + 1] = x
  BY OneMore
<1>2. /\ \A i \in 1..n : Number(more, i) = Number(items, i)
      /\ k \in Nat /\ (n = 0 => k = 0)
      /\ Number(more, n + 1) = IF n > 0 /\ x = items[n] THEN k ELSE k + 1
  BY NumberOfOneMore
<1>3. m \in {k, k + 1} /\ m >= 1
  <2>1. DOMAIN tale = 1..Len(tale) /\ Len(tale) \in Nat
    OBVIOUS
  <2> QED
    BY <2>1
<1>4. \A i \in 1..n : Number(items, i) \in DOMAIN tale /\ items[i] = tale[Number(items, i)]
  BY <1>1 DEF Retells
<1> HIDE DEF n, k, more
<1>5. Number(more, n + 1) = m
  <2>1. CASE n = 0
    BY <1>2, <1>3, <2>1
  <2>2. CASE n > 0
    <3>1. k \in DOMAIN tale /\ items[n] = tale[k]
      BY <1>1, <1>4, <2>2 DEF k
    <3>2. m = k + 1 => tale[m] # tale[k]
      <4>1. m = k + 1 => m - 1 = k
        BY <1>2
      <4>2. m = k + 1 => m > 1
        <5>1. DOMAIN tale = 1..Len(tale) /\ Len(tale) \in Nat
          OBVIOUS
        <5> QED
          BY <3>1, <5>1
      <4> QED
        BY <4>1, <4>2
    <3> QED
      BY <1>2, <1>3, <2>2, <3>1, <3>2
  <2> QED
    BY <1>1, <2>1, <2>2
<1>6. Retells(more, tale)
  <2>1. ASSUME NEW i \in 1..n + 1
        PROVE  Number(more, i) \in DOMAIN tale /\ more[i] = tale[Number(more, i)]
    <3>1. CASE i = n + 1
      BY <1>1, <1>5, <3>1
    <3>2. CASE i # n + 1
      <4>1. i \in 1..n
        BY <1>1, <3>2
      <4> QED
        BY <1>1, <1>2, <1>4, <4>1
    <3> QED
      BY <3>1, <3>2
  <2> QED
    BY <1>1, <2>1 DEF Retells
<1> QED
  BY <1>1, <1>5, <1>6 DEF more

\* What the client has stays true when more is said.
LEMMA RetellsLonger ==
  ASSUME NEW items \in Seq(SaidItem), NEW tale \in Seq(SaidItem), NEW x \in SaidItem,
         Retells(items, tale)
  PROVE  Retells(items, tale \o <<x>>)
<1>1. /\ Len(tale) \in Nat /\ DOMAIN tale = 1..Len(tale)
      /\ DOMAIN (tale \o <<x>>) = 1..Len(tale) + 1
      /\ \A i \in 1..Len(tale) : (tale \o <<x>>)[i] = tale[i]
  BY OneMore
<1> DEFINE longer == tale \o <<x>>
<1> HIDE DEF longer
<1>2. ASSUME NEW i \in DOMAIN items
      PROVE  Number(items, i) \in DOMAIN longer /\ items[i] = longer[Number(items, i)]
  <2>1. Number(items, i) \in DOMAIN tale /\ items[i] = tale[Number(items, i)]
    BY DEF Retells
  <2> QED
    BY <1>1, <2>1 DEF longer
<1> QED
  BY <1>2 DEF Retells, longer

\* What an emission makes of the event it takes: content is shown, unless the buffer
\* is closed, and nothing else is; a finish closes the buffer.
Shows(e) ==
  /\ shown' = IF ~buffered /\ e.type \in Content
              THEN shown \o <<[kind |-> e.type, n |-> e.n]>> ELSE shown
  /\ buffered' = (buffered \/ e.type = "finish")

LEMMA EmitShows ==
  ASSUME TypeOK, Unbroken, NEW e, Emit(e), ~FailOnError(e)
  PROVE  /\ Shows(e)
         /\ todo # <<>> /\ e = Head(todo) /\ todo' = Tail(todo)
         /\ UNCHANGED <<up, src, lines, closed, said, pending>>
<1>b. buffered = finishSent /\ buffered \in BOOLEAN
  BY DEF Unbroken, TypeOK
<1>n. ASSUME NEW type, Emitting(e, type)
      PROVE  /\ e.type = type
             /\ todo # <<>> /\ e = Head(todo) /\ todo' = Tail(todo)
             /\ UNCHANGED <<up, src, lines, closed, said, pending>>
  BY <1>n DEF Emitting, source
<1>e. shown \o <<>> = shown
  BY ShownAppended
\* The emissions that show nothing.
<1>k. ASSUME NEW type, Emitting(e, type), type \notin Content \cup {"finish"},
             shown' = shown, buffered' = buffered
      PROVE  Shows(e)
  BY <1>b, <1>k, <1>n DEF Shows, Content
<1>p. ASSUME NEW c, Put(c, <<>>) PROVE shown' = shown
  BY <1>e, <1>p DEF Put
<1>1. ASSUME NEW kind \in Content, NEW c, Emitting(e, kind),
             Put(c, <<[kind |-> kind, n |-> e.n]>>), buffered' = buffered
      PROVE  Shows(e)
  <2>1. e.type = kind /\ kind # "finish"
    BY <1>1, <1>n DEF Content
  <2>2. shown' = IF ~buffered THEN shown \o <<[kind |-> kind, n |-> e.n]>> ELSE shown
    BY <1>1, <1>b DEF Put
  <2> QED
    BY <1>1, <1>b, <2>1, <2>2 DEF Shows
<1>2. ASSUME NEW kind \in {"text", "thinking"}, EmitDelta(e, kind) PROVE Shows(e)
  <2>1. Emitting(e, kind) /\ buffered' = buffered /\ kind \in Content
    BY <1>2 DEF EmitDelta, Content
  <2>2. \E c : Put(c, <<[kind |-> kind, n |-> e.n]>>)
    <3>1. CASE to = "claude"
      BY <1>2, <3>1, Zenon DEF EmitDelta
    <3>2. CASE to # "claude"
      BY <1>2, <3>2, Zenon DEF EmitDelta
    <3> QED
      BY <3>1, <3>2
  <2> QED
    BY <1>1, <2>1, <2>2
<1>3. ASSUME EmitTool(e) PROVE Shows(e)
  <2>1. Emitting(e, "tool") /\ buffered' = buffered /\ "tool" \in Content
    BY <1>3 DEF EmitTool, Content
  <2>2. \E c : Put(c, <<[kind |-> "tool", n |-> e.n]>>)
    <3>1. CASE to = "claude"
      BY <1>3, <3>1, Zenon DEF EmitTool
    <3>2. CASE to # "claude"
      BY <1>3, <3>2, Zenon DEF EmitTool
    <3> QED
      BY <3>1, <3>2
  <2> QED
    BY <1>1, <2>1, <2>2
<1>4. ASSUME EmitSignature(e) PROVE Shows(e)
  <2>1. Emitting(e, "signature") /\ (\E c : Put(c, <<>>)) /\ buffered' = buffered
    BY <1>4 DEF EmitSignature
  <2>2. "signature" \notin Content \cup {"finish"}
    BY DEF Content
  <2> QED
    BY <1>k, <1>p, <2>1, <2>2
<1>5. ASSUME EmitArgs(e) PROVE Shows(e)
  <2>1. Emitting(e, "args") /\ buffered' = buffered
    BY <1>5 DEF EmitArgs
  <2>2. shown' = shown
    <3>1. CASE to = "claude"
      BY <1>5, <3>1 DEF EmitArgs
    <3>2. CASE to # "claude"
      BY <1>5, <1>p, <3>2 DEF EmitArgs
    <3> QED
      BY <3>1, <3>2
  <2>3. "args" \notin Content \cup {"finish"}
    BY DEF Content
  <2> QED
    BY <1>k, <2>1, <2>2, <2>3
<1>9. ASSUME NEW type \in {"redacted", "summary"}, EmitEmpty(e, type) PROVE Shows(e)
  <2>1. Emitting(e, type) /\ buffered' = buffered
    BY <1>9 DEF EmitEmpty
  <2>2. shown' = shown
    <3>1. CASE to = "claude"
      BY <1>9, <3>1 DEF EmitEmpty
    <3>2. CASE to # "claude"
      BY <1>9, <1>p, <3>2 DEF EmitEmpty
    <3> QED
      BY <3>1, <3>2
  <2>3. type \notin Content \cup {"finish"}
    BY DEF Content
  <2> QED
    BY <1>k, <2>1, <2>2, <2>3
<1>6. ASSUME EmitFinish(e) PROVE Shows(e)
  <2>1. Emitting(e, "finish") /\ buffered' = TRUE
    BY <1>6 DEF EmitFinish
  <2>2. \E c : Put(c, <<>>)
    <3>1. CASE to = "claude"
      BY <1>6, <3>1, Zenon DEF EmitFinish
    <3>2. CASE to # "claude"
      BY <1>6, <3>2, Zenon DEF EmitFinish
    <3> QED
      BY <3>1, <3>2
  <2>3. e.type = "finish" /\ "finish" \notin Content
    BY <1>n, <2>1 DEF Content
  <2>4. shown' = shown
    BY <1>p, <2>2
  <2> QED
    BY <2>1, <2>3, <2>4 DEF Shows
<1>7. ASSUME SkipFinish(e) PROVE Shows(e)
  <2>1. Emitting(e, "finish") /\ finishSent /\ buffered' = buffered /\ shown' = shown
    BY <1>7 DEF SkipFinish, output
  <2>2. e.type = "finish" /\ "finish" \notin Content
    BY <1>n, <2>1 DEF Content
  <2> QED
    BY <1>b, <2>1, <2>2 DEF Shows
<1>8. ASSUME EmitError(e) PROVE Shows(e)
  <2>1. Emitting(e, "error") /\ buffered' = buffered /\ shown' = shown
    BY <1>8 DEF EmitError, output
  <2>2. "error" \notin Content \cup {"finish"}
    BY DEF Content
  <2> QED
    BY <1>k, <2>1, <2>2
<1>10. Shows(e)
  BY <1>2, <1>3, <1>4, <1>5, <1>6, <1>7, <1>8, <1>9, Zenon DEF Emit
<1>11. \E type : Emitting(e, type)
  BY Zenon DEF Emit, EmitDelta, EmitSignature, EmitTool, EmitArgs, EmitEmpty, EmitFinish,
               SkipFinish, EmitError
<1> QED
  BY <1>n, <1>10, <1>11

\* The emission of an event that moves the client moves it there.
LEMMA MoveKeeps ==
  ASSUME TypeOK, Kept, NEW e, e.n \in Nat, ~buffered, Shows(e), said' = said,
         NEW m, Moves(e, Reached, m)
  PROVE  Retells(shown, said)' /\ Reached' = m
<1>t. shown \in Seq(SaidItem) /\ said \in Seq(SaidItem) /\ Retells(shown, said)
  BY DEF TypeOK, SaidItem, Kept
<1>1. CASE e.type \notin Content
  <2>1. shown' = shown /\ m = Reached
    BY <1>1 DEF Shows, Moves
  <2> QED
    BY <1>t, <2>1 DEF Retells, Reached, Number
<1>2. CASE e.type \in Content
  <2> DEFINE x == [kind |-> e.type, n |-> e.n]
  <2>1. shown' = shown \o <<x>> /\ x \in SaidItem
    BY <1>2 DEF Shows, SaidItem
  <2>2. m \in {Reached, Reached + 1} /\ m \in DOMAIN said /\ said[m] = x
    BY <1>2 DEF Moves, Tells
  <2> HIDE DEF x
  <2>3. \A i \in DOMAIN said : i > 1 => said[i] # said[i - 1]
    BY DEF Kept
  <2>4. /\ Retells(shown \o <<x>>, said)
        /\ Number(shown \o <<x>>, Len(shown \o <<x>>)) = m
    BY <1>t, <2>1, <2>2, <2>3, RetellsOneMore DEF Reached
  <2>5. Retells(shown', said')
    BY <2>1, <2>4
  <2>6. Number(shown', Len(shown')) = m
    BY <2>1, <2>4
  <2> QED
    BY <2>5, <2>6 DEF Reached, Retells, Number
<1> QED
  BY <1>1, <1>2

LEMMA EmitKept ==
  ASSUME TypeOK, Unbroken, Accords, Kept, NEW e, Emit(e) PROVE Kept'
<1>t. /\ todo \in Seq(LineEvent) /\ shown \in Seq(SaidItem) /\ said \in Seq(SaidItem)
      /\ buffered = finishSent /\ buffered \in BOOLEAN /\ finishSent' = buffered'
  BY EmitKeeps DEF TypeOK, LineEvent, SaidItem, Unbroken
<1>1. CASE FailOnError(e)
  <2>1. /\ todo # <<>> /\ e = Head(todo) /\ e.type = "error" /\ to # "claude"
        /\ todo' = DoneEvents /\ src' = "ended" /\ pending' = 0
        /\ UNCHANGED <<up, lines, closed, said, buffered, finishSent, shown>>
    BY <1>1 DEF FailOnError, translator, output
  <2>2. Len(todo) = 1 /\ todo[1] = e /\ up = "claude"
    <3>1. 1 \in DOMAIN todo /\ todo[1] = e
      BY <1>t, <2>1, HeadTailProperties
    <3> QED
      BY <2>1, <3>1 DEF Accords, Fits
  <2>3. ~buffered => Reached = Len(said)
    BY <1>t, <2>1, <2>2 DEF Kept, Leads, Moves, Content
  <2>4. DoneEvents = Pending
    BY <2>2, PendingTyped, ConcatEmptySeq DEF DoneEvents
  <2>5. /\ ~buffered => Leads(Pending, Reached)
        /\ \A i \in DOMAIN Pending : Pending[i].type = "thinking" /\ i = Len(Pending)
    <3>1. CASE pending = 0
      BY <2>3, <3>1, ShortEvents DEF Pending, Leads
    <3>2. CASE pending # 0
      <4> DEFINE ev == Event("thinking", pending)
      <4>1. Pending = <<ev>> /\ ev.type = "thinking" /\ Tells(ev, Len(said))
        BY <3>2, EventFields DEF Pending, Kept
      <4> HIDE DEF ev
      <4>2. Moves(ev, Len(said), Len(said))
        BY <4>1 DEF Moves
      <4> QED
        BY <2>3, <4>1, <4>2, ShortEvents DEF Leads
    <3> QED
      BY <3>1, <3>2
  <2>6. /\ \A i \in DOMAIN todo' : todo'[i].type = "finish" => i = Len(todo')
        /\ ~HasFinish(todo')
    BY <2>1, <2>4, <2>5 DEF HasFinish
  <2>7. ~buffered' => Leads(todo, Reached)'
    BY <2>1, <2>4, <2>5 DEF Leads, Moves, Tells, Reached
  <2>8. Retells(shown, said)' /\ Reached' = Reached
    BY <2>1 DEF Kept, Retells, Reached
  <2> QED
    BY <2>1, <2>6, <2>7, <2>8 DEF Kept
<1>2. CASE ~FailOnError(e)
  <2>1. /\ Shows(e)
        /\ todo # <<>> /\ e = Head(todo) /\ todo' = Tail(todo)
        /\ UNCHANGED <<up, src, lines, closed, said, pending>>
    BY <1>2, EmitShows
  <2> DEFINE n == Len(todo)
  <2>2. /\ n \in Nat /\ n >= 1 /\ DOMAIN todo = 1..n /\ todo[1] = e /\ e \in LineEvent
        /\ Len(todo') = n - 1 /\ DOMAIN todo' = 1..n - 1
        /\ \A i \in 1..n - 1 : todo'[i] = todo[i + 1]
        /\ n = 1 => todo' = <<>>
    BY <1>t, <2>1, HeadTailProperties
  <2>3. e.n \in Nat
    BY <2>2 DEF LineEvent
  <2>4. \A i \in DOMAIN todo' : todo'[i].type = "finish" => i = Len(todo')
    <3>1. \A i \in DOMAIN todo : todo[i].type = "finish" => i = n
      BY DEF Kept
    <3> HIDE DEF n
    <3> SUFFICES ASSUME NEW i \in 1..n - 1, todo'[i].type = "finish" PROVE i = n - 1
      BY <2>2
    <3>2. i + 1 \in 1..n /\ todo[i + 1] = todo'[i]
      BY <2>2
    <3>3. i + 1 = n
      BY <2>2, <3>1, <3>2
    <3> QED
      BY <2>2, <3>3
  <2>5. /\ HasFinish(todo)' => HasFinish(todo)
        /\ e.type = "finish" => HasFinish(todo) /\ n = 1
    <3>1. \A i \in DOMAIN todo : todo[i].type = "finish" => i = n
      BY DEF Kept
    <3> HIDE DEF n
    <3>2. ASSUME NEW i \in 1..n - 1 PROVE i + 1 \in 1..n /\ todo[i + 1] = todo'[i]
      BY <2>2
    <3>3. 1 \in 1..n
      BY <2>2
    <3> QED
      BY <2>2, <3>1, <3>2, <3>3 DEF HasFinish
  <2>6. finishSent' \/ HasFinish(todo)' => finishSent \/ HasFinish(todo)
    BY <1>t, <2>1, <2>5 DEF Shows
  <2>7. CASE buffered
    <3>1. shown' = shown /\ buffered'
      BY <2>1, <2>7 DEF Shows
    <3>2. Retells(shown, said)' /\ Reached' = Reached
      BY <2>1, <3>1 DEF Kept, Retells, Reached
    <3>3. buffered' = buffered
      BY <1>t, <2>1, <2>7 DEF Shows
    <3> QED
      BY <2>1, <2>4, <2>6, <2>7, <3>2, <3>3 DEF Kept, Tells
  <2>8. CASE ~buffered
    <3>1. PICK m : Moves(e, Reached, m) /\ Leads(todo', m)
      <4>0. Leads(todo, Reached)
        BY <2>8 DEF Kept
      <4>1. CASE n = 1
        BY <2>1, <2>2, <4>0, <4>1 DEF Leads
      <4>2. CASE n = 2
        <5>1. PICK m \in DOMAIN said \cup {0} :
                Moves(todo[1], Reached, m) /\ Moves(todo[2], m, Len(said))
          BY <2>1, <4>0, <4>2 DEF Leads
        <5>2. Len(todo') = 1 /\ todo'[1] = todo[2]
          BY <2>2, <4>2
        <5> QED
          BY <2>2, <5>1, <5>2 DEF Leads
      <4> QED
        BY <2>1, <4>0, <4>1, <4>2 DEF Leads
    <3>2. Retells(shown, said)' /\ Reached' = m
      BY <2>1, <2>3, <2>8, <3>1, MoveKeeps
    <3>3. Leads(todo, Reached)'
      BY <2>1, <3>1, <3>2 DEF Leads, Moves, Tells
    <3>4. buffered' => Reached' = Len(said)'
      <4> SUFFICES ASSUME buffered' PROVE m = Len(said)
        BY <2>1, <3>2
      <4>1. e.type = "finish"
        BY <2>1, <2>8 DEF Shows
      <4>2. todo' = <<>>
        BY <2>2, <2>5, <4>1
      <4> QED
        BY <3>1, <4>2, ShortEvents DEF Leads
    <3> QED
      BY <2>1, <2>4, <2>6, <3>2, <3>3, <3>4 DEF Kept, Tells
  <2> QED
    BY <1>t, <2>7, <2>8
<1> QED
  BY <1>1, <1>2

\* Events that say nothing new leave the client where it is.
LEMMA StandStill ==
  ASSUME TypeOK, NEW a, NEW b, Moves(a, Len(said), Len(said)), Moves(b, Len(said), Len(said))
  PROVE  /\ Leads(<<>>, Len(said)) /\ Leads(<<a>>, Len(said)) /\ Leads(<<a, b>>, Len(said))
<1>1. Len(said) \in DOMAIN said \cup {0}
  BY DEF TypeOK
<1> QED
  BY <1>1, ShortEvents DEF Leads

\* The thinking that the parser holds back is the last item, or there is none.
LEMMA PendingTells ==
  ASSUME TypeOK, Kept
  PROVE  \/ pending = 0 /\ Pending = <<>>
         \/ /\ pending # 0 /\ up = "claude"
            /\ Pending = <<Event("thinking", pending)>>
            /\ Event("thinking", pending) \in LineEvent
            /\ Event("thinking", pending).type = "thinking"
            /\ Moves(Event("thinking", pending), Len(said), Len(said))
<1>1. CASE pending = 0
  BY <1>1 DEF Pending
<1>2. CASE pending # 0
  <2> DEFINE ev == Event("thinking", pending)
  <2>1. /\ up = "claude" /\ Pending = <<ev>> /\ Tells(ev, Len(said))
    BY <1>2 DEF Kept, Pending
  <2>2. ev \in LineEvent /\ ev.type = "thinking"
    <3>1. "thinking" \in Types /\ pending \in Nat
      BY DEF Types, Content, TypeOK
    <3> QED
      BY <3>1, EventTyped, EventFields
  <2> HIDE DEF ev
  <2>3. Moves(ev, Len(said), Len(said))
    BY <2>1 DEF Moves
  <2> QED
    BY <1>2, <2>1, <2>2, <2>3 DEF ev
<1> QED
  BY <1>1, <1>2

\* Each item has a line's number, and no item is the one before.
LEMMA SaidNumbered ==
  ASSUME TypeOK, Kept
  PROVE  /\ said \in Seq(SaidItem) /\ Len(said) \in Nat /\ DOMAIN said = 1..Len(said)
         /\ lines \in Nat
         /\ \A i \in 1..Len(said) :
              /\ said[i].n \in Nat /\ said[i].n <= lines
              /\ i > 1 => said[i] # said[i - 1]
<1>1. said \in Seq(SaidItem) /\ lines \in Nat
  BY DEF TypeOK, SaidItem
<1>2. Len(said) \in Nat /\ DOMAIN said = 1..Len(said)
      /\ \A i \in 1..Len(said) : said[i] \in SaidItem
  BY <1>1
<1>3. \A i \in DOMAIN said : said[i].n <= lines /\ (i > 1 => said[i] # said[i - 1])
  BY DEF Kept
<1>4. \A i \in 1..Len(said) : said[i].n \in Nat
  BY <1>2 DEF SaidItem
<1> QED
  BY <1>1, <1>2, <1>3, <1>4

\* A line that says nothing, or the end.
LEMMA NothingSaid ==
  ASSUME TypeOK, Unbroken, Kept, NEW events, Translate(events), todo = <<>>,
         UNCHANGED <<up, said>>, lines' \in {lines, lines + 1}, pending' \in {0, pending},
         ~buffered => Leads(events, Len(said)),
         \A i \in DOMAIN events : events[i].type = "finish" => i = Len(events),
         up # "vertex" /\ HasFinish(events) => closed' \/ src' = "ended",
         closed \/ src = "ended" => closed' \/ src' = "ended"
  PROVE  Kept'
<1>1. /\ todo' = events
      /\ UNCHANGED <<finishSent, buffered, shown>>
  BY DEF Translate
<1>2. ~buffered => Reached = Len(said)
  BY ShortEvents DEF Kept, Leads
<1>3. /\ Retells(shown, said)' /\ Reached' = Reached
      /\ HasFinish(todo)' <=> HasFinish(events)
  BY <1>1 DEF Kept, Retells, Reached, HasFinish
<1>4. \A i \in DOMAIN said : said[i].n <= lines' /\ (i > 1 => said[i] # said[i - 1])
  <2>1. ASSUME NEW i \in 1..Len(said) PROVE said[i].n <= lines' /\ (i > 1 => said[i] # said[i - 1])
    <3>1. said[i].n \in Nat /\ said[i].n <= lines /\ lines \in Nat
          /\ (i > 1 => said[i] # said[i - 1])
      BY SaidNumbered
    <3> QED
      BY <3>1
  <2> QED
    BY <2>1, SaidNumbered
<1>5. pending' # 0 => up = "claude" /\ Tells(Event("thinking", pending), Len(said)) /\ pending' = pending
  BY DEF Kept
<1>6. pending' # 0 => (up = "claude" /\ Tells(Event("thinking", pending), Len(said)))'
  BY <1>5 DEF Tells, Event
<1>7. (~buffered => Leads(todo, Reached))'
  BY <1>1, <1>2, <1>3 DEF Leads, Moves, Tells
<1>8. /\ \A i \in DOMAIN todo' : todo'[i].type = "finish" => i = Len(todo')
      /\ up' # "vertex" =>
           /\ buffered' => Reached' = Len(said')
           /\ finishSent' \/ HasFinish(todo)' => closed' \/ src' = "ended"
  BY <1>1, <1>3 DEF Kept
<1> QED
  BY <1>3, <1>4, <1>6, <1>7, <1>8 DEF Kept

\* A line that says an item hands on the event that tells it, after the thinking that
\* the parser has held back or before a finish, if at all.
LEMMA ItemSaid ==
  ASSUME TypeOK, Unbroken, Kept, NEW events, Translate(events), todo = <<>>,
         NEW kind \in Content, said' = said \o <<Item(kind)>>, up' = up,
         lines' = lines + 1, ~closed, src = "open",
         \/ pending' = 0
         \/ pending' = Here /\ kind = "thinking" /\ up = "claude",
         \/ Len(events) = 1 /\ events[1] = Event(kind, Here)
         \/ Len(events) = 2 /\ events[1] = Event(kind, Here) /\ events[2].type \notin Content
         \/ Len(events) = 2 /\ events[2] = Event(kind, Here)
            /\ Moves(events[1], Len(said), Len(said)),
         \A i \in DOMAIN events : events[i].type = "finish" => i = Len(events),
         up # "vertex" /\ HasFinish(events) => closed'
  PROVE  Kept'
<1> DEFINE x == Item(kind)
<1>l. PICK l : l = Len(said)
  OBVIOUS
<1>1. /\ todo' = events
      /\ UNCHANGED <<finishSent, buffered, shown>>
  BY DEF Translate
<1>e. PICK ev : ev = Event(kind, Here)
  OBVIOUS
<1>t. /\ said \in Seq(SaidItem) /\ shown \in Seq(SaidItem) /\ lines \in Nat
      /\ buffered = finishSent /\ buffered \in BOOLEAN
      /\ x \in SaidItem /\ x.n = lines + 1 /\ x.kind = kind
      /\ x = [kind |-> ev.type, n |-> ev.n] /\ ev.type = kind
  BY <1>e DEF TypeOK, SaidItem, Unbroken, Item, Here, Event
<1>2. /\ l \in Nat /\ DOMAIN said = 1..l
      /\ Len(said') = l + 1 /\ DOMAIN said' = 1..l + 1
      /\ \A i \in 1..l : said'[i] = said[i]
      /\ said'[l + 1] = x
  BY <1>t, <1>l, OneMore
<1>r. ~buffered => Reached = l
  BY <1>l, ShortEvents DEF Kept, Leads
<1>v. up # "vertex" => ~finishSent /\ ~buffered
  BY <1>t DEF Kept
<1> HIDE DEF x
<1>3. Retells(shown, said)' /\ Reached' = Reached
  <2>1. Retells(shown, said \o <<x>>)
    BY <1>t, RetellsLonger DEF Kept
  <2>2. Retells(shown', said')
    BY <1>1, <2>1 DEF x
  <2> QED
    BY <1>1, <2>2 DEF Retells, Reached
<1>4. \A i \in DOMAIN said' : said'[i].n <= lines' /\ (i > 1 => said'[i] # said'[i - 1])
  <2>0. \A i \in 1..l : /\ said[i].n \in Nat /\ said[i].n <= lines
                        /\ i > 1 => said[i] # said[i - 1]
    BY <1>l, SaidNumbered
  <2>1. ASSUME NEW i \in 1..l PROVE said'[i].n <= lines' /\ (i > 1 => said'[i] # said'[i - 1])
    <3>1. said[i].n <= lines'
      BY <1>t, <2>0
    <3>2. i > 1 => said[i] # said[i - 1] /\ i - 1 \in 1..l
      BY <1>2, <2>0
    <3> QED
      BY <1>2, <3>1, <3>2
  <2>2. said'[l + 1].n <= lines' /\ (l + 1 > 1 => said'[l + 1] # said'[(l + 1) - 1])
    <3>1. x.n <= lines'
      BY <1>t
    <3>2. l >= 1 => said[l].n # x.n
      <4>1. l >= 1 => l \in 1..l
        BY <1>2
      <4> QED
        BY <1>t, <2>0, <4>1
    <3>3. l >= 1 => said'[l] = said[l] /\ (l + 1) - 1 = l
      BY <1>2
    <3> QED
      BY <1>2, <3>1, <3>2, <3>3
  <2>3. \A i \in 1..l + 1 : i \in 1..l \/ i = l + 1
    BY <1>2
  <2> QED
    BY <1>2, <2>1, <2>2, <2>3
<1>5. pending' # 0 => (up = "claude" /\ Tells(Event("thinking", pending), Len(said)))'
  <2> SUFFICES ASSUME pending' # 0
               PROVE  (up = "claude" /\ Tells(Event("thinking", pending), Len(said)))'
    OBVIOUS
  <2>1. pending' = Here /\ kind = "thinking" /\ up' = "claude"
    OBVIOUS
  <2>2. l + 1 \in DOMAIN said' /\ said'[l + 1] = [kind |-> "thinking", n |-> Here]
    BY <1>2, <2>1 DEF x, Item
  <2> QED
    BY <1>2, <2>1, <2>2 DEF Tells, Event
<1>6. (~buffered => Leads(todo, Reached))'
  <2> SUFFICES ASSUME ~buffered PROVE Leads(todo, Reached)'
    BY <1>1
  <2>1. Moves(ev, l, l + 1)'
    <3>1. Tells(ev, l + 1)'
      BY <1>t, <1>2 DEF Tells
    <3> QED
      BY <1>t, <3>1 DEF Moves
  <2>2. CASE Len(events) = 1 /\ events[1] = ev
    BY <1>1, <1>2, <1>3, <1>r, <2>1, <2>2 DEF Leads
  <2>3. CASE Len(events) = 2 /\ events[1] = ev /\ events[2].type \notin Content
    <3>1. Moves(events[2], l + 1, l + 1)'
      BY <2>3 DEF Moves
    <3>2. l + 1 \in DOMAIN said'
      BY <1>2
    <3> QED
      BY <1>1, <1>2, <1>3, <1>r, <2>1, <2>3, <3>1, <3>2 DEF Leads
  <2>4. CASE Len(events) = 2 /\ events[2] = ev /\ Moves(events[1], l, l)
    <3>1. Moves(events[1], l, l)'
      BY <1>2, <2>4 DEF Moves, Tells
    <3>2. l \in DOMAIN said' \cup {0}
      BY <1>2
    <3> QED
      BY <1>1, <1>2, <1>3, <1>r, <2>1, <2>4, <3>1, <3>2 DEF Leads
  <2> QED
    BY <1>e, <1>l, <2>2, <2>3, <2>4
<1>7. /\ \A i \in DOMAIN todo' : todo'[i].type = "finish" => i = Len(todo')
      /\ HasFinish(todo)' <=> HasFinish(events)
  BY <1>1 DEF HasFinish
<1>8. up' # "vertex" =>
        /\ buffered' => Reached' = Len(said')
        /\ finishSent' \/ HasFinish(todo)' => closed' \/ src' = "ended"
  BY <1>1, <1>v, <1>7
<1> QED
  BY <1>3, <1>4, <1>5, <1>6, <1>7, <1>8 DEF Kept

\* The lists of events of a line.
LEMMA ShortFinish ==
  ASSUME NEW a, NEW b
  PROVE  /\ ~HasFinish(<<>>)
         /\ a.type # "finish" => ~HasFinish(<<a>>)
         /\ a.type # "finish" /\ b.type # "finish" => ~HasFinish(<<a, b>>)
         /\ \A i \in DOMAIN <<>> : <<>>[i].type = "finish" => i = Len(<<>>)
         /\ \A i \in DOMAIN <<a>> : <<a>>[i].type = "finish" => i = Len(<<a>>)
         /\ a.type # "finish" =>
              \A i \in DOMAIN <<a, b>> : <<a, b>>[i].type = "finish" => i = Len(<<a, b>>)
BY ShortEvents DEF HasFinish

LEMMA ReadLineKept ==
  ASSUME TypeOK, Unbroken, Kept, ReadLine PROVE Kept'
<1>h. Here \in Nat /\ Here = lines + 1 /\ lines \in Nat
  BY DEF Here, TypeOK
<1>n. \A type \in Types : Event(type, Here) \in LineEvent /\ Event(type, Here).type = type
  BY <1>h, EventTyped, EventFields
<1>f. \A reason \in EndReasons :
        Finish(reason) \in LineEvent /\ Finish(reason).type = "finish"
  BY EventTyped, EventFields
<1>k. Types = {"text", "thinking", "tool", "summary", "args", "signature", "redacted",
               "finish", "error"}
      /\ Content = {"text", "thinking", "tool"}
      /\ EndReasons = {"none", "stop", "length", "tool"}
  BY DEF Types, Content, EndReasons
<1>s. \A e : e.type \notin Content => Moves(e, Len(said), Len(said))
  BY DEF Moves
<1>q. said \o <<>> = said
  BY ConcatEmptySeq DEF TypeOK
<1>u. pending # 0 => up = "claude"
  BY DEF Kept
<1>l. ASSUME NEW events, NEW items, Line(events, items)
      PROVE  /\ Translate(events) /\ todo = <<>> /\ UNCHANGED <<up, to, src>>
             /\ src = "open" /\ lines' = lines + 1 /\ said' = said \o items
  BY <1>l DEF Line
\* A line of one event that says nothing.
<1>0. ASSUME NEW e, Line(<<e>>, <<>>), e.type \notin Content, pending' = pending,
             closed => closed', up # "vertex" /\ e.type = "finish" => closed'
      PROVE  Kept'
  <2>1. Translate(<<e>>) /\ todo = <<>> /\ UNCHANGED <<up, src, said>> /\ lines' = lines + 1
    BY <1>0, <1>l, <1>q
  <2>2. Leads(<<e>>, Len(said))
    BY <1>0, <1>s, StandStill
  <2>3. HasFinish(<<e>>) => e.type = "finish"
    BY ShortFinish
  <2>4. \A i \in DOMAIN <<e>> : <<e>>[i].type = "finish" => i = Len(<<e>>)
    BY ShortFinish
  <2> QED
    BY <1>0, <2>1, <2>2, <2>3, <2>4, NothingSaid
\* A line without events.
<1>1. ASSUME Line(<<>>, <<>>), pending' \in {0, pending}, closed => closed' PROVE Kept'
  <2>1. Translate(<<>>) /\ todo = <<>> /\ UNCHANGED <<up, src, said>> /\ lines' = lines + 1
    BY <1>1, <1>l, <1>q
  <2>2. Leads(<<>>, Len(said))
    BY <1>s, StandStill, EventFields, <1>k
  <2>3. ~HasFinish(<<>>) /\ \A i \in DOMAIN <<>> : <<>>[i].type = "finish" => i = Len(<<>>)
    BY ShortFinish
  <2> QED
    BY <1>1, <2>1, <2>2, <2>3, NothingSaid
\* A line of one event that tells an item.
<1>2. ASSUME NEW kind \in Content, Line(<<Event(kind, Here)>>, <<Item(kind)>>), ~closed,
             pending' = 0
      PROVE  Kept'
  <2> DEFINE e == Event(kind, Here)
  <2>1. /\ Translate(<<e>>) /\ todo = <<>> /\ UNCHANGED <<up, src>>
        /\ src = "open" /\ lines' = lines + 1 /\ said' = said \o <<Item(kind)>>
    BY <1>2, <1>l
  <2>2. e.type = kind /\ kind # "finish"
    BY <1>k, <1>n
  <2>3. Len(<<e>>) = 1 /\ <<e>>[1] = e
    OBVIOUS
  <2> HIDE DEF e
  <2>4. ~HasFinish(<<e>>) /\ \A i \in DOMAIN <<e>> : <<e>>[i].type = "finish" => i = Len(<<e>>)
    BY <2>2, ShortFinish
  <2> DEFINE events == <<e>>
  <2> HIDE DEF events
  <2>5. /\ Translate(events) /\ Len(events) = 1 /\ events[1] = Event(kind, Here)
        /\ ~HasFinish(events) /\ \A i \in DOMAIN events : events[i].type = "finish" => i = Len(events)
    BY <2>1, <2>3, <2>4 DEF events, e
  <2> QED
    BY <1>2, <2>1, <2>5, ItemSaid
<1>3. ASSUME NEW part \in {"none", "text", "thinking", "signature", "tool"},
             NEW usage \in BOOLEAN, NEW fin \in {"none", "stop", "length"},
             GeminiChunk(part, usage, fin)
      PROVE  Kept'
  <2> DEFINE fs == GeminiFinish(part, usage, fin)
             e == Event(part, Here)
             items == IF part \in {"none", "signature"} THEN <<>> ELSE <<Item(part)>>
  <2>1. /\ up \in {"gemini", "vertex"} /\ ~closed
        /\ Line(GeminiEvents(part) \o fs, items)
        /\ closed' = (fin # "none") /\ pending' = pending
    BY <1>3 DEF GeminiChunk
  <2>2. \/ fs = <<>>
        \/ \E reason \in {"length", "tool", "stop"} :
             fs = <<Finish(reason)>> /\ (up # "vertex" => fin # "none")
    BY DEF GeminiFinish, UsageSeen
  <2>3. \/ GeminiEvents(part) = <<>> /\ part = "none"
        \/ GeminiEvents(part) = <<e>> /\ e \in LineEvent /\ e.type = part /\ part # "none"
    BY <1>n, <1>k DEF GeminiEvents
  <2>4. pending = 0
    BY <1>u, <2>1
  <2> HIDE DEF fs, e, items
  <2>5. CASE GeminiEvents(part) = <<>> /\ part = "none"
    <3>1. items = <<>>
      BY <2>5 DEF items
    <3>2. CASE fs = <<>>
      <4>1. GeminiEvents(part) \o fs = <<>>
        BY <2>5, <3>2
      <4> QED
        BY <1>1, <2>1, <3>1, <4>1
    <3>3. ASSUME NEW reason \in {"length", "tool", "stop"},
                 fs = <<Finish(reason)>>, up # "vertex" => fin # "none"
          PROVE  Kept'
      <4>1. Finish(reason) \in LineEvent /\ Finish(reason).type = "finish"
        BY <1>f, <1>k
      <4>2. GeminiEvents(part) \o fs = <<Finish(reason)>>
        BY <2>5, <3>3, <4>1, ShortConcat
      <4> QED
        BY <1>0, <1>k, <2>1, <3>1, <3>3, <4>1, <4>2
    <3> QED
      BY <2>2, <3>2, <3>3
  <2>6. CASE GeminiEvents(part) = <<e>> /\ e \in LineEvent /\ e.type = part /\ part # "none"
    <3>1. CASE fs = <<>>
      <4>1. GeminiEvents(part) \o fs = <<e>>
        BY <2>6, <3>1, ShortConcat
      <4>2. CASE part = "signature"
        BY <1>0, <1>k, <2>1, <2>6, <4>1, <4>2 DEF items
      <4>3. CASE part # "signature"
        <5>1. part \in Content /\ Line(<<Event(part, Here)>>, <<Item(part)>>)
          BY <1>k, <2>1, <2>6, <4>1, <4>3 DEF items, e
        <5> QED
          BY <1>2, <2>1, <2>4, <5>1
      <4> QED
        BY <4>2, <4>3
    <3>2. ASSUME NEW reason \in {"length", "tool", "stop"},
                 fs = <<Finish(reason)>>, up # "vertex" => fin # "none"
          PROVE  Kept'
      <4> DEFINE b == Finish(reason)
                 events == <<e, b>>
      <4>1. b \in LineEvent /\ b.type = "finish"
        BY <1>f, <1>k
      <4>2. GeminiEvents(part) \o fs = events
        BY <2>6, <3>2, <4>1, ShortConcat
      <4> HIDE DEF b
      <4>3. /\ Translate(events) /\ todo = <<>> /\ UNCHANGED <<up, src>>
            /\ src = "open" /\ lines' = lines + 1 /\ said' = said \o items
        BY <1>l, <2>1, <4>2
      <4>4. \A i \in DOMAIN events : events[i].type = "finish" => i = Len(events)
        BY <2>6, ShortFinish
      <4>5. Len(events) = 2 /\ events[1] = e /\ events[2] = b
        OBVIOUS
      <4>6. part = "signature" => Leads(events, Len(said))
        BY <1>k, <1>s, <2>6, <4>1, StandStill
      <4>7. up # "vertex" => closed'
        BY <2>1, <3>2
      <4> HIDE DEF events
      <4>8. CASE part = "signature"
        <5>1. UNCHANGED <<up, said>>
          BY <1>q, <4>3, <4>8 DEF items
        <5> QED
          BY <2>1, <2>4, <4>3, <4>4, <4>6, <4>7, <4>8, <5>1, NothingSaid
      <4>9. CASE part # "signature"
        <5>1. part \in Content /\ said' = said \o <<Item(part)>>
          BY <1>k, <2>6, <4>3, <4>9 DEF items
        <5>2. events[1] = Event(part, Here) /\ events[2].type \notin Content
          BY <1>k, <4>1, <4>5 DEF e
        <5> QED
          BY <2>1, <2>4, <4>3, <4>4, <4>5, <4>7, <5>1, <5>2, ItemSaid
      <4> QED
        BY <4>8, <4>9
    <3> QED
      BY <2>2, <3>1, <3>2
  <2> QED
    BY <2>3, <2>5, <2>6
<1>4. ASSUME NEW part \in {"text", "thinking", "signature", "redacted", "tool"},
             ClaudeChunk(part)
      PROVE  Kept'
  <2> DEFINE e == Event(part, Here)
             events == Pending \o <<e>>
  <2>1. /\ up = "claude" /\ ~closed /\ closed' = closed
        /\ pending' = IF part = "thinking" THEN Here ELSE 0
    BY <1>4 DEF ClaudeChunk
  <2>2. e \in LineEvent /\ e.type = part
    BY <1>n, <1>k
  <2>e. e = Event(part, Here)
    OBVIOUS
  <2> HIDE DEF e
  <2>3. CASE part = "signature"
    <3>1. Line(<<>>, <<>>)
      BY <1>4, <2>3 DEF ClaudeChunk
    <3> QED
      BY <1>1, <2>1, <2>3, <3>1
  <2> DEFINE first == Event("thinking", pending)
  <2>4. \/ Pending = <<>> /\ events = <<e>>
        \/ /\ events = <<first, e>> /\ first.type = "thinking"
           /\ Moves(first, Len(said), Len(said))
    BY <2>2, PendingTells, ShortConcat
  <2> HIDE DEF first, events
  <2>5. /\ \A i \in DOMAIN events : events[i].type = "finish" => i = Len(events)
        /\ ~HasFinish(events)
    BY <2>2, <2>4, ShortFinish
  <2>6. CASE part = "redacted"
    <3>1. Line(events, <<>>)
      BY <1>4, <2>6, <2>e DEF ClaudeChunk, events
    <3>2. Translate(events) /\ todo = <<>> /\ UNCHANGED <<up, src, said>> /\ lines' = lines + 1
      BY <1>l, <1>q, <3>1
    <3>3. Leads(events, Len(said))
      BY <1>k, <1>s, <2>2, <2>4, <2>6, StandStill
    <3> QED
      BY <2>1, <2>5, <2>6, <3>2, <3>3, NothingSaid
  <2>7. CASE part \notin {"signature", "redacted"}
    <3>1. Line(events, <<Item(part)>>) /\ part \in Content
      BY <1>4, <1>k, <2>7, <2>e DEF ClaudeChunk, events
    <3>2. /\ Translate(events) /\ todo = <<>> /\ UNCHANGED <<up, src>>
          /\ src = "open" /\ lines' = lines + 1 /\ said' = said \o <<Item(part)>>
      BY <1>l, <3>1
    <3>3. \/ Len(events) = 1 /\ events[1] = e
          \/ Len(events) = 2 /\ events[2] = e /\ Moves(events[1], Len(said), Len(said))
      BY <2>4, ShortEvents
    <3> QED
      BY <2>1, <2>5, <2>e, <3>1, <3>2, <3>3, ItemSaid
  <2> QED
    BY <2>3, <2>6, <2>7
<1>5. ASSUME NEW reason \in EndReasons, Line(<<Finish(reason)>>, <<>>), pending' = pending,
             closed'
      PROVE  Kept'
  BY <1>0, <1>5, <1>f, <1>k
<1>6. ASSUME NEW reason \in Reasons \cup {"stop"}, ClaudeEnd(reason) \/ OpenAIEnd(reason)
      PROVE  Kept'
  <2>1. reason \in EndReasons
    BY DEF Reasons, EndReasons
  <2>2. Line(<<Finish(reason)>>, <<>>) /\ pending' = pending /\ closed' = TRUE
    BY <1>6 DEF ClaudeEnd, OpenAIEnd
  <2> QED
    BY <1>5, <2>1, <2>2
<1>7. CASE ClaudeStop \/ OpenAIUsage
  <2>1. /\ Line(<<Finish("stop")>>, <<>>) \/ Line(<<Finish("none")>>, <<>>)
        /\ pending' = pending /\ closed /\ closed' = closed
    BY <1>7 DEF ClaudeStop, OpenAIUsage
  <2> QED
    BY <1>5, <1>k, <2>1
<1>8. ASSUME NEW part \in {"text", "thinking", "tool", "more"}, OpenAIChunk(part)
      PROVE  Kept'
  <2> DEFINE kind == IF part = "more" THEN "tool" ELSE part
  <2>1. /\ up = "openai" /\ ~closed /\ pending' = pending
        /\ Line(<<Event(kind, Here)>>, <<Item(kind)>>)
    BY <1>8 DEF OpenAIChunk
  <2>2. kind \in Content
    BY <1>k
  <2>3. pending' = 0
    BY <1>u, <2>1
  <2> HIDE DEF kind
  <2> QED
    BY <1>2, <2>1, <2>2, <2>3
<1>9. ASSUME NEW part \in {"text", "summary", "args", "tool"}, ResponsesChunk(part)
      PROVE  Kept'
  <2>1. /\ up = "responses" /\ ~closed /\ pending' = pending /\ closed' = closed
        /\ Line(<<Event(part, Here)>>, IF part \in Content THEN <<Item(part)>> ELSE <<>>)
    BY <1>9 DEF ResponsesChunk
  <2>2. pending' = 0
    BY <1>u, <2>1
  <2>3. CASE part \in Content
    BY <1>2, <2>1, <2>2, <2>3
  <2>4. CASE part \notin Content
    <3>1. Event(part, Here).type = part /\ part # "finish"
      BY <1>k, <1>n
    <3> QED
      BY <1>0, <2>1, <2>4, <3>1
  <2> QED
    BY <2>3, <2>4
<1>10. CASE UpstreamError
  <2>1. /\ IF up = "claude" THEN Line(<<Event("error", 0)>>, <<>>) ELSE Line(<<>>, <<>>)
        /\ UNCHANGED <<closed, pending>>
    BY <1>10 DEF UpstreamError
  <2>2. Event("error", 0).type = "error"
    BY EventFields
  <2>3. "error" \notin Content /\ "error" # "finish"
    BY <1>k
  <2> QED
    BY <1>0, <1>1, <2>1, <2>2, <2>3
<1>11. CASE DoneLine \/ BodyEnds
  <2>1. /\ Translate(DoneEvents) /\ todo = <<>> /\ pending' = 0
        /\ UNCHANGED <<up, lines, closed, said>>
        /\ \/ closed' /\ src' = src
           \/ src' = "ended"
    BY <1>11 DEF DoneLine, BodyEnds, Done
  <2> DEFINE b == Finish("stop")
             p == Event("thinking", pending)
  <2>2. b \in LineEvent /\ b.type = "finish"
    BY <1>f, <1>k
  <2>3. \/ DoneEvents = <<>>
        \/ DoneEvents = <<b>>
        \/ DoneEvents = <<p>> /\ p.type = "thinking" /\ Moves(p, Len(said), Len(said))
    <3>1. CASE pending = 0 /\ Pending = <<>>
      <4>1. <<b>> \o <<>> = <<b>> /\ <<>> \o <<>> = <<>>
        BY <2>2, ShortConcat
      <4> QED
        BY <3>1, <4>1 DEF DoneEvents
    <3>2. CASE pending # 0
      <4>1. up = "claude" /\ Pending = <<p>> /\ p \in LineEvent /\ p.type = "thinking"
            /\ Moves(p, Len(said), Len(said))
        BY <3>2, PendingTells
      <4>2. <<>> \o <<p>> = <<p>>
        BY <4>1, <2>2, ShortConcat
      <4> QED
        BY <4>1, <4>2 DEF DoneEvents
    <3> QED
      BY <3>1, <3>2, PendingTells
  <2> HIDE DEF b, p
  <2>4. /\ Leads(DoneEvents, Len(said))
        /\ \A i \in DOMAIN DoneEvents : DoneEvents[i].type = "finish" => i = Len(DoneEvents)
    <3>1. Moves(b, Len(said), Len(said))
      BY <1>k, <1>s, <2>2
    <3> QED
      BY <2>3, <3>1, StandStill, ShortFinish
  <2> QED
    BY <2>1, <2>4, NothingSaid
<1> QED
  BY <1>3, <1>4, <1>6, <1>7, <1>8, <1>9, <1>10, <1>11 DEF ReadLine

LEMMA InitKept == Init => Kept
<1> SUFFICES ASSUME Init PROVE Kept
  OBVIOUS
<1>1. /\ said = <<>> /\ shown = <<>> /\ todo = <<>> /\ pending = 0
      /\ closed = FALSE /\ buffered = FALSE /\ finishSent = FALSE
  BY DEF Init
<1>2. Reached = 0
  <2>1. Len(shown) = 0
    BY <1>1
  <2>2. {j \in 1..0 : j = 1 \/ shown[j] # shown[j - 1]} = {}
    OBVIOUS
  <2> QED
    BY <2>1, <2>2, FS_EmptySet DEF Reached, Number
<1>3. Len(said) = 0 /\ Retells(shown, said)
  BY <1>1, ShortEvents DEF Retells
<1> QED
  BY <1>1, <1>2, <1>3, ShortEvents DEF Kept, Leads, HasFinish

LEMMA NextKept == TypeOK /\ Unbroken /\ Accords /\ Kept /\ [Next]_vars => Kept'
<1>1. ASSUME TypeOK, Unbroken, Accords, Kept, NEW e \in ToSet(todo), Emit(e) PROVE Kept'
  BY <1>1, EmitKept
<1>2. TypeOK /\ Kept /\ UNCHANGED vars => Kept'
  BY DEF vars, source, translator, output, Kept, Retells, Reached, Leads, Moves, Tells,
         HasFinish
<1>3. TypeOK /\ Kept /\ SendError => Kept'
  BY DEF SendError, translator, Kept, Retells, Reached, Leads, Moves, Tells, HasFinish
<1> QED
  BY <1>1, <1>2, <1>3, ReadLineKept DEF Next

\* For answers of any length, wherever they break off: what the client gets is what
\* upstream says, from the start, in order and without a hole, if with repetitions,
\* and between two lines all of it, but for Vertex.
THEOREM ContentIsKept == Spec => []ContentKept
<1>1. ASSUME TypeOK, Kept PROVE ContentKept
  <2>1. todo = <<>> /\ ~buffered => Reached = Len(said)
    BY <1>1, ShortEvents DEF Kept, Leads
  <2> QED
    BY <1>1, <2>1 DEF ContentKept, Kept, Reached
<1> DEFINE Inv == TypeOK /\ Unbroken /\ Accords /\ Kept
<1>2. Init => Inv
  BY InitUnbroken, InitAccords, InitKept
<1>3. Inv /\ [Next]_vars => Inv'
  BY NextKeeps, NextAccords, NextKept
<1>4. Inv => ContentKept
  BY <1>1
<1> HIDE DEF Inv
<1> QED
  BY <1>2, <1>3, <1>4, PTL DEF Spec

=============================================================================
