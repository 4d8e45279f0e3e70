----------------------- MODULE StreamExecutionProofs -----------------------
(* Theorems about StreamExecution, for lines of any number and channels of any depth. *)
EXTENDS StreamExecution, SequenceTheorems, TLAPS

\* A chunk of one of the kinds is in the sequence.
Has(seq, kinds) == \E i \in DOMAIN seq : seq[i].kind \in kinds

Fault == {"error", "abort"}

\* Where each part of the stream is tells where the others may be.
Placed ==
  /\ call = "streaming" <=> rd # "off"
  /\ \A g \in Relay : at[g] = "off" <=> call # "streaming"
  /\ rd = "send" => todo # <<>>
  /\ \A g \in Relay : at[g] = "send" <=> hand[g] # NoChunk
  /\ "pipe" \notin open => rd = "done"
  /\ \A g \in Relay : To[g] \notin open => at[g] = "done"

LEMMA HasAppend ==
  ASSUME NEW seq \in Seq(Chunk), NEW c \in Chunk, NEW kinds
  PROVE  Has(Append(seq, c), kinds) <=> Has(seq, kinds) \/ c.kind \in kinds
  BY DEF Has

LEMMA HasTail ==
  ASSUME NEW seq \in Seq(Chunk), seq # <<>>, NEW kinds
  PROVE  Has(seq, kinds) <=> Head(seq).kind \in kinds \/ Has(Tail(seq), kinds)
  <1>1. seq[1] = Head(seq) /\ Tail(seq) \in Seq(Chunk)
        /\ Len(seq) \in Nat /\ Len(seq) >= 1
        /\ Len(Tail(seq)) = Len(seq) - 1
        /\ DOMAIN seq = 1..Len(seq) /\ DOMAIN Tail(seq) = 1..Len(Tail(seq))
        /\ \A i \in DOMAIN Tail(seq) : Tail(seq)[i] = seq[i + 1]
    OBVIOUS
  <1>2. ASSUME NEW i \in DOMAIN seq, i # 1
        PROVE  i - 1 \in DOMAIN Tail(seq) /\ Tail(seq)[i - 1] = seq[i]
    BY <1>1, <1>2
  <1>3. ASSUME NEW i \in DOMAIN Tail(seq)
        PROVE  i + 1 \in DOMAIN seq /\ Tail(seq)[i] = seq[i + 1]
    BY <1>1, <1>3
  <1>4. ASSUME Has(seq, kinds), Head(seq).kind \notin kinds
        PROVE  Has(Tail(seq), kinds)
    <2>1. PICK i \in DOMAIN seq : seq[i].kind \in kinds
      BY <1>4 DEF Has
    <2>2. i # 1
      BY <1>1, <1>4, <2>1
    <2> QED
      BY <1>2, <2>1, <2>2 DEF Has
  <1>5. ASSUME Head(seq).kind \in kinds
        PROVE  Has(seq, kinds)
    <2>1. 1 \in DOMAIN seq
      BY <1>1
    <2> QED
      BY <1>1, <1>5, <2>1 DEF Has
  <1>6. ASSUME Has(Tail(seq), kinds)
        PROVE  Has(seq, kinds)
    BY <1>3, <1>6 DEF Has
  <1> QED
    BY <1>4, <1>5, <1>6

LEMMA HasNothing == ASSUME NEW kinds PROVE ~Has(<<>>, kinds)
  BY DEF Has

LEMMA Chunks ==
  /\ \A kind \in {"tail", "notice", "error", "abort"} :
       Only(kind) \in Chunk /\ Only(kind).kind = kind
  /\ \A n \in 0..Lines : Line(n) \in Chunk /\ Line(n).kind = "line"
  /\ NoChunk \notin Chunk
  /\ Only("line") \in Chunk
  <1> Lines \in Nat
    BY StreamAssumption
  <1>1. ASSUME NEW kind \in {"tail", "notice", "error", "abort", "line"}
        PROVE  Only(kind) \in Chunk /\ Only(kind).kind = kind
    BY DEF Chunk, Only
  <1>2. ASSUME NEW n \in 0..Lines
        PROVE  Line(n) \in Chunk /\ Line(n).kind = "line"
    BY DEF Chunk, Line
  <1>3. NoChunk \notin Chunk
    BY DEF Chunk, NoChunk
  <1> QED BY <1>1, <1>2, <1>3

LEMMA InitTyped == Init => TypeOK /\ Placed
  <1> SUFFICES ASSUME Init PROVE TypeOK /\ Placed
    OBVIOUS
  <1>1. chan \in [Channel -> Seq(Chunk)] /\ \A c \in Channel : Len(chan[c]) <= Depth
    BY StreamAssumption DEF Init
  <1>2. errs \in Seq(Chunk) /\ Len(errs) <= 1
    BY DEF Init
  <1>3. TypeOK
    <2>1. at \in [Relay -> {"off", "recv", "send", "done"}]
          /\ hand \in [Relay -> Chunk \cup {NoChunk}]
      BY DEF Init
    <2>2. read \in 0..Lines /\ stale \in 0..read
      BY StreamAssumption DEF Init
    <2>3. reports \in Seq(BOOLEAN) /\ marks \in Seq({"success", "failure"})
          /\ todo \in Seq(Chunk) /\ sent \in Seq(Chunk) /\ shown \in Seq(Chunk)
      BY EmptySeq DEF Init
    <2>4. /\ mode \in Mode /\ call = "allow" /\ tried \subseteq Auth
          /\ rd = "off" /\ next = "scan" /\ open \subseteq Channel
          /\ client = "waiting"
          /\ ctx = FALSE /\ gone = FALSE /\ body = FALSE /\ entry = FALSE
          /\ idled = FALSE /\ quiet = FALSE /\ checking = FALSE /\ failed = FALSE
      BY DEF Init
    <2> QED
      BY <1>1, <1>2, <2>1, <2>2, <2>3, <2>4 DEF TypeOK
  <1>4. Placed
    BY DEF Init, Placed, Relay, To, Channel
  <1> QED BY <1>3, <1>4

Typed == TypeOK /\ Placed

LEMMA CallerTyped == Typed /\ Caller => Typed'
  <1> SUFFICES ASSUME Typed, Caller PROVE Typed'
    OBVIOUS
  <1> USE DEF Typed, Unopened, watcher, reader, handler
  <1>1. CASE Refuse \/ Allow
    BY <1>1 DEF Refuse, Allow, TypeOK, Placed
  <1>2. CASE PickFails
    BY <1>2 DEF PickFails, Report, TypeOK, Placed
  <1>3. ASSUME NEW a \in Auth, OpenFails(a) PROVE Typed'
    BY <1>3 DEF OpenFails, TypeOK, Placed
  <1>4. ASSUME NEW a \in Auth, OpenCanceled(a) PROVE Typed'
    BY <1>4 DEF OpenCanceled, Report, TypeOK, Placed
  <1>5. ASSUME NEW a \in Auth, Opens(a) PROVE Typed'
    <2>1. TypeOK'
      BY <1>5 DEF Opens, TypeOK
    <2>2. Placed'
      BY <1>5 DEF Opens, TypeOK, Placed
    <2> QED BY <2>1, <2>2
  <1> QED
    BY <1>1, <1>2, <1>3, <1>4, <1>5 DEF Caller

LEMMA Delivered ==
  ASSUME NEW chunks \in Seq(Chunk), NEW then \in {"scan", "close"},
         Deliver(chunks, then)
  PROVE  /\ rd' \in {"scan", "close", "send"} /\ next' \in {"scan", "close"}
         /\ todo' = chunks
         /\ rd' = "send" => todo' # <<>>
  BY DEF Deliver

LEMMA ClosingTyped ==
  ASSUME TypeOK, NEW kind \in {"eof", "truncated", "broken", "canceled"}
  PROVE  /\ Closing(kind) \in Seq(Chunk)
         /\ Has(Closing(kind), {"abort"}) => kind = "canceled"
  <1>1. /\ ScannerClosing(kind) \in Seq(Chunk)
        /\ Has(ScannerClosing(kind), {"abort"}) => kind = "canceled"
    <2>1. CASE kind = "eof"
      BY <2>1, Chunks DEF ScannerClosing, Has
    <2>2. CASE kind = "canceled"
      BY <2>2, Chunks DEF ScannerClosing
    <2>3. CASE kind \notin {"eof", "canceled"}
      BY <2>3, Chunks DEF ScannerClosing, Has
    <2> QED BY <2>1, <2>2, <2>3
  <1>2. /\ SseClosing(kind) \in Seq(Chunk)
        /\ ~Has(SseClosing(kind), {"abort"})
    <2> DEFINE tail == IF mode = "sse" THEN <<Only("tail")>> ELSE <<>>
               notice == IF kind = "broken" THEN <<Only("notice")>> ELSE <<>>
    <2>1. tail \in Seq(Chunk) /\ \A i \in 1..Len(tail) : tail[i].kind = "tail"
      BY Chunks
    <2>2. notice \in Seq(Chunk) /\ \A i \in 1..Len(notice) : notice[i].kind = "notice"
      BY Chunks
    <2> HIDE DEF tail, notice
    <2>3. /\ tail \o notice \in Seq(Chunk)
          /\ \A i \in 1..Len(tail \o notice) : (tail \o notice)[i].kind # "abort"
      BY <2>1, <2>2
    <2>4. /\ tail \o notice \in Seq(Chunk)
          /\ ~Has(tail \o notice, {"abort"})
      BY <2>3 DEF Has
    <2> QED BY <2>4 DEF tail, notice, SseClosing
  <1> QED
    BY <1>1, <1>2 DEF Closing

\* A step of the reader that leaves all that is not its own alone.
LEMMA ReaderSteps ==
  ASSUME Typed, rd # "off", UNCHANGED <<Reading, open>>,
         chan' \in [Channel -> Seq(Chunk)],
         \A c \in Channel : Len(chan'[c]) <= Depth,
         body' \in BOOLEAN, entry' \in BOOLEAN, idled' \in BOOLEAN,
         quiet' \in BOOLEAN, checking' \in BOOLEAN, sent' \in Seq(Chunk),
         rd' \in {"scan", "close", "send"}, next' \in {"scan", "close"},
         todo' \in Seq(Chunk), rd' = "send" => todo' # <<>>,
         read' \in 0..Lines, stale' \in 0..read', rd # "done"
  PROVE  Typed'
  <1> USE DEF Typed, Reading, calling, relays, handler
  <1>1. TypeOK'
    BY DEF TypeOK
  <1>2. Placed'
    BY DEF Placed, TypeOK
  <1> QED BY <1>1, <1>2

LEMMA ReaderTyped == Typed /\ (Reader \/ Upstream) => Typed'
  <1> SUFFICES ASSUME Typed, Reader \/ Upstream PROVE Typed'
    OBVIOUS
  <1> USE DEF Typed, Reading, calling, relays, handler, watcher, reader
  <1>1. CASE Register
    <2>1. /\ rd = "start" /\ rd' = "scan" /\ entry' \in BOOLEAN /\ quiet' \in BOOLEAN
          /\ UNCHANGED <<Reading, idled, checking, body, todo, next, read, stale,
                         sent, chan, open>>
      BY <1>1 DEF Register
    <2> QED BY <2>1, ReaderSteps DEF TypeOK
  <1>2. CASE Send
    <2>1. /\ todo # <<>> /\ Head(todo) \in Chunk /\ Tail(todo) \in Seq(Chunk)
          /\ Len(todo) # 1 => Tail(todo) # <<>>
      <3>1. todo # <<>> /\ todo \in Seq(Chunk)
        BY <1>2 DEF Send, TypeOK, Placed
      <3>2. Head(todo) \in Chunk /\ Tail(todo) \in Seq(Chunk)
            /\ Len(Tail(todo)) = Len(todo) - 1
        BY <3>1, HeadTailProperties
      <3>3. Len(todo) # 1 => Len(Tail(todo)) # 0
        BY <3>1, <3>2, LenProperties
      <3> QED
        BY <3>1, <3>2, <3>3, EmptySeq
    <2>2. /\ chan' \in [Channel -> Seq(Chunk)]
          /\ \A c \in Channel : Len(chan'[c]) <= Depth
      <3>1. Append(chan["pipe"], Head(todo)) \in Seq(Chunk)
            /\ Len(Append(chan["pipe"], Head(todo))) = Len(chan["pipe"]) + 1
        BY <2>1 DEF TypeOK, Channel
      <3>2. Len(chan["pipe"]) + 1 <= Depth
        BY <1>2, StreamAssumption DEF Send, TypeOK, Channel
      <3>3. chan' = [chan EXCEPT !["pipe"] = Append(chan["pipe"], Head(todo))]
        BY <1>2 DEF Send
      <3> QED
        BY <3>1, <3>2, <3>3 DEF TypeOK
    <2>3. todo' \in Seq(Chunk) /\ sent' \in Seq(Chunk)
          /\ rd' \in {"scan", "close", "send"} /\ next' \in {"scan", "close"}
          /\ (rd' = "send" => todo' # <<>>)
      BY <1>2, <2>1, AppendProperties DEF Send, TypeOK
    <2>4. /\ rd = "send"
          /\ UNCHANGED <<Reading, watcher, body, read, stale, open>>
      BY <1>2 DEF Send
    <2> QED
      BY <2>2, <2>3, <2>4, ReaderSteps DEF TypeOK
  <1>3. CASE SendAbandoned
    <2>1. rd' = "close" /\ todo' = <<>> /\ next' = "scan"
      BY <1>3 DEF SendAbandoned, Deliver
    <2>2. todo' \in Seq(Chunk)
      BY <2>1
    <2> QED
      BY <1>3, <2>1, <2>2 DEF SendAbandoned, TypeOK, Placed
  <1>4. CASE ReaderCloses
    BY <1>4 DEF ReaderCloses, TypeOK, Placed
  <1>5. CASE PipelineCloses
    BY <1>5 DEF PipelineCloses, TypeOK, Placed, Relay, To
  <1>6. ASSUME NEW kind \in {"eof", "truncated", "broken", "canceled"}, ScanEnds(kind)
        PROVE Typed'
    <2>1. UNCHANGED <<Reading, watcher, body, read, stale, sent, chan, open>>
          /\ rd = "scan"
      BY <1>6 DEF ScanEnds
    <2>2. Closing(kind) \in Seq(Chunk) /\ <<Only("error")>> \in Seq(Chunk)
      BY Chunks, ClosingTyped
    <2>3. PICK chunks \in Seq(Chunk) : Deliver(chunks, "close")
      <3>1. CASE Deliver(Closing(kind), "close")
        BY <3>1, <2>2
      <3>2. CASE Deliver(<<Only("error")>>, "close")
        BY <3>2, <2>2
      <3> QED
        BY <3>1, <3>2, <1>6 DEF ScanEnds
    <2>4. /\ rd' \in {"scan", "close", "send"} /\ next' \in {"scan", "close"}
          /\ todo' \in Seq(Chunk) /\ (rd' = "send" => todo' # <<>>)
      BY <2>3, Delivered
    <2> QED
      BY <2>1, <2>4, ReaderSteps DEF TypeOK
  <1>7. CASE ReadLine
    <2>1. /\ rd = "scan" /\ UNCHANGED <<Reading, entry, idled, checking, body, sent, chan, open>>
          /\ quiet' = FALSE
          /\ read' = read + 1 /\ stale' \in {stale, read} /\ read < Lines
      BY <1>7 DEF ReadLine
    <2>4. PICK chunks \in Seq(Chunk), then \in {"scan", "close"} : Deliver(chunks, then)
      <3>1. read + 1 \in 0..Lines
        BY <1>7, StreamAssumption DEF ReadLine, TypeOK
      <3>2. /\ <<>> \in Seq(Chunk) /\ <<Line(read + 1)>> \in Seq(Chunk)
            /\ ProcessorFailed \in Seq(Chunk)
        BY <3>1, Chunks DEF ProcessorFailed
      <3>3. CASE Deliver(<<>>, "close")
        BY <3>2, <3>3
      <3>4. CASE Deliver(<<Line(read + 1)>>, "scan")
        BY <3>2, <3>4
      <3>5. CASE Deliver(ProcessorFailed, "close")
        BY <3>2, <3>5
      <3> QED
        BY <1>7, <3>3, <3>4, <3>5 DEF ReadLine
    <2>2. /\ rd' \in {"scan", "close", "send"} /\ next' \in {"scan", "close"}
          /\ todo' \in Seq(Chunk) /\ (rd' = "send" => todo' # <<>>)
      BY <2>4, Delivered
    <2>3. read' \in 0..Lines /\ stale' \in 0..read'
      BY <2>1, StreamAssumption DEF TypeOK
    <2>5. UNCHANGED <<Reading, entry, idled, checking, body, sent, chan, open>>
          /\ quiet' \in BOOLEAN /\ rd = "scan"
      BY <2>1
    <2> QED
      BY <2>2, <2>3, <2>5, ReaderSteps DEF TypeOK
  <1> QED
    BY <1>1, <1>2, <1>3, <1>4, <1>5, <1>6, <1>7 DEF Reader, Upstream, UpstreamEnds, ReadFails

LEMMA OthersTyped ==
  Typed /\ (Quiet \/ Collect \/ Inspect \/ AfterContext \/ Leave) => Typed'
  <1> SUFFICES ASSUME Typed, Quiet \/ Collect \/ Inspect \/ AfterContext \/ Leave
               PROVE  Typed'
    OBVIOUS
  <1>1. /\ UNCHANGED <<calling, reader, chan, open, relays, handler>>
        /\ body' \in BOOLEAN /\ entry' \in BOOLEAN /\ idled' \in BOOLEAN
        /\ quiet' \in BOOLEAN /\ checking' \in BOOLEAN
        /\ ctx' \in BOOLEAN /\ gone' \in BOOLEAN
    BY DEF Typed, TypeOK, Quiet, Collect, Inspect, AfterContext, Leave,
           Watching, watcher
  <1>2. TypeOK'
    BY <1>1 DEF Typed, TypeOK, calling, reader, relays, handler
  <1>3. Placed'
    BY <1>1 DEF Typed, Placed, calling, reader, relays, handler
  <1> QED BY <1>2, <1>3 DEF Typed

\* A goroutine that takes a chunk from a channel or puts one into it.
LEMMA ChannelsTyped ==
  ASSUME TypeOK, NEW g \in Relay
  PROVE  /\ From[g] \in Channel /\ To[g] \in Channel
         /\ Arrived(g) => /\ Arrival(g) \in Chunk
                          /\ Tail(chan[From[g]]) \in Seq(Chunk)
                          /\ Len(Tail(chan[From[g]])) <= Depth
         /\ Arrived(g) /\ Consume(g) => /\ chan' \in [Channel -> Seq(Chunk)]
                                        /\ \A c \in Channel : Len(chan'[c]) <= Depth
  <1>1. From[g] \in Channel /\ To[g] \in Channel
    BY DEF From, To, Channel, Relay
  <1>2. ASSUME Arrived(g)
        PROVE  /\ Arrival(g) \in Chunk
               /\ Tail(chan[From[g]]) \in Seq(Chunk)
               /\ Len(Tail(chan[From[g]])) <= Depth
    <2>1. chan[From[g]] \in Seq(Chunk) /\ chan[From[g]] # <<>>
          /\ Len(chan[From[g]]) <= Depth
      BY <1>1, <1>2 DEF Arrived, TypeOK
    <2> QED
      BY <2>1, StreamAssumption, HeadTailProperties DEF Arrival
  <1>3. ASSUME Arrived(g), Consume(g)
        PROVE  /\ chan' \in [Channel -> Seq(Chunk)]
               /\ \A c \in Channel : Len(chan'[c]) <= Depth
    BY <1>1, <1>2, <1>3 DEF Consume, TypeOK
  <1> QED BY <1>1, <1>2, <1>3

\* What the three goroutines share: they take, hold, put and return.
LEMMA RelayTyped ==
  ASSUME Typed, NEW g \in Relay, Relaying' = Relaying,
         errs' \in Seq(Chunk), Len(errs') <= 1, failed' \in BOOLEAN,
         reports' \in Seq(BOOLEAN), marks' \in Seq({"success", "failure"}),
         \/ Put(g)
         \/ /\ Arrived(g) /\ Consume(g)
            /\ (Hold(g, Arrival(g)) /\ UNCHANGED open) \/ Return(g)
         \/ Drained(g) /\ Return(g) /\ UNCHANGED chan
         \/ Interrupted(g) /\ Return(g) /\ UNCHANGED chan
  PROVE  Typed'
  <1> USE DEF Typed, Relaying, calling, watcher, reader, handler
  <1>0. UNCHANGED <<mode, call, tried, ctx, gone, body, entry, idled, quiet, checking,
                    rd, todo, next, read, stale, sent, shown, client>>
    OBVIOUS
  <1>p. at[g] \in {"recv", "send"} => call = "streaming"
    BY DEF Placed
  <1>1. CASE Put(g)
    <2>1. hand[g] \in Chunk
      BY <1>1 DEF Put, Placed, TypeOK
    <2>2. Append(chan[To[g]], hand[g]) \in Seq(Chunk)
          /\ Len(Append(chan[To[g]], hand[g])) <= Depth
      BY <1>1, <2>1, ChannelsTyped, StreamAssumption DEF Put, TypeOK
    <2>5. /\ chan' \in [Channel -> Seq(Chunk)]
          /\ \A c \in Channel : Len(chan'[c]) <= Depth
          /\ at' \in [Relay -> {"off", "recv", "send", "done"}]
          /\ hand' \in [Relay -> Chunk \cup {NoChunk}]
          /\ open' = open
      BY <1>1, <2>2 DEF Put, TypeOK
    <2>3. TypeOK'
      BY <1>0, <2>5 DEF TypeOK
    <2>4. Placed'
      BY <1>0, <1>1 DEF Put, Placed, TypeOK
    <2> QED BY <2>3, <2>4
  <1>2. CASE Arrived(g) /\ Consume(g) /\ Hold(g, Arrival(g)) /\ UNCHANGED open
    <2>1. TypeOK'
      BY <1>0, <1>2, ChannelsTyped DEF Hold, TypeOK
    <2>2. Placed'
      BY <1>0, <1>2, ChannelsTyped, Chunks DEF Arrived, Hold, Placed, TypeOK
    <2> QED BY <2>1, <2>2
  <1>3. ASSUME Return(g), at[g] \in {"recv", "send"},
               chan' \in [Channel -> Seq(Chunk)],
               \A c \in Channel : Len(chan'[c]) <= Depth
        PROVE  Typed'
    <2>1. TypeOK'
      BY <1>0, <1>3 DEF Return, TypeOK
    <2>2. Placed'
      <3>1. /\ at'[g] = "done" /\ hand'[g] = NoChunk /\ To[g] # "pipe" /\ open' = open \ {To[g]}
            /\ \A h \in Relay \ {g} : at'[h] = at[h] /\ hand'[h] = hand[h] /\ To[h] # To[g]
        BY <1>3 DEF Return, TypeOK, Relay, To
      <3> QED BY <1>0, <1>3, <3>1 DEF Placed
    <2> QED BY <2>1, <2>2
  <1>4. CASE Arrived(g) /\ Consume(g) /\ Return(g)
    BY <1>3, <1>4, ChannelsTyped DEF Arrived
  <1>5. CASE (Drained(g) \/ Interrupted(g)) /\ Return(g) /\ UNCHANGED chan
    BY <1>3, <1>5 DEF Drained, Interrupted, TypeOK
  <1> QED
    BY <1>1, <1>2, <1>4, <1>5

LEMMA RelaysTyped == Typed /\ (Convert \/ Forward \/ Wrap) => Typed'
  <1> SUFFICES ASSUME Typed, Convert \/ Forward \/ Wrap PROVE Typed'
    OBVIOUS
  <1>t. errs \in Seq(Chunk) /\ Len(errs) <= 1 /\ failed \in BOOLEAN
        /\ reports \in Seq(BOOLEAN) /\ marks \in Seq({"success", "failure"})
    BY DEF Typed, TypeOK
  <1>r. "convert" \in Relay /\ "forward" \in Relay /\ "wrap" \in Relay
    BY DEF Relay
  <1>1. ASSUME NEW g \in Relay, Put(g) PROVE Typed'
    BY <1>1, <1>t, RelayTyped DEF Put
  <1>2. CASE ConvertTakes
    BY <1>2, <1>t, <1>r, RelayTyped DEF ConvertTakes
  <1>3. CASE ConvertEnds
    BY <1>3, <1>t, <1>r, RelayTyped DEF ConvertEnds
  <1>4. CASE ForwardTakes
    <2>1. marks' \in Seq({"success", "failure"}) /\ failed' \in BOOLEAN
      BY <1>4, <1>t DEF ForwardTakes
    <2> QED
      BY <1>4, <2>1, <1>t, <1>r, RelayTyped DEF ForwardTakes
  <1>5. CASE ForwardAborts
    <2>1. reports' \in Seq(BOOLEAN)
      BY <1>5, <1>t DEF ForwardAborts, Report
    <2> QED
      BY <1>5, <2>1, <1>t, <1>r, RelayTyped DEF ForwardAborts
  <1>6. CASE ForwardEnds
    <2>1. reports' \in Seq(BOOLEAN) /\ marks' \in Seq({"success", "failure"})
      BY <1>6, <1>t DEF ForwardEnds, Report
    <2> QED
      BY <1>6, <2>1, <1>t, <1>r, RelayTyped DEF ForwardEnds
  <1>7. CASE ForwardInterrupted
    <2>1. reports' \in Seq(BOOLEAN)
      BY <1>7, <1>t DEF ForwardInterrupted, Report
    <2> QED
      BY <1>7, <2>1, <1>t, <1>r, RelayTyped DEF ForwardInterrupted
  <1>8. CASE WrapTakes
    BY <1>8, <1>t, <1>r, RelayTyped DEF WrapTakes
  <1>9. CASE WrapFails
    <2>1. errs' \in Seq(Chunk) /\ Len(errs') <= 1
      <3>1. Arrival("wrap") \in Chunk
        BY <1>9, <1>r, ChannelsTyped DEF WrapFails, Typed
      <3>2. errs' = <<Arrival("wrap")>> \/ errs' = errs
        BY <1>9 DEF WrapFails
      <3>3. <<Arrival("wrap")>> \in Seq(Chunk) /\ Len(<<Arrival("wrap")>>) = 1
        BY <3>1
      <3>4. CASE errs' = errs
        BY <3>4, <1>t
      <3>5. CASE errs' = <<Arrival("wrap")>>
        BY <3>3, <3>5
      <3> QED BY <3>2, <3>4, <3>5
    <2> QED
      BY <1>9, <2>1, <1>t, <1>r, RelayTyped DEF WrapFails
  <1>10. CASE WrapEnds
    BY <1>10, <1>t, <1>r, RelayTyped DEF WrapEnds
  <1> QED
    BY <1>r, <1>1, <1>2, <1>3, <1>4, <1>5, <1>6, <1>7, <1>8, <1>9, <1>10
       DEF Convert, Forward, Wrap

LEMMA HandlerTyped == Typed /\ Handler => Typed'
  <1> SUFFICES ASSUME Typed, Handler PROVE Typed'
    OBVIOUS
  <1> USE DEF Typed, Handling, calling, watcher, reader
  <1>1. CASE Show
    <2>1. chan["data"] \in Seq(Chunk) /\ chan["data"] # <<>> /\ Len(chan["data"]) <= Depth
      BY <1>1 DEF Show, TypeOK, Channel
    <2>2. Head(chan["data"]) \in Chunk /\ Tail(chan["data"]) \in Seq(Chunk)
          /\ Len(Tail(chan["data"])) <= Depth
      BY <2>1, StreamAssumption, HeadTailProperties
    <2>3. Written(Head(chan["data"])) \in Chunk
      BY <2>2, Chunks DEF Written
    <2>4. /\ chan' \in [Channel -> Seq(Chunk)]
          /\ \A c \in Channel : Len(chan'[c]) <= Depth
          /\ shown' \in Seq(Chunk)
      BY <1>1, <2>2, <2>3, AppendProperties DEF Show, TypeOK
    <2>5. UNCHANGED <<Handling, ctx, errs, client>>
      BY <1>1 DEF Show
    <2>6. TypeOK'
      BY <2>4, <2>5 DEF TypeOK
    <2>7. Placed'
      BY <2>5 DEF Placed
    <2> QED BY <2>6, <2>7
  <1>2. ASSUME NEW how \in {"end", "error", "gone"}, HandlerReturns(how),
               errs' = errs \/ errs' = <<>>
        PROVE  Typed'
    <2>1. errs' \in Seq(Chunk) /\ Len(errs') <= 1
      <3>1. CASE errs' = errs
        BY <3>1 DEF TypeOK
      <3>2. CASE errs' = <<>>
        BY <3>2, EmptySeq
      <3> QED BY <1>2, <3>1, <3>2
    <2>2. /\ UNCHANGED <<Handling, chan, shown>>
          /\ client' \in {"end", "error", "gone"} /\ ctx' \in BOOLEAN
      BY <1>2 DEF HandlerReturns
    <2>5. UNCHANGED <<mode, call, tried, gone, body, entry, idled, quiet, checking,
                      rd, todo, next, read, stale, sent, chan, open, at, hand,
                      failed, reports, marks, shown>>
      BY <2>2
    <2>3. TypeOK'
      BY <2>1, <2>2, <2>5 DEF TypeOK
    <2>4. Placed'
      BY <2>5 DEF Placed
    <2> QED BY <2>3, <2>4
  <1>3. CASE ShowEnd \/ ShowError \/ ShowFailure \/ NoticeGone
    BY <1>2, <1>3 DEF ShowEnd, ShowError, ShowFailure, NoticeGone
  <1> QED
    BY <1>1, <1>3 DEF Handler

LEMMA NextTyped == Typed /\ [Next]_vars => Typed'
  <1> SUFFICES ASSUME Typed, [Next]_vars PROVE Typed'
    OBVIOUS
  <1>1. CASE UNCHANGED vars
    <2>1. TypeOK'
      BY <1>1 DEF Typed, TypeOK, vars, calling, watcher, reader, relays, handler
    <2>2. Placed'
      BY <1>1 DEF Typed, Placed, vars, calling, watcher, reader, relays, handler
    <2> QED BY <2>1, <2>2 DEF Typed
  <1> QED
    BY <1>1, CallerTyped, ReaderTyped, OthersTyped, RelaysTyped, HandlerTyped
       DEF Next

THEOREM StreamTypeCorrect == Spec => []TypeOK
  <1>1. Init => Typed
    BY InitTyped DEF Typed
  <1> QED
    BY <1>1, NextTyped, PTL DEF Spec, Typed

-----------------------------------------------------------------------------
(* The verdict                                                             *)

\* What becomes of an error on its way: until the context ends no chunk is a
\* cancellation, an error that was sent is in the pipe, in the converter's hand,
\* in the middle channel or has made the stream a failure, and a goroutine that
\* has returned has left nothing behind.
NoAbort ==
  /\ ~Has(todo, {"abort"}) /\ ~Has(chan["pipe"], {"abort"})
  /\ ~Has(chan["mid"], {"abort"}) /\ hand["convert"].kind # "abort"

Accounted ==
  Has(sent, Fault) <=>
    \/ failed
    \/ Has(chan["pipe"], Fault) \/ Has(chan["mid"], Fault)
    \/ hand["convert"].kind \in Fault

Emptied ==
  /\ at["convert"] = "done" => "pipe" \notin open /\ chan["pipe"] = <<>>
  /\ at["forward"] = "done" => at["convert"] = "done" /\ chan["mid"] = <<>>

Verdict ==
  /\ at["forward"] # "done" => marks = IF failed THEN <<"failure">> ELSE <<>>
  /\ at["forward"] = "done" =>
       reports = <<~failed>> /\ marks = <<IF failed THEN "failure" ELSE "success">>

Flow == NoAbort /\ Accounted /\ Emptied /\ Verdict

Told == Typed /\ OneReport /\ (~ctx => Flow)

LEMMA InitTold == Init => Told
  <1> SUFFICES ASSUME Init PROVE Told
    OBVIOUS
  <1>1. OneReport
    BY DEF Init, OneReport, Relay
  <1>2. /\ todo = <<>> /\ sent = <<>> /\ chan["pipe"] = <<>> /\ chan["mid"] = <<>>
        /\ hand["convert"].kind = "none" /\ ~failed /\ marks = <<>>
        /\ at["convert"] = "off" /\ at["forward"] = "off"
    BY DEF Init, Channel, Relay, NoChunk
  <1>3. Flow
    BY <1>2, HasNothing DEF Flow, NoAbort, Accounted, Emptied, Verdict, Fault
  <1> QED BY <1>1, <1>3, InitTyped DEF Told, Typed

\* The callback: only PickFails and OpenCanceled before a stream, and the
\* forwarder's return, call it.
LEMMA OneReportKept == Typed /\ OneReport /\ [Next]_vars => OneReport'
  <1> SUFFICES ASSUME Typed, OneReport, [Next]_vars PROVE OneReport'
    OBVIOUS
  <1>t. /\ reports \in Seq(BOOLEAN) /\ failed \in BOOLEAN
        /\ at \in [Relay -> {"off", "recv", "send", "done"}]
        /\ "forward" \in Relay /\ "convert" \in Relay /\ "wrap" \in Relay
        /\ call # "streaming" => at["forward"] = "off"
        /\ call = "streaming" => call # "failed"
    BY DEF Typed, TypeOK, Placed, Relay
  <1>1. ASSUME UNCHANGED <<reports, call>>,
               at'["forward"] = "done" <=> at["forward"] = "done"
        PROVE  OneReport'
    BY <1>1 DEF OneReport
  <1>2. ASSUME NEW ok \in BOOLEAN, Report(ok), call # "failed", at["forward"] # "done",
               call' = "failed" \/ at'["forward"] = "done"
        PROVE  OneReport'
    <2>1. Len(reports) = 0
      BY <1>2 DEF OneReport
    <2>2. Len(reports') = 1
      BY <1>2, <1>t, <2>1, AppendProperties DEF Report
    <2> QED BY <1>2, <2>2 DEF OneReport
  <1>3. CASE Caller
    <2>1. CASE Refuse \/ Allow
      BY <1>t, <2>1 DEF Refuse, Allow, Unopened, OneReport
    <2>2. CASE PickFails
      BY <1>t, <1>2, <2>2 DEF PickFails
    <2>3. ASSUME NEW a \in Auth, OpenFails(a) PROVE OneReport'
      BY <1>1, <2>3 DEF OpenFails, Unopened
    <2>4. ASSUME NEW a \in Auth, OpenCanceled(a) PROVE OneReport'
      BY <1>t, <1>2, <2>4 DEF OpenCanceled
    <2>5. ASSUME NEW a \in Auth, Opens(a) PROVE OneReport'
      BY <1>t, <2>5 DEF Opens, OneReport
    <2> QED BY <1>3, <2>1, <2>2, <2>3, <2>4, <2>5 DEF Caller
  <1>4. CASE Reader \/ Upstream
    BY <1>1, <1>4 DEF Reader, Upstream, UpstreamEnds, ReadFails, Register, Send,
       SendAbandoned, ReaderCloses, PipelineCloses, ReadLine, ScanEnds, Reading,
       calling, relays
  <1>5. CASE Quiet \/ Collect \/ Inspect \/ AfterContext \/ Leave
    BY <1>1, <1>5 DEF Quiet, Collect, Inspect, AfterContext, Leave, Watching,
       calling, relays
  <1>6. CASE Handler
    BY <1>1, <1>6 DEF Handler, Show, ShowEnd, ShowError, ShowFailure, NoticeGone,
       HandlerReturns, Handling, calling
  <1>7. CASE Convert \/ Wrap \/ Put("forward") \/ ForwardTakes
    <2>1. UNCHANGED <<reports, call>>
      BY <1>7 DEF Convert, Wrap, Put, ConvertTakes, ConvertEnds, WrapTakes, WrapFails,
         WrapEnds, ForwardTakes, Relaying, calling
    <2>2. at'["forward"] = "done" <=> at["forward"] = "done"
      BY <1>7, <1>t DEF Convert, Wrap, Put, ConvertTakes, ConvertEnds, WrapTakes,
         WrapFails, WrapEnds, ForwardTakes, Hold, Return, Arrived
    <2> QED BY <1>1, <2>1, <2>2
  <1>8. CASE ForwardAborts \/ ForwardEnds \/ ForwardInterrupted
    <2>1. call = "streaming" /\ at["forward"] # "done" /\ at'["forward"] = "done"
      BY <1>8, <1>t DEF ForwardAborts, ForwardEnds, ForwardInterrupted, Arrived,
         Drained, Interrupted, Return
    <2>2. Report(TRUE) \/ Report(~failed)
      BY <1>8 DEF ForwardAborts, ForwardEnds, ForwardInterrupted
    <2> QED BY <1>2, <1>t, <2>1, <2>2
  <1>9. CASE UNCHANGED vars
    BY <1>1, <1>9 DEF vars, calling, relays
  <1> QED
    BY <1>3, <1>4, <1>5, <1>6, <1>7, <1>8, <1>9 DEF Next, Forward

THEOREM BreakerHearsOnce == Spec => []OneReport
  <1>1. Init => Typed /\ OneReport
    BY InitTold DEF Told
  <1>2. Typed /\ OneReport /\ [Next]_vars => (Typed /\ OneReport)'
    BY NextTyped, OneReportKept
  <1> QED BY <1>1, <1>2, PTL DEF Spec

\* A step that leaves the channels before the forwarder alone.
LEMMA FlowElsewhere ==
  ASSUME Flow, UNCHANGED <<todo, sent, failed, marks>>,
         open' \subseteq open,
         UNCHANGED <<chan["pipe"], chan["mid"], hand["convert"]>>,
         at'["convert"] = "done" <=> at["convert"] = "done",
         at'["forward"] = "done" <=> at["forward"] = "done",
         at["forward"] = "done" => reports' = reports
  PROVE  Flow'
  BY DEF Flow, NoAbort, Accounted, Emptied, Verdict

\* A step of the reader changes at most what it has to send.
LEMMA FlowReads ==
  ASSUME Flow, UNCHANGED <<sent, chan, open, relays>>, ~Has(todo', {"abort"})
  PROVE  Flow'
  BY DEF Flow, NoAbort, Accounted, Emptied, Verdict, relays

LEMMA CallerFlows == Told /\ Flow /\ ~ctx /\ Caller => Flow'
  <1> SUFFICES ASSUME Told, Flow, ~ctx, Caller PROVE Flow'
    OBVIOUS
  <1>t. /\ call # "streaming" => at["forward"] = "off" /\ at["convert"] = "off"
        /\ "forward" \in Relay /\ "convert" \in Relay
    BY DEF Told, Typed, Placed, Relay
  <1>1. CASE Refuse \/ Allow
    BY <1>1, FlowElsewhere DEF Refuse, Allow, Unopened, reader
  <1>2. CASE PickFails
    BY <1>t, <1>2, FlowElsewhere DEF PickFails, Unopened, reader
  <1>3. ASSUME NEW a \in Auth, OpenFails(a) PROVE Flow'
    BY <1>3, FlowElsewhere DEF OpenFails, Unopened, reader
  <1>4. ASSUME NEW a \in Auth, OpenCanceled(a) PROVE Flow'
    BY <1>4 DEF OpenCanceled
  <1>5. ASSUME NEW a \in Auth, Opens(a) PROVE Flow'
    BY <1>t, <1>5, FlowElsewhere DEF Opens
  <1> QED BY <1>1, <1>2, <1>3, <1>4, <1>5 DEF Caller

LEMMA ReaderFlows == Told /\ Flow /\ ~ctx /\ (Reader \/ Upstream) => Flow'
  <1> SUFFICES ASSUME Told, Flow, ~ctx, Reader \/ Upstream PROVE Flow'
    OBVIOUS
  <1>1. CASE Register \/ ReaderCloses
    BY <1>1, FlowReads DEF Register, ReaderCloses, Reading, Flow, NoAbort
  <1>2. CASE PipelineCloses
    BY <1>2, FlowElsewhere DEF PipelineCloses, Reading, relays, reader
  <1>3. ASSUME NEW kind \in {"eof", "truncated", "broken"}, ScanEnds(kind)
        PROVE  Flow'
    <2>1. todo' = Closing(kind) \/ todo' = <<Only("error")>>
      BY <1>3 DEF ScanEnds, Deliver
    <2>2. ~Has(Closing(kind), {"abort"})
      BY ClosingTyped DEF Told, Typed
    <2>3. ~Has(<<Only("error")>>, {"abort"})
      BY DEF Has, Only
    <2>4. UNCHANGED <<sent, chan, open, relays>>
      BY <1>3 DEF ScanEnds, Reading
    <2> QED BY <2>1, <2>2, <2>3, <2>4, FlowReads
  <1>4. CASE ReadLine
    <2>1. todo' = <<Line(read + 1)>> \/ todo' = ProcessorFailed
      BY <1>4 DEF ReadLine, Deliver, ProcessorFailed
    <2>2. ~Has(<<Line(read + 1)>>, {"abort"}) /\ ~Has(ProcessorFailed, {"abort"})
      BY DEF Has, Line, Only, ProcessorFailed
    <2>3. UNCHANGED <<sent, chan, open, relays>>
      BY <1>4 DEF ReadLine, Reading
    <2> QED BY <2>1, <2>2, <2>3, FlowReads
  <1>5. CASE Send
    <2>1. /\ todo \in Seq(Chunk) /\ todo # <<>> /\ sent \in Seq(Chunk)
          /\ chan["pipe"] \in Seq(Chunk)
          /\ chan'["pipe"] = Append(chan["pipe"], Head(todo))
          /\ chan'["mid"] = chan["mid"]
          /\ sent' = Append(sent, Head(todo)) /\ todo' = Tail(todo)
          /\ UNCHANGED <<open, relays>>
      BY <1>5 DEF Send, Told, Typed, TypeOK, Placed, Channel, Reading
    <2>2. Head(todo) \in Chunk
      BY <2>1, HeadTailProperties
    <2>3. ~Has(todo', {"abort"}) /\ Head(todo).kind # "abort"
      BY <2>1, HasTail DEF Flow, NoAbort
    <2>4. \A kinds : Has(chan'["pipe"], kinds) <=>
                       Has(chan["pipe"], kinds) \/ Head(todo).kind \in kinds
      BY <2>1, <2>2, HasAppend
    <2>5. Has(sent', Fault) <=> Has(sent, Fault) \/ Head(todo).kind \in Fault
      BY <2>1, <2>2, HasAppend
    <2>6. at["convert"] # "done" /\ at["forward"] # "done"
      BY <1>5 DEF Send, Flow, Emptied, Told, Typed, Placed
    <2>7. NoAbort'
      BY <2>1, <2>3, <2>4 DEF Flow, NoAbort, relays
    <2>8. Accounted'
      BY <2>1, <2>4, <2>5 DEF Flow, Accounted, relays
    <2>9. Emptied' /\ Verdict'
      BY <2>1, <2>6 DEF Flow, Emptied, Verdict, relays
    <2> QED BY <2>7, <2>8, <2>9 DEF Flow
  <1>6. CASE SendAbandoned \/ (ctx /\ ScanEnds("canceled"))
    BY <1>6 DEF SendAbandoned
  <1> QED
    BY <1>1, <1>2, <1>3, <1>4, <1>5, <1>6 DEF Reader, Upstream, UpstreamEnds, ReadFails

LEMMA ConvertFlows == Told /\ Flow /\ ~ctx /\ Convert => Flow'
  <1> SUFFICES ASSUME Told, Flow, ~ctx, Convert PROVE Flow'
    OBVIOUS
  <1>t. /\ "convert" \in Relay /\ "forward" \in Relay
        /\ "pipe" \in Channel /\ "mid" \in Channel /\ "pipe" # "mid"
        /\ From["convert"] = "pipe" /\ To["convert"] = "mid"
        /\ at \in [Relay -> {"off", "recv", "send", "done"}]
        /\ hand \in [Relay -> Chunk \cup {NoChunk}]
        /\ chan \in [Channel -> Seq(Chunk)]
        /\ at["convert"] = "send" <=> hand["convert"] # NoChunk
        /\ TypeOK
    BY DEF Told, Typed, TypeOK, Placed, Relay, Channel, From, To
  <1>f. at["convert"] # "done" => at["forward"] # "done"
    BY DEF Flow, Emptied
  <1>1. CASE Put("convert")
    <2>1. /\ chan'["mid"] = Append(chan["mid"], hand["convert"])
          /\ chan'["pipe"] = chan["pipe"]
          /\ hand'["convert"] = NoChunk
          /\ at["convert"] = "send" /\ at'["convert"] = "recv"
          /\ at'["forward"] = at["forward"]
          /\ UNCHANGED <<todo, sent, open, failed, reports, marks>>
      BY <1>1, <1>t DEF Put, Relaying, reader
    <2>2. hand["convert"] \in Chunk
      BY <2>1, <1>t
    <2>3. \A kinds : Has(chan'["mid"], kinds) <=>
                       Has(chan["mid"], kinds) \/ hand["convert"].kind \in kinds
      BY <2>1, <2>2, <1>t, HasAppend
    <2>4. NoAbort'
      BY <2>1, <2>3 DEF Flow, NoAbort, NoChunk
    <2>5. Accounted'
      BY <2>1, <2>3 DEF Flow, Accounted, NoChunk, Fault
    <2>6. Emptied' /\ Verdict'
      BY <2>1, <1>f DEF Flow, Emptied, Verdict
    <2> QED BY <2>4, <2>5, <2>6 DEF Flow
  <1>2. CASE ConvertTakes
    <2>1. /\ at["convert"] = "recv" /\ at'["convert"] = "send"
          /\ at'["forward"] = at["forward"]
          /\ chan["pipe"] # <<>>
          /\ chan'["pipe"] = Tail(chan["pipe"]) /\ chan'["mid"] = chan["mid"]
          /\ hand'["convert"] = Head(chan["pipe"])
          /\ UNCHANGED <<todo, sent, open, failed, reports, marks>>
      BY <1>2, <1>t DEF ConvertTakes, Arrived, Arrival, Consume, Hold, Relaying, reader
    <2>2. \A kinds : Has(chan["pipe"], kinds) <=>
                       hand'["convert"].kind \in kinds \/ Has(chan'["pipe"], kinds)
      BY <2>1, <1>t, HasTail
    <2>3. hand["convert"].kind \notin Fault
      BY <2>1, <1>t DEF NoChunk, Fault
    <2>4. NoAbort'
      BY <2>1, <2>2 DEF Flow, NoAbort
    <2>5. Accounted'
      BY <2>1, <2>2, <2>3 DEF Flow, Accounted
    <2>6. Emptied' /\ Verdict'
      BY <2>1, <1>f DEF Flow, Emptied, Verdict
    <2> QED BY <2>4, <2>5, <2>6 DEF Flow
  <1>3. CASE ConvertEnds
    <2>1. /\ at["convert"] = "recv" /\ chan["pipe"] = <<>> /\ "pipe" \notin open
          /\ at'["convert"] = "done" /\ at'["forward"] = at["forward"]
          /\ hand["convert"] = NoChunk /\ hand'["convert"] = NoChunk
          /\ open' \subseteq open
          /\ UNCHANGED <<chan, todo, sent, failed, reports, marks>>
      BY <1>3, <1>t DEF ConvertEnds, Drained, Interrupted, Return, Relaying, reader
    <2> QED
      BY <2>1, <1>f DEF Flow, NoAbort, Accounted, Emptied, Verdict
  <1> QED BY <1>1, <1>2, <1>3 DEF Convert

LEMMA ForwardFlows == Told /\ Flow /\ ~ctx /\ Forward => Flow'
  <1> SUFFICES ASSUME Told, Flow, ~ctx, Forward PROVE Flow'
    OBVIOUS
  <1>t. /\ "convert" \in Relay /\ "forward" \in Relay
        /\ From["forward"] = "mid" /\ To["forward"] = "out"
        /\ {"pipe", "mid", "out"} \subseteq Channel
        /\ at \in [Relay -> {"off", "recv", "send", "done"}]
        /\ hand \in [Relay -> Chunk \cup {NoChunk}]
        /\ chan \in [Channel -> Seq(Chunk)]
        /\ failed \in BOOLEAN
    BY DEF Told, Typed, TypeOK, Relay, Channel, From, To
  <1>1. CASE Put("forward")
    BY <1>1, <1>t, FlowElsewhere DEF Put, Relaying, reader
  <1>2. CASE ForwardTakes
    <2>1. /\ at["forward"] = "recv" /\ at'["forward"] = "send"
          /\ at'["convert"] = at["convert"] /\ hand'["convert"] = hand["convert"]
          /\ chan["mid"] # <<>>
          /\ chan'["mid"] = Tail(chan["mid"]) /\ chan'["pipe"] = chan["pipe"]
          /\ UNCHANGED <<todo, sent, open, reports>>
      BY <1>2, <1>t DEF ForwardTakes, Arrived, Consume, Hold, Relaying, reader
    <2>2. \A kinds : Has(chan["mid"], kinds) <=>
                       Head(chan["mid"]).kind \in kinds \/ Has(chan'["mid"], kinds)
      BY <2>1, <1>t, HasTail
    <2>3. /\ failed' = (failed \/ Head(chan["mid"]).kind \in Fault)
          /\ marks' = IF failed' /\ ~failed THEN Append(marks, "failure") ELSE marks
      BY <1>2, <1>t DEF ForwardTakes, Arrival, IsError, Fault
    <2>4. NoAbort'
      BY <2>1, <2>2 DEF Flow, NoAbort
    <2>5. Accounted'
      BY <2>1, <2>2, <2>3 DEF Flow, Accounted
    <2>6. Emptied'
      BY <2>1 DEF Flow, Emptied
    <2>7. Verdict'
      <3>1. marks = IF failed THEN <<"failure">> ELSE <<>>
        BY <2>1 DEF Flow, Verdict
      <3>2. Append(<<>>, "failure") = <<"failure">>
        OBVIOUS
      <3>3. marks' = IF failed' THEN <<"failure">> ELSE <<>>
        BY <2>3, <3>1, <3>2, Zenon
      <3> QED BY <2>1, <3>3 DEF Verdict
    <2> QED BY <2>4, <2>5, <2>6, <2>7 DEF Flow
  <1>3. CASE ForwardAborts
    <2>1. chan["mid"] # <<>> /\ Head(chan["mid"]).kind = "abort"
      BY <1>3, <1>t DEF ForwardAborts, Arrived, Arrival
    <2> QED
      BY <2>1, <1>t, HasTail DEF Flow, NoAbort
  <1>4. CASE ForwardEnds
    <2>1. /\ at["forward"] = "recv" /\ at'["forward"] = "done"
          /\ at'["convert"] = at["convert"] /\ hand'["convert"] = hand["convert"]
          /\ chan["mid"] = <<>> /\ "mid" \notin open
          /\ open' \subseteq open
          /\ UNCHANGED <<chan, todo, sent, failed>>
          /\ reports' = Append(reports, ~failed)
          /\ marks' = IF failed THEN marks ELSE Append(marks, "success")
      BY <1>4, <1>t DEF ForwardEnds, Drained, Return, Report, Relaying, reader
    <2>2. at["convert"] = "done"
      BY <2>1, <1>t DEF Told, Typed, Placed, To
    <2>3. reports = <<>>
      <3>1. Len(reports) = 0
        BY <2>1, <1>t DEF Told, Typed, Placed, OneReport
      <3> QED
        BY <3>1, EmptySeq DEF Told, Typed, TypeOK
    <2>4. Verdict'
      <3>1. marks = IF failed THEN <<"failure">> ELSE <<>>
        BY <2>1 DEF Flow, Verdict
      <3>2. reports' = <<~failed>>
        BY <2>1, <2>3
      <3>3. Append(<<>>, "success") = <<"success">>
        OBVIOUS
      <3>4. marks' = <<IF failed THEN "failure" ELSE "success">>
        BY <2>1, <3>1, <3>3, Zenon
      <3> QED BY <2>1, <3>2, <3>4 DEF Verdict
    <2> QED
      BY <2>1, <2>2, <2>4 DEF Flow, NoAbort, Accounted, Emptied
  <1>5. CASE ForwardInterrupted
    BY <1>5 DEF ForwardInterrupted, Interrupted
  <1> QED BY <1>1, <1>2, <1>3, <1>4, <1>5 DEF Forward

LEMMA LaterFlows ==
  Told /\ Flow /\ ~ctx' /\ (Wrap \/ Handler \/ Quiet \/ Collect \/ Inspect
                            \/ AfterContext \/ Leave) => Flow'
  <1> SUFFICES ASSUME Told, Flow, ~ctx', Wrap \/ Handler \/ Quiet \/ Collect
                      \/ Inspect \/ AfterContext \/ Leave
               PROVE  Flow'
    OBVIOUS
  <1>t. /\ From["wrap"] = "out" /\ To["wrap"] = "data" /\ "wrap" \in Relay
        /\ {"pipe", "mid", "out", "data"} \subseteq Channel
        /\ {"forward", "convert"} \subseteq Relay
        /\ at \in [Relay -> {"off", "recv", "send", "done"}]
        /\ hand \in [Relay -> Chunk \cup {NoChunk}]
        /\ chan \in [Channel -> Seq(Chunk)]
    BY DEF Told, Typed, TypeOK, Relay, Channel, From, To
  <1>1. CASE Wrap
    <2>1. UNCHANGED <<todo, sent, failed, marks, reports>>
      BY <1>1 DEF Wrap, Put, WrapTakes, WrapFails, WrapEnds, Relaying, reader
    <2>2. open' \subseteq open
      BY <1>1 DEF Wrap, Put, WrapTakes, WrapFails, WrapEnds, Return
    <2>3. chan'["pipe"] = chan["pipe"] /\ chan'["mid"] = chan["mid"]
      BY <1>1, <1>t DEF Wrap, Put, WrapTakes, WrapFails, WrapEnds, Consume
    <2>4. /\ hand'["convert"] = hand["convert"] /\ at'["convert"] = at["convert"]
          /\ at'["forward"] = at["forward"]
      BY <1>1, <1>t DEF Wrap, Put, WrapTakes, WrapFails, WrapEnds, Hold, Return
    <2> QED BY <2>1, <2>2, <2>3, <2>4, FlowElsewhere
  <1>2. CASE Handler
    <2>1. Show
      BY <1>2 DEF Handler, ShowEnd, ShowError, ShowFailure, NoticeGone, HandlerReturns
    <2> QED
      BY <2>1, <1>t, FlowElsewhere DEF Show, Handling, reader
  <1>3. CASE Quiet \/ Collect \/ Inspect \/ AfterContext \/ Leave
    BY <1>3, FlowElsewhere DEF Quiet, Collect, Inspect, AfterContext, Leave,
       Watching, reader, relays
  <1> QED BY <1>1, <1>2, <1>3

\* The end of the context is for good.
LEMMA ContextEndsOnce == [Next]_vars /\ ctx => ctx'
  <1> SUFFICES ASSUME [Next]_vars, ctx PROVE ctx'
    OBVIOUS
  <1>1. CASE Caller
    BY <1>1 DEF Caller, Refuse, Allow, PickFails, OpenFails, OpenCanceled, Opens, Unopened
  <1>2. CASE Reader \/ Upstream
    BY <1>2 DEF Reader, Upstream, UpstreamEnds, ReadFails, Register, Send,
       SendAbandoned, ReaderCloses, PipelineCloses, ReadLine, ScanEnds, Reading
  <1>3. CASE Convert \/ Forward \/ Wrap
    BY <1>3 DEF Convert, Forward, Wrap, Put, ConvertTakes, ConvertEnds, ForwardTakes,
       ForwardAborts, ForwardEnds, ForwardInterrupted, WrapTakes, WrapFails, WrapEnds,
       Relaying
  <1>4. CASE Handler
    BY <1>4 DEF Handler, Show, ShowEnd, ShowError, ShowFailure, NoticeGone, HandlerReturns
  <1>5. CASE Quiet \/ Collect \/ Inspect \/ AfterContext \/ Leave \/ UNCHANGED vars
    BY <1>5 DEF Quiet, Collect, Inspect, AfterContext, Leave, Watching, vars
  <1> QED BY <1>1, <1>2, <1>3, <1>4, <1>5 DEF Next

LEMMA NextTold == Told /\ [Next]_vars => Told'
  <1> SUFFICES ASSUME Told, [Next]_vars PROVE Told'
    OBVIOUS
  <1>1. Typed' /\ OneReport'
    BY NextTyped, OneReportKept DEF Told
  <1>2. ASSUME ~ctx' PROVE Flow'
    <2>1. ~ctx
      BY <1>2, ContextEndsOnce
    <2>2. Flow
      BY <2>1 DEF Told
    <2>3. CASE UNCHANGED vars
      BY <2>2, <2>3, FlowElsewhere DEF vars, reader, relays
    <2>4. CASE Next
      BY <1>2, <2>1, <2>2, <2>4, CallerFlows, ReaderFlows, ConvertFlows, ForwardFlows,
         LaterFlows DEF Next
    <2> QED BY <2>3, <2>4
  <1> QED BY <1>1, <1>2 DEF Told

\* Unless the context has ended, the breaker and the credential hear of a failure
\* exactly if the reader sent an error, however many lines the stream has and
\* however deep the channels are.
THEOREM VerdictHonest == Spec => []HonestReport
  <1>1. ASSUME Told PROVE HonestReport
    <2> DEFINE erred == \E i \in DOMAIN sent : IsError(sent[i])
    <2> SUFFICES ASSUME call = "streaming", reports # <<>>, ~ctx
                 PROVE  /\ reports = <<~erred>>
                        /\ marks = <<IF erred THEN "failure" ELSE "success">>
      BY Zenon DEF HonestReport
    <2>1. at["forward"] = "done"
      <3>1. Len(reports) # 0
        BY <1>1, EmptySeq DEF Told, Typed, TypeOK
      <3> QED
        BY <1>1, <3>1 DEF Told, OneReport
    <2>2. Flow
      BY <1>1 DEF Told
    <2>3. /\ at["convert"] = "done" /\ chan["pipe"] = <<>> /\ chan["mid"] = <<>>
          /\ reports = <<~failed>> /\ marks = <<IF failed THEN "failure" ELSE "success">>
      BY <2>1, <2>2 DEF Flow, Emptied, Verdict
    <2>4. hand["convert"].kind \notin Fault
      BY <1>1, <2>3 DEF Told, Typed, Placed, Relay, NoChunk, Fault
    <2>5. Has(sent, Fault) <=> failed
      BY <2>2, <2>3, <2>4, HasNothing DEF Flow, Accounted
    <2>6. Has(sent, Fault) <=> erred
      BY DEF Has, Fault, IsError
    <2>7. failed \in BOOLEAN
      BY <1>1 DEF Told, Typed, TypeOK
    <2>8. failed = erred
      BY <2>5, <2>6, <2>7
    <2> QED BY <2>3, <2>8
  <1>2. Init => Told
    BY InitTold
  <1> QED BY <1>1, <1>2, NextTold, PTL DEF Spec

-----------------------------------------------------------------------------
(* The answer                                                              *)

\* s is how t begins.
Begins(s, t) == \E r \in Seq(Chunk) : t = s \o r

\* What has got as far as a goroutine: what the client was shown, then what is
\* in the last channel, in the wrapper's hand, in the channel before it, and so
\* on up to the reader.
Held(g) == IF hand[g] = NoChunk THEN <<>> ELSE <<hand[g]>>
Given == shown \o chan["data"]
Wrapped == (Given \o Held("wrap")) \o chan["out"]
Forwarded == (Wrapped \o Held("forward")) \o chan["mid"]
Converted == (Forwarded \o Held("convert")) \o chan["pipe"]

\* Nothing is lost between goroutines that run; one that has returned, for
\* whatever reason, leaves a hole that nothing passes any more.
Course ==
  /\ Begins(Given, sent)
  /\ at["wrap"] # "done" =>
       /\ Begins(Wrapped, sent)
       /\ at["forward"] # "done" =>
            /\ Begins(Forwarded, sent)
            /\ at["convert"] # "done" => Converted = sent

Closed == rd \in {"close", "done"}

\* An error is the last chunk of the reader.
ErrorsLast ==
  /\ \A i \in DOMAIN sent : IsError(sent[i]) => i = Len(sent) /\ Closed
  /\ \A i \in DOMAIN todo : IsError(todo[i]) => i = Len(todo) /\ next = "close"

\* The wrapper keeps errors from the handler's data.
Clean ==
  /\ ~Has(shown, Fault) /\ ~Has(chan["data"], Fault)
  /\ hand["wrap"].kind \notin Fault

AllOf(s) == s = sent \/ \E e \in Chunk : IsError(e) /\ sent = Append(s, e)

\* Until the context ends every chunk is under way, and a wrapper that has
\* returned has passed on all of them.
Arriving ==
  /\ at["wrap"] # "done" => Converted = sent
  /\ at["wrap"] = "done" => Closed /\ AllOf(Given)

\* The context outlives neither the handler nor the client, and a handler that
\* has shown the end has shown everything.
Ending ==
  /\ client = "waiting" /\ ~gone => ~ctx
  /\ client = "end" /\ ~gone => Closed /\ AllOf(shown)

Whole == Course /\ ErrorsLast /\ Clean /\ (~ctx => Arriving) /\ Ending

(* Sequences of chunks                                                     *)

LEMMA PutOn ==
  ASSUME NEW x \in Seq(Chunk), NEW c \in Seq(Chunk), NEW m \in Seq(Chunk), NEW h \in Chunk
  PROVE  /\ x \o Append(c, h) = (x \o c) \o <<h>>
         /\ ((x \o Append(c, h)) \o <<>>) \o m = ((x \o c) \o <<h>>) \o m
  <1>1. <<h>> \in Seq(Chunk)
    OBVIOUS
  <1>2. Append(c, h) = c \o <<h>>
    BY AppendIsConcat
  <1>3. x \o (c \o <<h>>) = (x \o c) \o <<h>>
    BY <1>1, ConcatAssociative
  <1>4. (x \o Append(c, h)) \o <<>> = x \o Append(c, h)
    <2>1. Append(c, h) \in Seq(Chunk)
      BY AppendProperties
    <2>2. x \o Append(c, h) \in Seq(Chunk)
      BY <2>1, ConcatProperties
    <2> QED BY <2>2, ConcatEmptySeq
  <1> QED BY <1>2, <1>3, <1>4

LEMMA TakeOff ==
  ASSUME NEW x \in Seq(Chunk), NEW c \in Seq(Chunk), c # <<>>
  PROVE  /\ x \o c = (x \o <<Head(c)>>) \o Tail(c)
         /\ (x \o <<>>) \o c = (x \o <<Head(c)>>) \o Tail(c)
  <1>1. Head(c) \in Chunk /\ Tail(c) \in Seq(Chunk)
    BY HeadTailProperties
  <1>2. <<Head(c)>> \in Seq(Chunk)
    BY <1>1
  <1>3. c = <<Head(c)>> \o Tail(c)
    <2> DEFINE one == <<Head(c)>>
               rest == Tail(c)
    <2>1. one \in Seq(Chunk) /\ Len(one) = 1 /\ one[1] = Head(c)
      BY <1>2
    <2>2. /\ rest \in Seq(Chunk) /\ Len(rest) = Len(c) - 1
          /\ \A i \in 1..Len(rest) : rest[i] = c[i + 1]
      BY HeadTailProperties
    <2>3. Head(c) = c[1] /\ Len(c) \in Nat
      OBVIOUS
    <2> HIDE DEF one, rest
    <2>4. /\ one \o rest \in Seq(Chunk) /\ Len(one \o rest) = Len(one) + Len(rest)
          /\ \A i \in 1..(Len(one) + Len(rest)) :
               (one \o rest)[i] = IF i <= Len(one) THEN one[i] ELSE rest[i - Len(one)]
      <3>1. one \in Seq(Chunk) /\ rest \in Seq(Chunk)
        BY <2>1, <2>2
      <3> QED BY <3>1, ConcatProperties
    <2>5. ASSUME NEW i \in 1..Len(c) PROVE c[i] = (one \o rest)[i]
      <3>1. CASE i = 1
        <4>1. i \in 1..(Len(one) + Len(rest)) /\ i <= Len(one)
          BY <2>1, <2>2, <2>3, <3>1
        <4>2. (one \o rest)[i] = one[i]
          BY <2>4, <4>1
        <4> QED BY <2>1, <2>3, <3>1, <4>2
      <3>2. CASE i # 1
        <4>1. i - 1 \in 1..Len(rest) /\ (i - 1) + 1 = i
          BY <2>2, <2>3, <3>2
        <4>2. i \in 1..(Len(one) + Len(rest)) /\ ~(i <= Len(one)) /\ i - Len(one) = i - 1
          BY <2>1, <2>2, <2>3, <3>2
        <4>3. (one \o rest)[i] = rest[i - Len(one)]
          BY <2>4, <4>2
        <4> QED BY <2>2, <4>1, <4>2, <4>3
      <3> QED BY <3>1, <3>2
    <2>6. Len(c) = Len(one \o rest)
      BY <2>1, <2>2, <2>3, <2>4
    <2>7. c = one \o rest
      <3> DEFINE both == one \o rest
      <3>1. both \in Seq(Chunk) /\ Len(c) = Len(both)
            /\ \A i \in 1..Len(c) : c[i] = both[i]
        BY <2>4, <2>5, <2>6
      <3> HIDE DEF both
      <3>2. c = both
        BY <3>1, SeqEqual
      <3> QED BY <3>2 DEF both
    <2> QED BY <2>7 DEF one, rest
  <1>4. x \o (<<Head(c)>> \o Tail(c)) = (x \o <<Head(c)>>) \o Tail(c)
    BY <1>1, <1>2, ConcatAssociative
  <1>5. x \o <<>> = x
    BY ConcatEmptySeq
  <1> QED BY <1>3, <1>4, <1>5

LEMMA BeginsShorter ==
  ASSUME NEW x \in Seq(Chunk), NEW y \in Seq(Chunk), NEW t, Begins(x \o y, t)
  PROVE  Begins(x, t)
  <1>1. PICK r \in Seq(Chunk) : t = (x \o y) \o r
    BY DEF Begins
  <1>2. t = x \o (y \o r) /\ y \o r \in Seq(Chunk)
    <2>1. y \o r \in Seq(Chunk)
      BY ConcatProperties
    <2>2. (x \o y) \o r = x \o (y \o r)
      BY ConcatAssociative
    <2> QED BY <1>1, <2>1, <2>2
  <1> QED BY <1>2 DEF Begins

LEMMA BeginsLonger ==
  ASSUME NEW x \in Seq(Chunk), NEW t \in Seq(Chunk), NEW h \in Chunk, Begins(x, t)
  PROVE  Begins(x, Append(t, h))
  <1>1. PICK r \in Seq(Chunk) : t = x \o r
    BY DEF Begins
  <1>2. Append(t, h) = (x \o r) \o <<h>> /\ <<h>> \in Seq(Chunk)
    BY <1>1, AppendIsConcat
  <1>3. Append(t, h) = x \o (r \o <<h>>) /\ r \o <<h>> \in Seq(Chunk)
    BY <1>2, ConcatAssociative, ConcatProperties
  <1> QED BY <1>3 DEF Begins

LEMMA BeginsItself == ASSUME NEW t \in Seq(Chunk) PROVE Begins(t, t)
  BY ConcatEmptySeq, EmptySeq DEF Begins

LEMMA Streams ==
  ASSUME TypeOK
  PROVE  /\ \A g \in Relay : Held(g) \in Seq(Chunk)
         /\ Given \in Seq(Chunk) /\ Wrapped \in Seq(Chunk)
         /\ Forwarded \in Seq(Chunk) /\ Converted \in Seq(Chunk)
         /\ Given \o Held("wrap") \in Seq(Chunk)
         /\ Wrapped \o Held("forward") \in Seq(Chunk)
         /\ Forwarded \o Held("convert") \in Seq(Chunk)
         /\ \A c \in Channel : chan[c] \in Seq(Chunk)
         /\ sent \in Seq(Chunk) /\ shown \in Seq(Chunk)
  <1>1. /\ \A c \in Channel : chan[c] \in Seq(Chunk)
        /\ sent \in Seq(Chunk) /\ shown \in Seq(Chunk)
    BY DEF TypeOK
  <1>2. ASSUME NEW g \in Relay PROVE Held(g) \in Seq(Chunk)
    <2>1. hand[g] = NoChunk \/ hand[g] \in Chunk
      BY DEF TypeOK
    <2> QED BY <2>1 DEF Held
  <1>3. {"wrap", "forward", "convert"} \subseteq Relay
        /\ {"data", "out", "mid", "pipe"} \subseteq Channel
    BY DEF Relay, Channel
  <1>4. Given \in Seq(Chunk)
    BY <1>1, <1>3, ConcatProperties DEF Given
  <1>5. Given \o Held("wrap") \in Seq(Chunk)
    BY <1>2, <1>3, <1>4, ConcatProperties
  <1>6. Wrapped \in Seq(Chunk)
    BY <1>1, <1>3, <1>5, ConcatProperties DEF Wrapped
  <1>7. Wrapped \o Held("forward") \in Seq(Chunk)
    BY <1>2, <1>3, <1>6, ConcatProperties
  <1>8. Forwarded \in Seq(Chunk)
    BY <1>1, <1>3, <1>7, ConcatProperties DEF Forwarded
  <1>9. Forwarded \o Held("convert") \in Seq(Chunk)
    BY <1>2, <1>3, <1>8, ConcatProperties
  <1>10. Converted \in Seq(Chunk)
    BY <1>1, <1>3, <1>9, ConcatProperties DEF Converted
  <1> QED
    BY <1>1, <1>2, <1>4, <1>5, <1>6, <1>7, <1>8, <1>9, <1>10

(* How chunks move                                                         *)

LEMMA Unmoved ==
  ASSUME UNCHANGED <<shown, chan, hand>>
  PROVE  /\ Given' = Given /\ Wrapped' = Wrapped
         /\ Forwarded' = Forwarded /\ Converted' = Converted
  <1>1. Given' = Given
    BY DEF Given
  <1>2. \A g \in Relay : Held(g)' = Held(g)
    BY DEF Held
  <1>3. {"wrap", "forward", "convert"} \subseteq Relay
    BY DEF Relay
  <1>4. Wrapped' = Wrapped
    BY <1>1, <1>2, <1>3 DEF Wrapped
  <1>5. Forwarded' = Forwarded
    BY <1>2, <1>3, <1>4 DEF Forwarded
  <1> QED BY <1>1, <1>2, <1>3, <1>4, <1>5 DEF Converted

LEMMA CourseElsewhere ==
  ASSUME Course, UNCHANGED <<shown, chan, hand, sent>>,
         \A g \in Relay : at[g] = "done" => at'[g] = "done"
  PROVE  Course'
  BY Unmoved DEF Course, Relay

\* A chunk that leaves the wrapper's, the forwarder's or the converter's hand.
LEMMA PutMoves ==
  ASSUME Typed, Course, NEW g \in Relay, Put(g)
  PROVE  /\ Course' /\ Converted' = Converted
         /\ at["wrap"] = "done" => at'["wrap"] = "done" /\ Given' = Given
         /\ at["wrap"] # "done" => at'["wrap"] # "done"
  <1> DEFINE h == hand[g]
  <1>t. /\ at \in [Relay -> {"off", "recv", "send", "done"}]
        /\ hand \in [Relay -> Chunk \cup {NoChunk}]
        /\ chan \in [Channel -> Seq(Chunk)]
        /\ {"wrap", "forward", "convert"} \subseteq Relay
        /\ {"data", "out", "mid", "pipe"} \subseteq Channel
        /\ To["wrap"] = "data" /\ To["forward"] = "out" /\ To["convert"] = "mid"
        /\ Relay = {"wrap", "forward", "convert"}
    BY DEF Typed, TypeOK, Relay, Channel, To
  <1>h. /\ h \in Chunk /\ Held(g) = <<h>> /\ Held(g)' = <<>>
        /\ \A k \in Relay : k # g => Held(k)' = Held(k)
        /\ at[g] = "send" /\ at' = [at EXCEPT ![g] = "recv"]
        /\ chan' = [chan EXCEPT ![To[g]] = Append(@, h)]
        /\ shown' = shown /\ sent' = sent
    <2>1. at[g] = "send" /\ hand[g] # NoChunk /\ hand' = [hand EXCEPT ![g] = NoChunk]
      BY DEF Put, Typed, Placed
    <2>2. hand'[g] = NoChunk /\ \A k \in Relay : k # g => hand'[k] = hand[k]
      BY <2>1, <1>t
    <2> QED
      BY <1>t, <2>1, <2>2 DEF Put, Held, Relaying, handler, reader
  <1>o. /\ at'["wrap"] = "done" <=> at["wrap"] = "done"
        /\ at'["forward"] = "done" <=> at["forward"] = "done"
        /\ at'["convert"] = "done" <=> at["convert"] = "done"
    BY <1>t, <1>h
  <1>s. /\ \A k \in Relay : Held(k) \in Seq(Chunk)
        /\ Given \in Seq(Chunk) /\ Wrapped \in Seq(Chunk) /\ Forwarded \in Seq(Chunk)
        /\ Given \o Held("wrap") \in Seq(Chunk)
        /\ Wrapped \o Held("forward") \in Seq(Chunk)
        /\ Forwarded \o Held("convert") \in Seq(Chunk)
        /\ \A c \in Channel : chan[c] \in Seq(Chunk)
        /\ shown \in Seq(Chunk) /\ sent \in Seq(Chunk) /\ <<h>> \in Seq(Chunk)
    BY <1>h, Streams DEF Typed
  <1> HIDE DEF h
  <1>1. CASE g = "wrap"
    <2>1. /\ chan'["data"] = Append(chan["data"], h) /\ chan'["out"] = chan["out"]
          /\ chan'["mid"] = chan["mid"] /\ chan'["pipe"] = chan["pipe"]
      BY <1>1, <1>h, <1>t
    <2>p. /\ shown \o Append(chan["data"], h) = (shown \o chan["data"]) \o <<h>>
          /\ ((shown \o Append(chan["data"], h)) \o <<>>) \o chan["out"]
               = ((shown \o chan["data"]) \o <<h>>) \o chan["out"]
      <3>1. h \in Chunk /\ shown \in Seq(Chunk)
            /\ chan["data"] \in Seq(Chunk) /\ chan["out"] \in Seq(Chunk)
        BY <1>h, <1>s, <1>t
      <3> QED BY <3>1, PutOn
    <2>2. Given' = Given \o <<h>>
      BY <2>1, <2>p, <1>h DEF Given
    <2>3. Wrapped' = (Given \o <<h>>) \o chan["out"] /\ Wrapped' = Wrapped
      <3>1. Wrapped' = ((shown \o Append(chan["data"], h)) \o <<>>) \o chan["out"]
        BY <1>1, <1>h, <2>1 DEF Wrapped, Given
      <3>2. Wrapped' = ((shown \o chan["data"]) \o <<h>>) \o chan["out"]
        BY <3>1, <2>p
      <3> QED BY <1>1, <1>h, <3>2 DEF Wrapped, Given
    <2>4. Forwarded' = Forwarded
      BY <1>1, <1>h, <1>t, <2>1, <2>3 DEF Forwarded
    <2>5. Converted' = Converted
      BY <1>1, <1>h, <1>t, <2>1, <2>4 DEF Converted
    <2>6. Begins(Given', sent)
      <3>1. Begins((Given \o <<h>>) \o chan["out"], sent)
        BY <1>1, <1>h, <2>3 DEF Course
      <3>2. Given \o <<h>> \in Seq(Chunk)
        BY <1>s, ConcatProperties
      <3> QED BY <1>s, <1>t, <2>2, <3>1, <3>2, BeginsShorter
    <2>7. Course'
      BY <1>o, <1>h, <2>3, <2>4, <2>5, <2>6 DEF Course
    <2> QED BY <1>1, <1>h, <1>o, <2>5, <2>7
  <1>2. CASE g = "forward"
    <2>1. /\ chan'["data"] = chan["data"] /\ chan'["out"] = Append(chan["out"], h)
          /\ chan'["mid"] = chan["mid"] /\ chan'["pipe"] = chan["pipe"]
      BY <1>2, <1>h, <1>t
    <2>2. Given' = Given /\ Held("wrap")' = Held("wrap")
      BY <1>2, <2>1, <1>h, <1>t DEF Given
    <2>p. /\ (Given \o Held("wrap")) \o Append(chan["out"], h)
               = ((Given \o Held("wrap")) \o chan["out"]) \o <<h>>
          /\ (((Given \o Held("wrap")) \o Append(chan["out"], h)) \o <<>>) \o chan["mid"]
               = (((Given \o Held("wrap")) \o chan["out"]) \o <<h>>) \o chan["mid"]
      <3>1. h \in Chunk /\ Given \o Held("wrap") \in Seq(Chunk)
            /\ chan["out"] \in Seq(Chunk) /\ chan["mid"] \in Seq(Chunk)
        BY <1>h, <1>s, <1>t
      <3> QED BY <3>1, PutOn
    <2>3. Wrapped' = Wrapped \o <<h>>
      BY <2>1, <2>2, <2>p DEF Wrapped
    <2>4. Forwarded' = (Wrapped \o <<h>>) \o chan["mid"] /\ Forwarded' = Forwarded
      <3>1. Forwarded' = (((Given \o Held("wrap")) \o Append(chan["out"], h)) \o <<>>)
                           \o chan["mid"]
        BY <1>2, <1>h, <2>1, <2>2 DEF Forwarded, Wrapped
      <3>2. Forwarded' = (((Given \o Held("wrap")) \o chan["out"]) \o <<h>>) \o chan["mid"]
        BY <3>1, <2>p
      <3> QED BY <1>2, <1>h, <3>2 DEF Forwarded, Wrapped
    <2>5. Converted' = Converted
      BY <1>2, <1>h, <1>t, <2>1, <2>4 DEF Converted
    <2>6. at["wrap"] # "done" => Begins(Wrapped', sent)
      <3>1. Wrapped \o <<h>> \in Seq(Chunk)
        BY <1>s, ConcatProperties
      <3>2. at["wrap"] # "done" => Begins((Wrapped \o <<h>>) \o chan["mid"], sent)
        BY <1>2, <1>h, <2>4 DEF Course
      <3> QED BY <1>s, <1>t, <2>3, <3>1, <3>2, BeginsShorter
    <2>7. Course'
      BY <1>o, <1>h, <2>2, <2>4, <2>5, <2>6 DEF Course
    <2> QED BY <1>2, <1>h, <1>o, <2>2, <2>5, <2>7
  <1>3. CASE g = "convert"
    <2>1. /\ chan'["data"] = chan["data"] /\ chan'["out"] = chan["out"]
          /\ chan'["mid"] = Append(chan["mid"], h) /\ chan'["pipe"] = chan["pipe"]
      BY <1>3, <1>h, <1>t
    <2>2. Given' = Given /\ Wrapped' = Wrapped /\ Held("forward")' = Held("forward")
      BY <1>3, <2>1, <1>h, <1>t DEF Given, Wrapped
    <2>p. /\ (Wrapped \o Held("forward")) \o Append(chan["mid"], h)
               = ((Wrapped \o Held("forward")) \o chan["mid"]) \o <<h>>
          /\ (((Wrapped \o Held("forward")) \o Append(chan["mid"], h)) \o <<>>) \o chan["pipe"]
               = (((Wrapped \o Held("forward")) \o chan["mid"]) \o <<h>>) \o chan["pipe"]
      <3>1. h \in Chunk /\ Wrapped \o Held("forward") \in Seq(Chunk)
            /\ chan["mid"] \in Seq(Chunk) /\ chan["pipe"] \in Seq(Chunk)
        BY <1>h, <1>s, <1>t
      <3> QED BY <3>1, PutOn
    <2>3. Forwarded' = Forwarded \o <<h>>
      BY <2>1, <2>2, <2>p DEF Forwarded
    <2>4. Converted' = (Forwarded \o <<h>>) \o chan["pipe"] /\ Converted' = Converted
      <3>1. Converted' = (((Wrapped \o Held("forward")) \o Append(chan["mid"], h)) \o <<>>)
                           \o chan["pipe"]
        BY <1>3, <1>h, <2>1, <2>2 DEF Converted, Forwarded
      <3>2. Converted' = (((Wrapped \o Held("forward")) \o chan["mid"]) \o <<h>>)
                           \o chan["pipe"]
        BY <3>1, <2>p
      <3> QED BY <1>3, <1>h, <3>2 DEF Converted, Forwarded
    <2>6. at["wrap"] # "done" /\ at["forward"] # "done" => Begins(Forwarded', sent)
      <3>1. Forwarded \o <<h>> \in Seq(Chunk)
        BY <1>s, ConcatProperties
      <3>2. at["wrap"] # "done" /\ at["forward"] # "done"
              => Begins((Forwarded \o <<h>>) \o chan["pipe"], sent)
        BY <1>3, <1>h, <1>s, <2>4, BeginsItself DEF Course
      <3> QED BY <1>s, <1>t, <2>3, <3>1, <3>2, BeginsShorter
    <2>7. Course'
      BY <1>o, <1>h, <2>2, <2>4, <2>6 DEF Course
    <2> QED BY <1>3, <1>h, <1>o, <2>2, <2>4, <2>7
  <1> QED BY <1>1, <1>2, <1>3, <1>t

\* A chunk that a goroutine takes from its channel.
LEMMA TakeMoves ==
  ASSUME Typed, Course, NEW g \in Relay, Arrived(g), Consume(g), Hold(g, Arrival(g)),
         UNCHANGED <<shown, sent>>
  PROVE  /\ Course' /\ Converted' = Converted /\ Given' = Given
         /\ at["wrap"] = "done" <=> at'["wrap"] = "done"
  <1> DEFINE h == Arrival(g)
  <1>t. /\ at \in [Relay -> {"off", "recv", "send", "done"}]
        /\ hand \in [Relay -> Chunk \cup {NoChunk}]
        /\ chan \in [Channel -> Seq(Chunk)]
        /\ {"wrap", "forward", "convert"} \subseteq Relay
        /\ {"data", "out", "mid", "pipe"} \subseteq Channel
        /\ From["wrap"] = "out" /\ From["forward"] = "mid" /\ From["convert"] = "pipe"
        /\ Relay = {"wrap", "forward", "convert"}
    BY DEF Typed, TypeOK, Relay, Channel, From
  <1>h. /\ h = Head(chan[From[g]]) /\ chan[From[g]] # <<>>
        /\ chan' = [chan EXCEPT ![From[g]] = Tail(@)]
        /\ Held(g) = <<>> /\ Held(g)' = <<h>>
        /\ \A k \in Relay : k # g => Held(k)' = Held(k)
        /\ at[g] = "recv" /\ at' = [at EXCEPT ![g] = "send"]
    <2>1. hand[g] = NoChunk /\ h \in Chunk /\ h # NoChunk
      BY ChannelsTyped, Chunks DEF Arrived, Typed, Placed
    <2>2. hand'[g] = h /\ \A k \in Relay : k # g => hand'[k] = hand[k]
      BY <1>t DEF Hold
    <2> QED BY <2>1, <2>2 DEF Held, Arrived, Arrival, Consume, Hold
  <1>o. /\ at'["wrap"] = "done" <=> at["wrap"] = "done"
        /\ at'["forward"] = "done" <=> at["forward"] = "done"
        /\ at'["convert"] = "done" <=> at["convert"] = "done"
    BY <1>t, <1>h
  <1>s. /\ Given \in Seq(Chunk) /\ Wrapped \in Seq(Chunk) /\ Forwarded \in Seq(Chunk)
        /\ \A c \in Channel : chan[c] \in Seq(Chunk)
    BY Streams DEF Typed
  <1> HIDE DEF h
  <1>1. CASE g = "wrap"
    <2>1. /\ chan'["data"] = chan["data"] /\ chan'["out"] = Tail(chan["out"])
          /\ chan'["mid"] = chan["mid"] /\ chan'["pipe"] = chan["pipe"]
      BY <1>1, <1>h, <1>t
    <2>2. Given' = Given
      BY <2>1 DEF Given
    <2>3. Wrapped' = Wrapped
      <3>1. Wrapped' = (Given \o <<Head(chan["out"])>>) \o Tail(chan["out"])
        BY <1>1, <1>h, <1>t, <2>1, <2>2 DEF Wrapped
      <3>2. Wrapped = (Given \o <<>>) \o chan["out"] /\ chan["out"] # <<>>
        BY <1>1, <1>h, <1>t DEF Wrapped
      <3> QED BY <1>s, <1>t, <3>1, <3>2, TakeOff
    <2>4. Forwarded' = Forwarded
      BY <1>1, <1>h, <1>t, <2>1, <2>3 DEF Forwarded
    <2>5. Converted' = Converted
      BY <1>1, <1>h, <1>t, <2>1, <2>4 DEF Converted
    <2> QED BY <1>o, <2>2, <2>3, <2>4, <2>5 DEF Course
  <1>2. CASE g = "forward"
    <2>1. /\ chan'["data"] = chan["data"] /\ chan'["out"] = chan["out"]
          /\ chan'["mid"] = Tail(chan["mid"]) /\ chan'["pipe"] = chan["pipe"]
      BY <1>2, <1>h, <1>t
    <2>2. Given' = Given /\ Wrapped' = Wrapped
      BY <1>2, <1>h, <1>t, <2>1 DEF Given, Wrapped
    <2>3. Forwarded' = Forwarded
      <3>1. Forwarded' = (Wrapped \o <<Head(chan["mid"])>>) \o Tail(chan["mid"])
        BY <1>2, <1>h, <1>t, <2>1, <2>2 DEF Forwarded
      <3>2. Forwarded = (Wrapped \o <<>>) \o chan["mid"] /\ chan["mid"] # <<>>
        BY <1>2, <1>h, <1>t DEF Forwarded
      <3> QED BY <1>s, <1>t, <3>1, <3>2, TakeOff
    <2>5. Converted' = Converted
      BY <1>2, <1>h, <1>t, <2>1, <2>3 DEF Converted
    <2> QED BY <1>o, <2>2, <2>3, <2>5 DEF Course
  <1>3. CASE g = "convert"
    <2>1. /\ chan'["data"] = chan["data"] /\ chan'["out"] = chan["out"]
          /\ chan'["mid"] = chan["mid"] /\ chan'["pipe"] = Tail(chan["pipe"])
      BY <1>3, <1>h, <1>t
    <2>2. Given' = Given /\ Wrapped' = Wrapped
      BY <1>3, <1>h, <1>t, <2>1 DEF Given, Wrapped
    <2>4. Forwarded' = Forwarded
      BY <1>3, <1>h, <1>t, <2>1, <2>2 DEF Forwarded
    <2>3. Converted' = Converted
      <3>1. Converted' = (Forwarded \o <<Head(chan["pipe"])>>) \o Tail(chan["pipe"])
        BY <1>3, <1>h, <1>t, <2>1, <2>4 DEF Converted
      <3>2. Converted = (Forwarded \o <<>>) \o chan["pipe"] /\ chan["pipe"] # <<>>
        BY <1>3, <1>h, <1>t DEF Converted
      <3> QED BY <1>s, <1>t, <3>1, <3>2, TakeOff
    <2> QED BY <1>o, <2>2, <2>3, <2>4 DEF Course
  <1> QED BY <1>1, <1>2, <1>3, <1>t

\* A goroutine that returns, with or without having taken a chunk.
LEMMA EndMoves ==
  ASSUME Typed, Course, NEW g \in Relay, Return(g), UNCHANGED chan \/ Consume(g),
         UNCHANGED <<shown, sent>>
  PROVE  Course' /\ Given' = Given
  <1>t. /\ at \in [Relay -> {"off", "recv", "send", "done"}]
        /\ hand \in [Relay -> Chunk \cup {NoChunk}]
        /\ chan \in [Channel -> Seq(Chunk)]
        /\ {"data", "out", "mid", "pipe"} \subseteq Channel
        /\ From["wrap"] = "out" /\ From["forward"] = "mid" /\ From["convert"] = "pipe"
        /\ Relay = {"wrap", "forward", "convert"}
    BY DEF Typed, TypeOK, Relay, Channel, From
  <1>h. /\ at'[g] = "done" /\ \A k \in Relay : k # g => at'[k] = at[k]
        /\ \A k \in Relay : k # g => Held(k)' = Held(k)
    BY <1>t DEF Return, Held
  <1>1. chan'["data"] = chan["data"] /\ Given' = Given
    BY <1>t DEF Consume, Given
  <1>2. CASE g = "wrap"
    BY <1>1, <1>2, <1>h DEF Course
  <1>3. CASE g = "forward"
    <2>1. chan'["out"] = chan["out"]
      BY <1>3, <1>t DEF Consume
    <2>2. Wrapped' = Wrapped
      BY <1>1, <1>3, <1>h, <1>t, <2>1 DEF Wrapped
    <2> QED BY <1>1, <1>3, <1>h, <1>t, <2>2 DEF Course
  <1>4. CASE g = "convert"
    <2>1. chan'["out"] = chan["out"] /\ chan'["mid"] = chan["mid"]
      BY <1>4, <1>t DEF Consume
    <2>2. Wrapped' = Wrapped
      BY <1>1, <1>4, <1>h, <1>t, <2>1 DEF Wrapped
    <2>3. Forwarded' = Forwarded
      BY <1>4, <1>h, <1>t, <2>1, <2>2 DEF Forwarded
    <2> QED BY <1>1, <1>4, <1>h, <1>t, <2>2, <2>3 DEF Course
  <1> QED BY <1>2, <1>3, <1>4, <1>t

\* A chunk that the reader sends.
LEMMA SendMoves ==
  ASSUME Typed, Course, Send
  PROVE  /\ Course' /\ Given' = Given
         /\ Converted = sent => Converted' = sent'
  <1> DEFINE h == Head(todo)
  <1>1. /\ h \in Chunk
        /\ chan' = [chan EXCEPT !["pipe"] = Append(@, h)] /\ sent' = Append(sent, h)
        /\ UNCHANGED <<shown, hand, at>>
    BY HeadTailProperties DEF Send, Typed, TypeOK, Placed, Reading, relays, handler
  <1>2. /\ {"data", "out", "mid", "pipe"} \subseteq Channel
        /\ {"wrap", "forward", "convert"} \subseteq Relay
        /\ chan \in [Channel -> Seq(Chunk)]
    BY DEF Typed, TypeOK, Channel, Relay
  <1> HIDE DEF h
  <1>3. /\ chan'["data"] = chan["data"] /\ chan'["out"] = chan["out"]
        /\ chan'["mid"] = chan["mid"] /\ chan'["pipe"] = Append(chan["pipe"], h)
    BY <1>1, <1>2
  <1>4. \A g \in Relay : Held(g)' = Held(g)
    BY <1>1 DEF Held
  <1>5. Given' = Given
    BY <1>1, <1>3 DEF Given
  <1>6. Wrapped' = Wrapped
    BY <1>2, <1>3, <1>4, <1>5 DEF Wrapped
  <1>7. Forwarded' = Forwarded
    BY <1>2, <1>3, <1>4, <1>6 DEF Forwarded
  <1>8. Converted' = Converted \o <<h>>
    <2>1. /\ Forwarded \o Held("convert") \in Seq(Chunk) /\ chan["pipe"] \in Seq(Chunk)
      BY <1>2, Streams DEF Typed
    <2>2. (Forwarded \o Held("convert")) \o Append(chan["pipe"], h)
            = ((Forwarded \o Held("convert")) \o chan["pipe"]) \o <<h>>
      BY <1>1, <2>1, PutOn
    <2> QED BY <1>2, <1>3, <1>4, <1>7, <2>2 DEF Converted
  <1>9. sent' = sent \o <<h>>
    BY <1>1, AppendIsConcat DEF Typed, TypeOK
  <1>10. ASSUME NEW x \in Seq(Chunk), Begins(x, sent) PROVE Begins(x, sent')
    BY <1>1, <1>10, BeginsLonger DEF Typed, TypeOK
  <1>11. Given \in Seq(Chunk) /\ Wrapped \in Seq(Chunk) /\ Forwarded \in Seq(Chunk)
    BY Streams DEF Typed
  <1>12. Course'
    BY <1>1, <1>5, <1>6, <1>7, <1>8, <1>9, <1>10, <1>11 DEF Course
  <1> QED BY <1>5, <1>8, <1>9, <1>12

\* A chunk that the client is sent, with its bytes still in the buffer.
LEMMA ShowMoves ==
  ASSUME Typed, Course, Show, mode # "verbatim"
  PROVE  /\ Course' /\ Given' = Given /\ Converted' = Converted
         /\ shown' = Append(shown, Head(chan["data"]))
         /\ chan'["data"] = Tail(chan["data"])
  <1> DEFINE h == Head(chan["data"])
  <1>1. /\ h \in Chunk /\ chan["data"] \in Seq(Chunk) /\ chan["data"] # <<>>
        /\ {"data", "out", "mid", "pipe"} \subseteq Channel
        /\ {"wrap", "forward", "convert"} \subseteq Relay
        /\ chan \in [Channel -> Seq(Chunk)] /\ shown \in Seq(Chunk)
    BY HeadTailProperties DEF Show, Typed, TypeOK, Channel, Relay
  <1>2. /\ shown' = Append(shown, h) /\ chan' = [chan EXCEPT !["data"] = Tail(@)]
        /\ UNCHANGED <<hand, at, sent>>
    BY DEF Show, Written, Handling, reader
  <1>3. /\ chan'["data"] = Tail(chan["data"]) /\ chan'["out"] = chan["out"]
        /\ chan'["mid"] = chan["mid"] /\ chan'["pipe"] = chan["pipe"]
    BY <1>1, <1>2
  <1>4. \A g \in Relay : Held(g)' = Held(g)
    BY <1>2 DEF Held
  <1>5. Given' = Given
    <2>1. shown' = shown \o <<h>>
      BY <1>1, <1>2, AppendIsConcat
    <2>2. shown \o chan["data"] = (shown \o <<h>>) \o Tail(chan["data"])
      BY <1>1, TakeOff
    <2> QED BY <1>3, <2>1, <2>2 DEF Given
  <1>6. Wrapped' = Wrapped
    BY <1>1, <1>3, <1>4, <1>5 DEF Wrapped
  <1>7. Forwarded' = Forwarded
    BY <1>1, <1>3, <1>4, <1>6 DEF Forwarded
  <1>8. Converted' = Converted
    BY <1>1, <1>3, <1>4, <1>7 DEF Converted
  <1> QED BY <1>2, <1>3, <1>5, <1>6, <1>7, <1>8 DEF Course

\* What each group of steps does to the goroutines' hands and channels.
LEMMA ElsewhereStill ==
  ASSUME Typed, Caller \/ Upstream \/ Register \/ ReadFails \/ SendAbandoned \/ ReaderCloses
                \/ PipelineCloses \/ ShowEnd \/ ShowError \/ ShowFailure \/ NoticeGone
                \/ Quiet \/ Collect \/ Inspect \/ AfterContext \/ Leave \/ UNCHANGED vars
  PROVE  /\ UNCHANGED <<shown, chan, hand, sent>>
         /\ \A g \in Relay : at[g] = "done" <=> at'[g] = "done"
  <1>1. CASE Caller
    <2>1. ASSUME NEW a \in Auth, Opens(a)
          PROVE  \A g \in Relay : at[g] = "done" <=> at'[g] = "done"
      BY <2>1 DEF Opens, Typed, Placed
    <2>2. CASE Refuse \/ Allow \/ PickFails \/ \E a \in Auth : OpenFails(a) \/ OpenCanceled(a)
      BY <2>2 DEF Refuse, Allow, PickFails, OpenFails, OpenCanceled, Unopened, reader, handler
    <2>3. CASE \E a \in Auth : Opens(a)
      BY <2>1, <2>3 DEF Opens, handler
    <2> QED BY <1>1, <2>2, <2>3 DEF Caller
  <1>2. CASE Upstream \/ Register \/ ReadFails \/ SendAbandoned \/ ReaderCloses \/ PipelineCloses
    BY <1>2 DEF Upstream, UpstreamEnds, ReadLine, Register, ReadFails, ScanEnds, SendAbandoned,
       ReaderCloses, PipelineCloses, Reading, reader, relays, handler
  <1>3. CASE ShowEnd \/ ShowError \/ ShowFailure \/ NoticeGone
    BY <1>3 DEF ShowEnd, ShowError, ShowFailure, NoticeGone, HandlerReturns, Handling, reader
  <1>4. CASE Quiet \/ Collect \/ Inspect \/ AfterContext \/ Leave \/ UNCHANGED vars
    BY <1>4 DEF Quiet, Collect, Inspect, AfterContext, Leave, Watching, reader, relays,
       handler, vars
  <1> QED BY <1>1, <1>2, <1>3, <1>4

LEMMA RelayLeavesHandler ==
  Convert \/ Forward \/ Wrap => UNCHANGED <<shown, sent, todo, rd, next, client, ctx, gone>>
  BY DEF Convert, Forward, Wrap, Put, ConvertTakes, ConvertEnds, ForwardTakes,
     ForwardAborts, ForwardEnds, ForwardInterrupted, WrapTakes, WrapFails, WrapEnds,
     Relaying, reader, handler

LEMMA NextCourse == Typed /\ Course /\ mode # "verbatim" /\ [Next]_vars => Course'
  <1> SUFFICES ASSUME Typed, Course, mode # "verbatim", [Next]_vars PROVE Course'
    OBVIOUS
  <1>r. {"wrap", "forward", "convert"} \subseteq Relay
    BY DEF Relay
  <1>1. CASE Convert \/ Forward \/ Wrap
    <2>1. UNCHANGED <<shown, sent>>
      BY <1>1, RelayLeavesHandler
    <2>2. ASSUME NEW g \in Relay, Put(g) PROVE Course'
      BY <2>2, PutMoves
    <2>3. ASSUME NEW g \in Relay, Arrived(g), Consume(g), Hold(g, Arrival(g)) PROVE Course'
      BY <2>1, <2>3, TakeMoves
    <2>4. ASSUME NEW g \in Relay, Return(g), UNCHANGED chan \/ Consume(g) PROVE Course'
      BY <2>1, <2>4, EndMoves
    <2>5. CASE Convert
      BY <1>r, <2>2, <2>3, <2>4, <2>5 DEF Convert, ConvertTakes, ConvertEnds
    <2>6. CASE Forward
      BY <1>r, <2>2, <2>3, <2>4, <2>6
         DEF Forward, ForwardTakes, ForwardAborts, ForwardEnds, ForwardInterrupted
    <2>7. CASE Wrap
      BY <1>r, <2>2, <2>3, <2>4, <2>7 DEF Wrap, WrapTakes, WrapFails, WrapEnds
    <2> QED BY <1>1, <2>5, <2>6, <2>7
  <1>2. CASE Send \/ Show
    BY <1>2, SendMoves, ShowMoves
  <1>3. CASE ~(Convert \/ Forward \/ Wrap \/ Send \/ Show)
    <2>1. /\ UNCHANGED <<shown, chan, hand, sent>>
          /\ \A g \in Relay : at[g] = "done" <=> at'[g] = "done"
      BY <1>3, ElsewhereStill DEF Next, Reader, Handler
    <2> QED BY <2>1, CourseElsewhere
  <1> QED BY <1>1, <1>2, <1>3

(* Errors                                                                  *)

\* The chunks a reader sets out to send, with an error at most at their end.
LEMMA DeliverErrors ==
  ASSUME ErrorsLast, ~Closed, sent' = sent, NEW chunks, NEW then, Deliver(chunks, then),
         \A i \in DOMAIN chunks : IsError(chunks[i]) => i = Len(chunks) /\ then = "close"
  PROVE  ErrorsLast'
  <1>1. \A i \in DOMAIN sent : ~IsError(sent[i])
    BY DEF ErrorsLast
  <1>2. CASE chunks = <<>>
    <2>1. todo' = <<>> /\ DOMAIN todo' = {}
      BY <1>2 DEF Deliver
    <2> QED BY <1>1, <2>1 DEF ErrorsLast
  <1>3. CASE chunks # <<>>
    <2>1. todo' = chunks /\ next' = then
      BY <1>3 DEF Deliver
    <2> QED BY <1>1, <2>1 DEF ErrorsLast
  <1> QED BY <1>2, <1>3

LEMMA ErrorsAtTheEnd ==
  /\ \A i \in DOMAIN ProcessorFailed :
       IsError(ProcessorFailed[i]) => i = Len(ProcessorFailed)
  /\ \A kind : \A i \in DOMAIN Closing(kind) :
       IsError(Closing(kind)[i]) => i = Len(Closing(kind))
  <1>1. \A i \in DOMAIN ProcessorFailed :
          IsError(ProcessorFailed[i]) => i = Len(ProcessorFailed)
    BY DEF ProcessorFailed, Only, IsError
  <1>2. ASSUME NEW kind, NEW i \in DOMAIN ScannerClosing(kind),
               IsError(ScannerClosing(kind)[i])
        PROVE  i = Len(ScannerClosing(kind))
    BY <1>2 DEF ScannerClosing, Only, IsError
  <1>3. ASSUME NEW kind, NEW i \in DOMAIN SseClosing(kind)
        PROVE  ~IsError(SseClosing(kind)[i])
    <2>1. CASE mode = "sse"
      BY <1>3, <2>1 DEF SseClosing, Only, IsError
    <2>2. CASE mode # "sse"
      BY <1>3, <2>2 DEF SseClosing, Only, IsError
    <2> QED BY <2>1, <2>2
  <1> QED BY <1>1, <1>2, <1>3 DEF Closing

LEMMA ReaderErrors == Typed /\ ErrorsLast /\ (Reader \/ Upstream) => ErrorsLast'
  <1> SUFFICES ASSUME Typed, ErrorsLast, Reader \/ Upstream PROVE ErrorsLast'
    OBVIOUS
  <1>1. CASE Register \/ ReaderCloses \/ PipelineCloses
    BY <1>1 DEF Register, ReaderCloses, PipelineCloses, reader, ErrorsLast, Closed
  <1>2. CASE ReadLine
    <2>1. ~Closed /\ sent' = sent
      BY <1>2 DEF ReadLine, Closed
    <2>2. CASE Deliver(<<>>, "close")
      BY <2>1, <2>2, DeliverErrors
    <2>3. CASE Deliver(<<Line(read + 1)>>, "scan")
      <3>1. \A i \in DOMAIN <<Line(read + 1)>> : ~IsError(<<Line(read + 1)>>[i])
        BY DEF Line, IsError
      <3> QED BY <2>1, <2>3, <3>1, DeliverErrors
    <2>4. CASE Deliver(ProcessorFailed, "close")
      BY <2>1, <2>4, DeliverErrors, ErrorsAtTheEnd
    <2> QED BY <1>2, <2>2, <2>3, <2>4 DEF ReadLine
  <1>3. ASSUME NEW kind, ScanEnds(kind) PROVE ErrorsLast'
    <2>1. ~Closed /\ sent' = sent
      BY <1>3 DEF ScanEnds, Closed
    <2>2. CASE Deliver(Closing(kind), "close")
      BY <2>1, <2>2, DeliverErrors, ErrorsAtTheEnd
    <2>3. CASE Deliver(<<Only("error")>>, "close")
      <3>1. \A i \in DOMAIN <<Only("error")>> : i = Len(<<Only("error")>>)
        OBVIOUS
      <3> QED BY <2>1, <2>3, <3>1, DeliverErrors
    <2> QED BY <1>3, <2>2, <2>3 DEF ScanEnds
  <1>4. CASE SendAbandoned
    <2>1. ~Closed /\ sent' = sent /\ Deliver(<<>>, "close")
      BY <1>4 DEF SendAbandoned, Closed
    <2> QED BY <2>1, DeliverErrors
  <1>5. CASE Send
    <2>1. /\ todo \in Seq(Chunk) /\ todo # <<>> /\ sent \in Seq(Chunk)
          /\ sent' = Append(sent, Head(todo)) /\ todo' = Tail(todo) /\ rd = "send"
          /\ IF Len(todo) = 1 THEN rd' = next /\ next' = "scan" ELSE UNCHANGED <<rd, next>>
      BY <1>5 DEF Send, Typed, TypeOK, Placed
    <2>2. /\ Head(todo) = todo[1] /\ Head(todo) \in Chunk
          /\ Tail(todo) \in Seq(Chunk) /\ Len(Tail(todo)) = Len(todo) - 1
          /\ \A i \in 1..Len(Tail(todo)) : Tail(todo)[i] = todo[i + 1]
          /\ Len(todo) \in Nat \ {0} /\ Len(sent) \in Nat
      BY <2>1, HeadTailProperties
    <2>3. /\ Len(sent') = Len(sent) + 1 /\ sent' \in Seq(Chunk)
          /\ \A i \in 1..Len(sent) : sent'[i] = sent[i]
          /\ sent'[Len(sent) + 1] = Head(todo)
      BY <2>1, <2>2, AppendProperties
    <2>4. /\ DOMAIN sent = 1..Len(sent) /\ DOMAIN sent' = 1..Len(sent')
          /\ DOMAIN todo = 1..Len(todo) /\ DOMAIN todo' = 1..Len(todo')
      BY <2>1, <2>2, <2>3, LenProperties
    <2>5. \A i \in DOMAIN sent : ~IsError(sent[i])
      BY <2>1 DEF ErrorsLast, Closed
    <2>6. ASSUME NEW i \in DOMAIN sent', IsError(sent'[i])
          PROVE  i = Len(sent') /\ Closed'
      <3>1. i = Len(sent) + 1
        BY <2>2, <2>3, <2>4, <2>5, <2>6
      <3>2. IsError(todo[1]) /\ 1 \in DOMAIN todo
        BY <2>2, <2>3, <2>4, <2>6, <3>1
      <3>3. Len(todo) = 1 /\ next = "close"
        BY <3>2 DEF ErrorsLast
      <3> QED BY <2>1, <2>3, <3>1, <3>3 DEF Closed
    <2>7. ASSUME NEW i \in DOMAIN todo', IsError(todo'[i])
          PROVE  i = Len(todo') /\ next' = "close"
      <3>1. i \in 1..Len(Tail(todo)) /\ i + 1 \in DOMAIN todo /\ IsError(todo[i + 1])
        BY <2>1, <2>2, <2>4, <2>7
      <3>2. i + 1 = Len(todo) /\ next = "close"
        BY <3>1 DEF ErrorsLast
      <3>3. Len(todo) # 1
        BY <2>2, <3>1
      <3> QED BY <2>1, <2>2, <3>1, <3>2, <3>3
    <2> QED BY <2>6, <2>7 DEF ErrorsLast
  <1> QED
    BY <1>1, <1>2, <1>3, <1>4, <1>5 DEF Reader, Upstream, UpstreamEnds, ReadFails

LEMMA NextErrors == Typed /\ ErrorsLast /\ [Next]_vars => ErrorsLast'
  <1> SUFFICES ASSUME Typed, ErrorsLast, [Next]_vars PROVE ErrorsLast'
    OBVIOUS
  <1>1. ASSUME UNCHANGED <<sent, todo, next>>, rd' = rd \/ rd = "off" PROVE ErrorsLast'
    BY <1>1 DEF ErrorsLast, Closed
  <1>2. CASE Caller
    <2>1. UNCHANGED <<sent, todo, next>>
      BY <1>2 DEF Caller, Refuse, Allow, PickFails, OpenFails, OpenCanceled, Opens, Unopened, reader
    <2>2. rd' = rd \/ rd = "off"
      BY <1>2 DEF Caller, Refuse, Allow, PickFails, OpenFails, OpenCanceled, Opens, Unopened,
         reader, Typed, Placed
    <2> QED BY <1>1, <2>1, <2>2
  <1>3. CASE Convert \/ Forward \/ Wrap
    BY <1>1, <1>3, RelayLeavesHandler
  <1>4. CASE Handler
    BY <1>1, <1>4 DEF Handler, Show, ShowEnd, ShowError, ShowFailure, NoticeGone,
       HandlerReturns, Handling, reader
  <1>5. CASE Quiet \/ Collect \/ Inspect \/ AfterContext \/ Leave \/ UNCHANGED vars
    BY <1>1, <1>5 DEF Quiet, Collect, Inspect, AfterContext, Leave, Watching, reader, vars
  <1> QED BY <1>2, <1>3, <1>4, <1>5, ReaderErrors DEF Next

\* A reader that has left its loop sends no more.
LEMMA ClosedForGood == Typed /\ Closed /\ [Next]_vars => Closed' /\ sent' = sent
  <1> SUFFICES ASSUME Typed, Closed, [Next]_vars PROVE Closed' /\ sent' = sent
    OBVIOUS
  <1>1. CASE Caller
    <2>1. rd # "off"
      BY DEF Closed
    <2> QED
      BY <1>1, <2>1 DEF Caller, Refuse, Allow, PickFails, OpenFails, OpenCanceled, Opens,
         Unopened, reader, Typed, Placed, Closed
  <1>2. CASE Reader \/ Upstream
    BY <1>2 DEF Reader, Upstream, UpstreamEnds, ReadFails, Register, Send, SendAbandoned,
       ReaderCloses, PipelineCloses, ReadLine, ScanEnds, reader, Closed
  <1>3. CASE Convert \/ Forward \/ Wrap
    BY <1>3, RelayLeavesHandler DEF Closed
  <1>4. CASE Handler
    BY <1>4 DEF Handler, Show, ShowEnd, ShowError, ShowFailure, NoticeGone,
       HandlerReturns, Handling, reader, Closed
  <1>5. CASE Quiet \/ Collect \/ Inspect \/ AfterContext \/ Leave \/ UNCHANGED vars
    BY <1>5 DEF Quiet, Collect, Inspect, AfterContext, Leave, Watching, reader, vars, Closed
  <1> QED BY <1>1, <1>2, <1>3, <1>4, <1>5 DEF Next

LEMMA NextClean == Typed /\ Clean /\ mode # "verbatim" /\ [Next]_vars => Clean'
  <1> SUFFICES ASSUME Typed, Clean, mode # "verbatim", [Next]_vars PROVE Clean'
    OBVIOUS
  <1>t. /\ hand \in [Relay -> Chunk \cup {NoChunk}]
        /\ chan \in [Channel -> Seq(Chunk)] /\ shown \in Seq(Chunk)
        /\ {"wrap", "forward", "convert"} \subseteq Relay
        /\ {"data", "out", "mid", "pipe"} \subseteq Channel
        /\ From["wrap"] = "out" /\ From["forward"] = "mid" /\ From["convert"] = "pipe"
        /\ To["wrap"] = "data" /\ To["forward"] = "out" /\ To["convert"] = "mid"
        /\ NoChunk.kind \notin Fault
    BY DEF Typed, TypeOK, Relay, Channel, From, To, NoChunk, Fault
  <1>1. ASSUME UNCHANGED shown, chan'["data"] = chan["data"], hand'["wrap"] = hand["wrap"]
        PROVE  Clean'
    BY <1>1 DEF Clean
  <1>2. CASE Put("wrap")
    <2>1. /\ hand["wrap"] \in Chunk /\ hand'["wrap"] = NoChunk
          /\ chan'["data"] = Append(chan["data"], hand["wrap"]) /\ shown' = shown
      BY <1>2, <1>t DEF Put, Relaying, handler, Typed, Placed
    <2>2. ~Has(chan'["data"], Fault)
      BY <1>t, <2>1, HasAppend DEF Clean
    <2> QED BY <1>t, <2>1, <2>2 DEF Clean
  <1>3. CASE WrapTakes
    <2>1. /\ chan'["data"] = chan["data"] /\ shown' = shown
          /\ hand'["wrap"].kind \notin Fault
      BY <1>3, <1>t DEF WrapTakes, Consume, Hold, IsError, Relaying, handler, Fault
    <2> QED BY <2>1 DEF Clean
  <1>4. CASE WrapFails \/ WrapEnds
    <2>1. /\ chan'["data"] = chan["data"] /\ shown' = shown /\ hand'["wrap"] = NoChunk
      BY <1>4, <1>t DEF WrapFails, WrapEnds, Consume, Return, Relaying, handler
    <2> QED BY <1>t, <2>1 DEF Clean
  <1>5. CASE Convert \/ Forward
    <2>1. shown' = shown
      BY <1>5, RelayLeavesHandler
    <2>2. chan'["data"] = chan["data"]
      BY <1>5, <1>t DEF Convert, Forward, Put, ConvertTakes, ConvertEnds, ForwardTakes,
         ForwardAborts, ForwardEnds, ForwardInterrupted, Consume
    <2>3. hand'["wrap"] = hand["wrap"]
      BY <1>5, <1>t DEF Convert, Forward, Put, ConvertTakes, ConvertEnds, ForwardTakes,
         ForwardAborts, ForwardEnds, ForwardInterrupted, Hold, Return
    <2> QED BY <1>1, <2>1, <2>2, <2>3
  <1>6. CASE Show
    <2>1. /\ chan["data"] \in Seq(Chunk) /\ chan["data"] # <<>>
          /\ hand' = hand
      BY <1>6, <1>t DEF Show, Handling
    <2>2. /\ shown' = Append(shown, Head(chan["data"])) /\ chan'["data"] = Tail(chan["data"])
      BY <1>6, <1>t DEF Show, Written
    <2>3. Head(chan["data"]).kind \notin Fault /\ ~Has(Tail(chan["data"]), Fault)
      BY <2>1, HasTail DEF Clean
    <2>4. Head(chan["data"]) \in Chunk
      BY <2>1, HeadTailProperties
    <2>5. ~Has(shown', Fault)
      BY <1>t, <2>2, <2>3, <2>4, HasAppend DEF Clean
    <2> QED BY <2>1, <2>2, <2>3, <2>5 DEF Clean
  <1>7. CASE Send
    BY <1>1, <1>7, <1>t DEF Send, Reading, relays, handler
  <1>8. CASE ~(Convert \/ Forward \/ Wrap \/ Send \/ Show)
    BY <1>1, <1>8, ElsewhereStill DEF Next, Reader, Handler
  <1> QED BY <1>2, <1>3, <1>4, <1>5, <1>6, <1>7, <1>8 DEF Wrap

(* The end of the stream                                                   *)

\* An error that has got as far as the wrapper is all that is left.
LEMMA ErrorIsLeft ==
  ASSUME ErrorsLast, NEW s \in Seq(Chunk), NEW e \in Chunk, IsError(e),
         NEW r \in Seq(Chunk), sent = (s \o <<e>>) \o r
  PROVE  Closed /\ sent = Append(s, e)
  <1>1. s \o <<e>> = Append(s, e)
    BY AppendIsConcat
  <1>2. /\ Append(s, e) \in Seq(Chunk) /\ Len(Append(s, e)) = Len(s) + 1
        /\ Append(s, e)[Len(s) + 1] = e
    BY AppendProperties
  <1> DEFINE se == Append(s, e)
  <1>3. sent = se \o r /\ se \in Seq(Chunk) /\ Len(se) = Len(s) + 1 /\ se[Len(s) + 1] = e
    BY <1>1, <1>2
  <1> HIDE DEF se
  <1>4. /\ sent \in Seq(Chunk) /\ Len(sent) = Len(se) + Len(r)
        /\ \A i \in 1..(Len(se) + Len(r)) :
             sent[i] = IF i <= Len(se) THEN se[i] ELSE r[i - Len(se)]
    BY <1>3, ConcatProperties
  <1>5. Len(s) \in Nat /\ Len(r) \in Nat /\ DOMAIN sent = 1..Len(sent)
    BY <1>4, LenProperties
  <1>6. Len(s) + 1 \in DOMAIN sent /\ IsError(sent[Len(s) + 1])
    BY <1>3, <1>4, <1>5
  <1>7. Len(s) + 1 = Len(sent) /\ Closed
    BY <1>6 DEF ErrorsLast
  <1>8. Len(r) = 0
    BY <1>3, <1>4, <1>5, <1>7
  <1>9. sent = se
    BY <1>3, <1>8, EmptySeq, ConcatEmptySeq
  <1> QED BY <1>7, <1>9 DEF se

\* A goroutine that waits holds nothing, so one that returns drops nothing.
LEMMA DrainMoves ==
  ASSUME Typed, NEW g \in Relay, Drained(g), Return(g), UNCHANGED <<shown, chan>>
  PROVE  /\ Given' = Given /\ Converted' = Converted
         /\ at'[g] = "done" /\ \A k \in Relay : k # g => at'[k] = at[k]
  <1>1. hand[g] = NoChunk
    BY DEF Drained, Typed, Placed
  <1>2. hand' = hand
    BY <1>1 DEF Return, Typed, TypeOK
  <1> QED
    BY <1>2, Unmoved DEF Return, Typed, TypeOK

\* The wrapper that finds its channel closed has passed everything on.
LEMMA AllThrough ==
  ASSUME Typed, Flow, Drained("wrap"), Converted = sent
  PROVE  Closed /\ Given = sent
  <1>1. /\ at["wrap"] = "recv" /\ chan["out"] = <<>> /\ at["forward"] = "done"
    BY DEF Drained, From, Typed, Placed, To, Relay
  <1>2. /\ at["convert"] = "done" /\ chan["mid"] = <<>>
        /\ "pipe" \notin open /\ chan["pipe"] = <<>>
    BY <1>1 DEF Flow, Emptied
  <1>3. Closed
    BY <1>2 DEF Closed, Typed, Placed
  <1>4. Held("wrap") = <<>> /\ Held("forward") = <<>> /\ Held("convert") = <<>>
    BY <1>1, <1>2 DEF Held, Typed, Placed, Relay
  <1>5. Given \in Seq(Chunk)
    BY Streams DEF Typed
  <1>6. Given \o <<>> = Given
    BY <1>5, ConcatEmptySeq
  <1>7. Converted = Given
    BY <1>1, <1>2, <1>4, <1>6 DEF Converted, Forwarded, Wrapped
  <1> QED BY <1>3, <1>7

LEMMA WrapArrives ==
  ASSUME Told, Course, ErrorsLast, Arriving, Flow, ~ctx, WrapFails \/ WrapEnds
  PROVE  Arriving'
  <1>t. /\ "wrap" \in Relay /\ UNCHANGED <<shown, sent, rd>>
        /\ at \in [Relay -> {"off", "recv", "send", "done"}]
        /\ Typed
    BY RelayLeavesHandler DEF Wrap, Relay, Told, Typed, TypeOK
  <1>1. CASE WrapFails
    <2> DEFINE e == Head(chan["out"])
    <2>1. /\ at["wrap"] = "recv" /\ chan["out"] # <<>> /\ IsError(e)
          /\ Consume("wrap") /\ Return("wrap")
      BY <1>1 DEF WrapFails, Arrived, Arrival, From
    <2>2. Given' = Given /\ at'["wrap"] = "done"
      BY <1>t, <2>1, EndMoves DEF Return
    <2>3. /\ chan["out"] \in Seq(Chunk) /\ Given \in Seq(Chunk)
          /\ Wrapped \in Seq(Chunk)
          /\ e \in Chunk /\ Tail(chan["out"]) \in Seq(Chunk)
      <3>1. chan["out"] \in Seq(Chunk)
        BY <1>t DEF Typed, TypeOK, Channel
      <3> QED BY <1>t, <2>1, <3>1, Streams, HeadTailProperties DEF Typed
    <2>4. Held("wrap") = <<>>
      BY <1>t, <2>1 DEF Held, Typed, Placed
    <2>5. Wrapped = (Given \o <<e>>) \o Tail(chan["out"])
      BY <2>1, <2>3, <2>4, TakeOff DEF Wrapped
    <2> HIDE DEF e
    <2>6. PICK r \in Seq(Chunk) : sent = Wrapped \o r
      BY <2>1 DEF Course, Begins
    <2>7. <<e>> \in Seq(Chunk)
      BY <2>3
    <2>8. Given \o <<e>> \in Seq(Chunk)
      BY <2>3, <2>7, ConcatProperties
    <2>9. /\ sent = (Given \o <<e>>) \o (Tail(chan["out"]) \o r)
          /\ Tail(chan["out"]) \o r \in Seq(Chunk)
      <3> DEFINE x == Given \o <<e>>
                 y == Tail(chan["out"])
      <3>1. x \in Seq(Chunk) /\ y \in Seq(Chunk) /\ r \in Seq(Chunk) /\ sent = (x \o y) \o r
        BY <2>3, <2>5, <2>6, <2>8
      <3> HIDE DEF x, y
      <3>2. sent = x \o (y \o r)
        BY <3>1, ConcatAssociative
      <3>3. y \o r \in Seq(Chunk)
        BY <3>1, ConcatProperties
      <3> QED BY <3>2, <3>3 DEF x, y
    <2>10. Closed /\ sent = Append(Given, e)
      BY <2>1, <2>3, <2>9, ErrorIsLeft
    <2> QED BY <1>t, <2>1, <2>2, <2>3, <2>10 DEF Arriving, AllOf, Closed
  <1>2. CASE WrapEnds
    <2>1. Drained("wrap") /\ Return("wrap") /\ chan' = chan
      BY <1>2 DEF WrapEnds, Interrupted
    <2>2. Converted = sent
      BY <2>1 DEF Drained, Arriving
    <2>3. Closed /\ Given = sent
      BY <1>t, <2>1, <2>2, AllThrough
    <2>4. Given' = Given /\ at'["wrap"] = "done"
      BY <1>t, <2>1, DrainMoves
    <2> QED BY <1>t, <2>3, <2>4 DEF Arriving, AllOf, Closed
  <1> QED BY <1>1, <1>2

LEMMA NextArriving ==
  ASSUME Told, Course, ErrorsLast, Arriving, mode # "verbatim", [Next]_vars, ~ctx'
  PROVE  Arriving'
  <1>t. /\ ~ctx /\ Flow /\ Typed
        /\ {"wrap", "forward", "convert"} \subseteq Relay
        /\ at \in [Relay -> {"off", "recv", "send", "done"}]
        /\ "mid" \in Channel /\ From["forward"] = "mid" /\ chan["mid"] \in Seq(Chunk)
    BY ContextEndsOnce DEF Told, Typed, TypeOK, Relay, Channel, From
  \* A step that keeps what is under way and does not end the wrapper.
  <1>k. ASSUME Converted' = Converted, sent' = sent, Closed => Closed',
               at["wrap"] = "done" => Given' = Given,
               at["wrap"] = "done" <=> at'["wrap"] = "done"
        PROVE  Arriving'
    BY <1>k DEF Arriving, AllOf
  <1>c. Closed => Closed' /\ sent' = sent
    BY <1>t, ClosedForGood
  <1>1. CASE WrapFails \/ WrapEnds
    BY <1>1, <1>t, WrapArrives
  <1>2. CASE ForwardAborts
    <2>1. chan["mid"] # <<>> /\ Head(chan["mid"]).kind = "abort"
      BY <1>2, <1>t DEF ForwardAborts, Arrived, Arrival
    <2> QED
      BY <2>1, <1>t, HasTail DEF Flow, NoAbort
  <1>3. CASE Convert \/ Forward \/ Wrap
    <2>1. UNCHANGED <<shown, sent>>
      BY <1>3, RelayLeavesHandler
    <2>2. ASSUME NEW g \in Relay, Put(g) PROVE Arriving'
      BY <1>k, <1>c, <1>t, <2>1, <2>2, PutMoves
    <2>3. ASSUME NEW g \in Relay, Arrived(g), Consume(g), Hold(g, Arrival(g)) PROVE Arriving'
      BY <1>k, <1>c, <1>t, <2>1, <2>3, TakeMoves
    <2>4. ASSUME NEW g \in Relay, g # "wrap", Drained(g), Return(g), UNCHANGED chan
          PROVE  Arriving'
      BY <1>k, <1>c, <1>t, <2>1, <2>4, DrainMoves
    <2>5. CASE Convert
      BY <1>t, <2>2, <2>3, <2>4, <2>5 DEF Convert, ConvertTakes, ConvertEnds, Interrupted
    <2>6. CASE Forward
      BY <1>2, <1>t, <2>2, <2>3, <2>4, <2>6
         DEF Forward, ForwardTakes, ForwardEnds, ForwardInterrupted, Interrupted
    <2>7. CASE Wrap
      BY <1>1, <1>t, <2>2, <2>3, <2>7 DEF Wrap, WrapTakes
    <2> QED BY <1>3, <2>5, <2>6, <2>7
  <1>4. CASE Send
    <2>1. Converted = sent => Converted' = sent'
      BY <1>4, <1>t, SendMoves
    <2>2. ~Closed /\ at' = at
      BY <1>4 DEF Send, Closed, Reading, relays
    <2> QED BY <2>1, <2>2 DEF Arriving
  <1>5. CASE Show
    <2>1. sent' = sent /\ at' = at
      BY <1>5 DEF Show, Handling, reader
    <2> QED BY <1>5, <1>k, <1>c, <1>t, <2>1, ShowMoves
  <1>6. CASE ~(Convert \/ Forward \/ Wrap \/ Send \/ Show)
    <2>1. /\ UNCHANGED <<shown, chan, hand, sent>>
          /\ \A g \in Relay : at[g] = "done" <=> at'[g] = "done"
      BY <1>6, <1>t, ElsewhereStill DEF Next, Reader, Handler
    <2>2. Given' = Given /\ Converted' = Converted
      BY <2>1, Unmoved
    <2> QED BY <1>k, <1>c, <1>t, <2>1, <2>2
  <1> QED BY <1>3, <1>4, <1>5, <1>6

\* The handler returns when the end has reached it, and only its return or the
\* client's leaving ends the context.
LEMMA NextEnding ==
  ASSUME Typed, ~ctx => Arriving, Ending, [Next]_vars
  PROVE  Ending'
  <1>1. ASSUME UNCHANGED <<client, gone, ctx>>, client # "waiting" => shown' = shown
        PROVE  Ending'
    <2>1. client' = "waiting" /\ ~gone' => ~ctx'
      BY <1>1 DEF Ending
    <2>2. ASSUME client' = "end", ~gone' PROVE Closed' /\ AllOf(shown)'
      <3>1. Closed /\ AllOf(shown) /\ shown' = shown
        BY <1>1, <2>2 DEF Ending
      <3>2. Closed' /\ sent' = sent
        BY <3>1, ClosedForGood
      <3> QED BY <3>1, <3>2 DEF AllOf
    <2> QED BY <2>1, <2>2 DEF Ending
  <1>2. ASSUME NEW how \in {"error", "gone"}, HandlerReturns(how) PROVE Ending'
    BY <1>2 DEF HandlerReturns, Ending
  <1>3. CASE ShowEnd
    <2>1. /\ client = "waiting" /\ chan["data"] = <<>> /\ "data" \notin open
          /\ client' = "end" /\ UNCHANGED <<gone, rd, sent, shown>>
      BY <1>3 DEF ShowEnd, HandlerReturns, Handling, reader
    <2>2. at["wrap"] = "done"
      BY <2>1 DEF Typed, Placed, Relay, To
    <2>3. shown \o <<>> = shown
      BY ConcatEmptySeq DEF Typed, TypeOK
    <2>4. Given = shown
      BY <2>1, <2>3 DEF Given
    <2>5. ASSUME ~gone PROVE Closed /\ AllOf(shown)
      <3>1. ~ctx
        BY <2>1, <2>5 DEF Ending
      <3> QED BY <2>2, <2>4, <3>1 DEF Arriving
    <2> QED BY <2>1, <2>5 DEF Ending, Closed, AllOf
  <1>4. CASE ShowError \/ ShowFailure \/ NoticeGone
    BY <1>2, <1>4 DEF ShowError, ShowFailure, NoticeGone
  <1>5. CASE Leave
    BY <1>5 DEF Leave, Ending
  <1>6. CASE Show
    BY <1>1, <1>6 DEF Show, Handling
  <1>7. CASE Caller \/ Upstream \/ Reader \/ Convert \/ Forward \/ Wrap
             \/ Quiet \/ Collect \/ Inspect \/ AfterContext \/ UNCHANGED vars
    <2>1. CASE Caller
      BY <1>1, <2>1 DEF Caller, Refuse, Allow, PickFails, OpenFails, OpenCanceled, Opens,
         Unopened, handler
    <2>2. CASE Upstream \/ Reader
      BY <1>1, <2>2 DEF Reader, Upstream, UpstreamEnds, ReadFails, Register, Send,
         SendAbandoned, ReaderCloses, PipelineCloses, ReadLine, ScanEnds, Reading, handler
    <2>3. CASE Convert \/ Forward \/ Wrap
      BY <1>1, <2>3, RelayLeavesHandler
    <2>4. CASE Quiet \/ Collect \/ Inspect \/ AfterContext \/ UNCHANGED vars
      BY <1>1, <2>4 DEF Quiet, Collect, Inspect, AfterContext, Watching, handler, vars
    <2> QED BY <1>7, <2>1, <2>2, <2>3, <2>4
  <1> QED BY <1>3, <1>4, <1>5, <1>6, <1>7 DEF Next, Handler

(* The answer is whole                                                     *)

LEMMA InitWhole == Init => Whole
  <1> SUFFICES ASSUME Init PROVE Whole
    OBVIOUS
  <1>1. /\ shown = <<>> /\ sent = <<>> /\ todo = <<>> /\ client = "waiting" /\ ctx = FALSE
        /\ \A c \in Channel : chan[c] = <<>>
        /\ \A g \in Relay : hand[g] = NoChunk /\ at[g] = "off"
    BY DEF Init
  <1>2. /\ {"wrap", "forward", "convert"} \subseteq Relay
        /\ {"data", "out", "mid", "pipe"} \subseteq Channel
    BY DEF Relay, Channel
  <1>3. <<>> \o <<>> = <<>> /\ <<>> \in Seq(Chunk)
    BY ConcatEmptySeq, EmptySeq
  <1>4. Given = <<>> /\ Wrapped = <<>> /\ Forwarded = <<>> /\ Converted = <<>>
    BY <1>1, <1>2, <1>3 DEF Given, Wrapped, Forwarded, Converted, Held
  <1>5. Begins(<<>>, <<>>)
    BY <1>3, BeginsItself
  <1>6. Course
    BY <1>1, <1>4, <1>5 DEF Course
  <1>7. ErrorsLast
    BY <1>1 DEF ErrorsLast
  <1>8. Clean
    BY <1>1, <1>2, HasNothing DEF Clean, NoChunk, Fault
  <1>9. Arriving /\ Ending
    BY <1>1, <1>2, <1>4 DEF Arriving, Ending
  <1> QED BY <1>6, <1>7, <1>8, <1>9 DEF Whole

LEMMA NextWhole == Told /\ mode # "verbatim" /\ Whole /\ [Next]_vars => Whole'
  <1> SUFFICES ASSUME Told, mode # "verbatim", Whole, [Next]_vars PROVE Whole'
    OBVIOUS
  <1>1. Typed /\ (~ctx' => ~ctx)
    BY ContextEndsOnce DEF Told
  <1>2. Course' /\ ErrorsLast' /\ Clean'
    BY <1>1, NextCourse, NextErrors, NextClean DEF Whole
  <1>3. ~ctx' => Arriving'
    BY <1>1, NextArriving DEF Whole
  <1>4. Ending'
    BY <1>1, NextEnding DEF Whole
  <1> QED BY <1>2, <1>3, <1>4 DEF Whole

\* What begins a sequence is a prefix of it, and of what precedes its last
\* element unless it is the whole sequence.
LEMMA BeginsIsPrefix ==
  ASSUME NEW s \in Seq(Chunk), NEW t \in Seq(Chunk), Begins(s, t)
  PROVE  /\ IsPrefix(s, t)
         /\ s # t => /\ t # <<>> /\ Front(t) \in Seq(Chunk) /\ IsPrefix(s, Front(t))
                     /\ Len(Front(t)) = Len(t) - 1
                     /\ \A i \in 1..(Len(t) - 1) : Front(t)[i] = t[i]
  <1>1. PICK r \in Seq(Chunk) : t = s \o r
    BY DEF Begins
  <1>2. /\ Len(t) = Len(s) + Len(r) /\ Len(s) \in Nat /\ Len(r) \in Nat
        /\ \A i \in 1..Len(s) : t[i] = s[i]
        /\ \A i \in 1..Len(t) : t[i] \in Chunk
        /\ \A i \in 1..Len(s) : s[i] \in Chunk
    BY <1>1, ConcatProperties
  <1>3. ASSUME NEW u \in Seq(Chunk), Len(s) <= Len(u), \A i \in 1..Len(s) : u[i] = s[i]
        PROVE  IsPrefix(s, u)
    <2> DEFINE su == SubSeq(u, 1, Len(s))
               ss == SubSeq(s, 1, Len(s))
    <2>1. /\ ss \in Seq(Chunk) /\ Len(ss) = Len(s)
          /\ \A i \in 1..Len(s) : ss[i] = s[i]
      BY <1>2
    <2>2. /\ su \in Seq(Chunk) /\ Len(su) = Len(s)
          /\ \A i \in 1..Len(s) : su[i] = u[i]
      BY <1>2, <1>3
    <2> HIDE DEF su, ss
    <2>3. su = ss
      BY <1>2, <1>3, <2>1, <2>2, SeqEqual
    <2> QED BY <1>3, <2>3 DEF su, ss, IsPrefix
  <1>4. IsPrefix(s, t)
    BY <1>2, <1>3
  <1>5. ASSUME s # t
        PROVE  /\ t # <<>> /\ Front(t) \in Seq(Chunk) /\ IsPrefix(s, Front(t))
               /\ Len(Front(t)) = Len(t) - 1
               /\ \A i \in 1..(Len(t) - 1) : Front(t)[i] = t[i]
    <2>1. Len(r) # 0
      <3>1. Len(r) = 0 => r = <<>>
        BY EmptySeq
      <3> QED BY <1>1, <1>5, <3>1, ConcatEmptySeq
    <2>2. Len(t) \in Nat /\ Len(t) >= Len(s) + 1 /\ Len(t) >= 1
      BY <1>2, <2>1
    <2>3. /\ Front(t) \in Seq(Chunk) /\ Len(Front(t)) = Len(t) - 1
          /\ \A i \in 1..(Len(t) - 1) : Front(t)[i] = t[i]
      BY <1>2, <2>2 DEF Front
    <2> DEFINE f == Front(t)
    <2>4. /\ f \in Seq(Chunk) /\ Len(s) <= Len(f)
          /\ \A i \in 1..Len(s) : f[i] = s[i]
      BY <1>2, <2>2, <2>3
    <2> HIDE DEF f
    <2>5. IsPrefix(s, f)
      BY <1>3, <2>4
    <2> QED BY <2>2, <2>3, <2>5, EmptySeq DEF f
  <1> QED BY <1>4, <1>5

LEMMA WholeIsWholeAnswer == TypeOK /\ Whole => WholeAnswer
  <1> SUFFICES ASSUME TypeOK, Whole PROVE WholeAnswer
    OBVIOUS
  <1> DEFINE ends == sent # <<>> /\ IsError(Last(sent))
             data == IF ends THEN Front(sent) ELSE sent
  <1>t. /\ shown \in Seq(Chunk) /\ sent \in Seq(Chunk) /\ chan["data"] \in Seq(Chunk)
        /\ Given \in Seq(Chunk) /\ DOMAIN sent = 1..Len(sent) /\ Len(sent) \in Nat
        /\ DOMAIN shown = 1..Len(shown)
    BY Streams, LenProperties DEF TypeOK, Channel
  <1>1. Begins(shown, sent)
    BY <1>t, BeginsShorter DEF Whole, Course, Given
  <1>2. \A i \in DOMAIN sent : IsError(sent[i]) => i = Len(sent)
    BY DEF Whole, ErrorsLast
  <1>3. \A i \in DOMAIN shown : ~IsError(shown[i])
    BY DEF Whole, Clean, Has, Fault, IsError
  <1>4. (client = "end" /\ ~gone) => AllOf(shown)
    BY DEF Whole, Ending
  <1>5. CASE ends
    <2>1. /\ Len(sent) \in DOMAIN sent /\ IsError(sent[Len(sent)])
      <3>1. sent # <<>> /\ IsError(sent[Len(sent)])
        BY <1>5 DEF Last
      <3>2. Len(sent) # 0
        BY <1>t, <3>1, EmptySeq
      <3>3. Len(sent) \in 1..Len(sent)
        BY <1>t, <3>2
      <3> QED BY <1>t, <3>1, <3>3
    <2>2. shown # sent
      <3> DEFINE Errs(s) == \E i \in DOMAIN s : IsError(s[i])
      <3>1. Errs(sent)
        BY <2>1
      <3>2. ~Errs(shown)
        BY <1>3
      <3> HIDE DEF Errs
      <3> QED BY <3>1, <3>2
    <2>3. /\ Front(sent) \in Seq(Chunk) /\ IsPrefix(shown, Front(sent))
          /\ Len(Front(sent)) = Len(sent) - 1
          /\ \A i \in 1..(Len(sent) - 1) : Front(sent)[i] = sent[i]
      BY <1>t, <1>1, <2>2, BeginsIsPrefix
    <2>4. ASSUME NEW i \in DOMAIN Front(sent) PROVE ~IsError(Front(sent)[i])
      <3>1. i \in 1..(Len(sent) - 1)
        BY <2>3, LenProperties
      <3>2. i \in DOMAIN sent /\ i # Len(sent)
        BY <1>t, <3>1
      <3>3. ~IsError(sent[i])
        BY <1>2, <3>2
      <3>4. Front(sent)[i] = sent[i]
        BY <2>3, <3>1
      <3> QED BY <3>3, <3>4
    <2>5. ASSUME client = "end", ~gone PROVE shown = Front(sent)
      <3>1. PICK e \in Chunk : sent = Append(shown, e)
        BY <1>4, <2>2, <2>5 DEF AllOf
      <3>2. /\ Len(sent) = Len(shown) + 1
            /\ \A i \in 1..Len(shown) : sent[i] = shown[i]
        BY <1>t, <3>1, AppendProperties
      <3> DEFINE f == Front(sent)
      <3>3. /\ f \in Seq(Chunk) /\ Len(f) = Len(shown)
            /\ \A i \in 1..Len(shown) : f[i] = shown[i]
        BY <1>t, <2>3, <3>2, LenProperties
      <3> HIDE DEF f
      <3>4. shown = f
        BY <1>t, <3>3, SeqEqual
      <3> QED BY <3>4 DEF f
    <2>6. data = Front(sent)
      BY <1>5
    <2> HIDE DEF data
    <2> QED BY <2>3, <2>4, <2>5, <2>6 DEF WholeAnswer, data
  <1>6. CASE ~ends
    <2>1. \A i \in DOMAIN sent : ~IsError(sent[i])
      <3>1. ASSUME NEW i \in DOMAIN sent, IsError(sent[i]) PROVE FALSE
        <4>1. i = Len(sent) /\ sent # <<>>
          BY <1>2, <1>t, <3>1
        <4> QED BY <1>6, <3>1, <4>1 DEF Last
      <3> QED BY <3>1
    <2>2. IsPrefix(shown, sent)
      BY <1>t, <1>1, BeginsIsPrefix
    <2>3. (client = "end" /\ ~gone) => shown = sent
      <3>1. ASSUME NEW e \in Chunk, IsError(e), sent = Append(shown, e) PROVE FALSE
        <4>1. Len(sent) = Len(shown) + 1 /\ sent[Len(shown) + 1] = e
          BY <1>t, <3>1, AppendProperties
        <4>2. Len(shown) \in Nat
          BY <1>t, LenProperties
        <4>3. Len(shown) + 1 \in DOMAIN sent
          BY <1>t, <4>1, <4>2
        <4>4. ~IsError(sent[Len(shown) + 1])
          BY <2>1, <4>3
        <4> QED BY <3>1, <4>1, <4>4
      <3> QED BY <1>4, <3>1 DEF AllOf
    <2>4. data = sent
      BY <1>6
    <2> HIDE DEF data
    <2> QED BY <2>1, <2>2, <2>3, <2>4 DEF WholeAnswer, data
  <1> QED BY <1>5, <1>6

\* For streams of any length and channels of any depth: the client is shown what
\* the reader sent, in order and without a gap, and one that is shown the end was
\* shown everything but an error (execution.go, stream_wrapper.go).  The reader
\* that hands its buffer's bytes on is left out: its lines may be overwritten.
THEOREM AnswerIsWhole == "verbatim" \notin Mode => (Spec => []WholeAnswer)
  <1> SUFFICES ASSUME "verbatim" \notin Mode PROVE Spec => []WholeAnswer
    OBVIOUS
  <1> DEFINE Inv == Told /\ Whole
  <1>1. Init => Inv
    BY InitTold, InitWhole
  <1>2. Inv /\ [Next]_vars => Inv'
    <2>1. Told => mode # "verbatim"
      BY DEF Told, Typed, TypeOK
    <2> QED BY <2>1, NextTold, NextWhole
  <1>3. Inv => WholeAnswer
    BY WholeIsWholeAnswer DEF Told, Typed
  <1> HIDE DEF Inv
  <1> QED BY <1>1, <1>2, <1>3, PTL DEF Spec

=============================================================================
