--------------------------- MODULE DeliveryProofs ---------------------------
(***************************************************************************)
(* Theorems about WsSession and CredentialFiles: what is handed from one   *)
(* goroutine to another is not lost on the way.                            *)
(*                                                                         *)
(* WsSession, for any requests, capacity and answers: a request that waits *)
(* is in the map of pending requests or ends otherwise, and one that has   *)
(* ended leaves the map.                                                   *)
(*                                                                         *)
(* CredentialFiles, for any credentials and bounds: the change of an entry *)
(* keeps its mark until a save of what the entry holds has begun; what the *)
(* loop saves is out of date only if a later change has its mark.          *)
(***************************************************************************)
EXTENDS WsSession, CredentialFiles, SequenceTheorems, TLAPS

-----------------------------------------------------------------------------
(* The relay session                                                       *)

\* The request has been written, or could not be.
Sent == {"waiting"} \cup Final

\* What the reader and the clean-up carry with them.
Shapes ==
  /\ \/ reader = [at |-> reader.at] /\ reader.at \in {"read", "stopped"}
     \/ reader = [at |-> "send", to |-> reader.to, msg |-> reader.msg]
          /\ reader.to \in Request /\ reader.msg \in Message
     \/ reader = [at |-> "finish", to |-> reader.to] /\ reader.to \in Request
  /\ \/ cleanup = [at |-> cleanup.at] /\ cleanup.at \in {"none", "over"}
     \/ cleanup = [at |-> "range", todo |-> cleanup.todo]
     \/ cleanup = [at |-> cleanup.at, todo |-> cleanup.todo, to |-> cleanup.to]
          /\ cleanup.at \in {"error", "close"} /\ cleanup.to \in Request

Typed == TypeOK /\ Shapes

LEMMA Numbers == End \in Nat /\ Error \in Nat /\ End \in Message /\ Error \in Message
                 /\ End # Error /\ Message \subseteq Nat /\ 1..End \subseteq Message
  BY SessionAssumption DEF End, Error, Message

LEMMA Offered ==
  ASSUME TypeOK, NEW r \in Request, NEW msg \in Message, Offer(r, msg)
  PROVE  /\ channel' \in [Request -> Seq(Message)]
         /\ \A s \in Request : Len(channel'[s]) <= Capacity
         /\ panicked' = IF r \in chClosed THEN "send on closed channel" ELSE panicked
  <1>1. CASE r \in chClosed
    BY <1>1 DEF Offer, TypeOK, Panic
  <1>2. CASE r \notin chClosed
    <2>0. channel[r] \in Seq(Message)
      BY DEF TypeOK
    <2>1. channel[r] \in Seq(Message) /\ Len(channel[r]) \in Nat
      BY <2>0, LenProperties
    <2>2. Append(channel[r], msg) \in Seq(Message)
          /\ Len(Append(channel[r], msg)) = Len(channel[r]) + 1
      BY <2>1, AppendProperties
    <2>3. channel' = [channel EXCEPT ![r] =
                        IF Len(channel[r]) < Capacity THEN Append(channel[r], msg)
                        ELSE channel[r]]
          /\ panicked' = panicked
      BY <1>2 DEF Offer
    <2>4. CASE Len(channel[r]) < Capacity
      <3>1. Len(channel[r]) + 1 <= Capacity
        BY <2>1, <2>4, SessionAssumption
      <3> QED BY <1>2, <2>2, <2>3, <2>4, <3>1 DEF TypeOK
    <2>5. CASE ~(Len(channel[r]) < Capacity)
      BY <1>2, <2>3, <2>5 DEF TypeOK
    <2> QED BY <2>4, <2>5
  <1> QED BY <1>1, <1>2

LEMMA InitTyped == Init => Typed
  <1> SUFFICES ASSUME Init PROVE Typed
    OBVIOUS
  <1>1. channel \in [Request -> Seq(Message)] /\ \A r \in Request : Len(channel[r]) <= Capacity
    <2>1. <<>> \in Seq(Message) /\ Len(<<>>) = 0
      BY EmptySeq
    <2> QED BY <2>1, SessionAssumption DEF Init
  <1>2. answer \in [Request -> 0..End]
    BY Numbers DEF Init
  <1>3. /\ got \in [Request -> SUBSET (1..Chunks)]
        /\ pc \in [Request -> {"new", "load", "check", "write", "waiting"} \cup Final]
    BY DEF Init
  <1> QED
    BY <1>1, <1>2, <1>3 DEF Init, Typed, TypeOK, Shapes, Reading, NotStarted

LEMMA RequestTyped ==
  ASSUME Typed, NEW r \in Request, RequestStep(r) \/ ContextEnds(r) \/ WatchContext(r)
  PROVE  Typed'
  <1> USE DEF Typed, channels, client
  <1>0. answer' \in [Request -> 0..End]
    <2>0. 1 \in 0..End
      BY SessionAssumption DEF End
    <2>1. 1 \in 0..End /\ answer \in [Request -> 0..End]
      BY <2>0 DEF TypeOK
    <2>2. answer' = answer \/ answer' = [answer EXCEPT ![r] = 1]
      BY DEF RequestStep, Store, Load, CheckClosed, Written, WriteFails, ContextEnds,
         WatchContext
    <2> QED BY <2>1, <2>2
  <1>1. pc' \in [Request -> {"new", "load", "check", "write", "waiting"} \cup Final]
    BY DEF RequestStep, Store, Load, CheckClosed, Written, WriteFails, ContextEnds,
       WatchContext, Goto, TypeOK, Final
  <1>2. pending' \subseteq Request /\ chClosed' \subseteq Request
        /\ canceled' \subseteq Request /\ watched' \subseteq Request
        /\ panicked' \in {"no", "send on closed channel", "nil request"}
    BY DEF RequestStep, Store, Load, CheckClosed, Written, WriteFails, ContextEnds,
       WatchContext, DeleteAndClose, Close, Panic, TypeOK
  <1>3. UNCHANGED <<channel, got, connOpen, reader, closed, cleanup>>
    BY DEF RequestStep, Store, Load, CheckClosed, Written, WriteFails, ContextEnds,
       WatchContext
  <1>4. TypeOK'
    BY <1>0, <1>1, <1>2, <1>3 DEF TypeOK
  <1>5. Shapes'
    BY <1>3 DEF Shapes
  <1> QED BY <1>4, <1>5

LEMMA ReaderTyped == Typed /\ Reader => Typed'
  <1> SUFFICES ASSUME Typed, Reader PROVE Typed'
    OBVIOUS
  <1> USE DEF Typed, channels, client
  <1>1. ASSUME NEW r \in Request, ReadMessage(r) PROVE Typed'
    <2>1. answer[r] \in Message /\ answer' \in [Request -> 0..End]
      <3>1. answer[r] \in 1..End /\ answer \in [Request -> 0..End]
            /\ answer' = [answer EXCEPT ![r] = IF answer[r] = End THEN 0 ELSE answer[r] + 1]
        BY <1>1 DEF ReadMessage, TypeOK
      <3>2. (IF answer[r] = End THEN 0 ELSE answer[r] + 1) \in 0..End
        BY <3>1, Numbers
      <3> QED BY <3>1, <3>2, Numbers
    <2>2. \/ reader' = Reading
          \/ reader' = [at |-> "send", to |-> r, msg |-> answer[r]]
      BY <1>1 DEF ReadMessage
    <2>3. UNCHANGED <<pending, channel, chClosed, pc, got, canceled, watched, connOpen,
                      closed, cleanup, panicked>>
      BY <1>1 DEF ReadMessage
    <2>6. reader'.at \in {"read", "send", "finish", "stopped"}
      BY <2>2 DEF Reading
    <2>4. TypeOK'
      BY <2>1, <2>3, <2>6 DEF TypeOK
    <2>5. Shapes'
      BY <2>1, <2>2, <2>3 DEF Shapes, Reading
    <2> QED BY <2>4, <2>5
  <1>2. CASE DispatchSend
    <2>1. reader.to \in Request /\ reader.msg \in Message
      BY <1>2 DEF DispatchSend, Shapes
    <2>2. /\ channel' \in [Request -> Seq(Message)]
          /\ \A s \in Request : Len(channel'[s]) <= Capacity
          /\ panicked' \in {"no", "send on closed channel", "nil request"}
      BY <1>2, <2>1, Offered DEF DispatchSend, TypeOK
    <2>3. \/ reader' = Reading
          \/ reader' = [at |-> "finish", to |-> reader.to]
      BY <1>2 DEF DispatchSend
    <2>4. UNCHANGED <<pending, chClosed, pc, got, canceled, watched, answer, connOpen,
                      closed, cleanup>>
      BY <1>2 DEF DispatchSend
    <2>7. reader'.at \in {"read", "send", "finish", "stopped"}
      BY <2>3 DEF Reading
    <2>5. TypeOK'
      BY <2>2, <2>4, <2>7 DEF TypeOK
    <2>6. Shapes'
      BY <2>1, <2>3, <2>4 DEF Shapes, Reading
    <2> QED BY <2>5, <2>6
  <1>3. CASE DispatchFinish \/ ReaderStops
    <2>1. reader.at = "finish" => reader.to \in Request
      BY DEF Shapes
    <2>4. /\ reader'.at \in {"read", "send", "finish", "stopped"}
          /\ UNCHANGED <<channel, pc, got, canceled, watched, answer, connOpen,
                         closed, cleanup, panicked>>
      BY <1>3 DEF DispatchFinish, ReaderStops, Reading
    <2>5. pending' \subseteq Request /\ chClosed' \subseteq Request
      BY <1>3, <2>1 DEF DispatchFinish, ReaderStops, DeleteAndClose, Close, TypeOK
    <2>2. TypeOK'
      BY <2>4, <2>5 DEF TypeOK
    <2>3. Shapes'
      BY <1>3 DEF DispatchFinish, ReaderStops, Shapes, Reading
    <2> QED BY <2>2, <2>3
  <1> QED BY <1>1, <1>2, <1>3 DEF Reader

LEMMA CleanupTyped ==
  Typed /\ (Cleanup \/ \E who \in Cleaners : StartCleanup(who)) => Typed'
  <1> SUFFICES ASSUME Typed, Cleanup \/ \E who \in Cleaners : StartCleanup(who)
               PROVE  Typed'
    OBVIOUS
  <1> USE DEF Typed, channels, client
  <1>1. ASSUME NEW r \in Request, RangeNext(r) \/ RangeLate(r) PROVE Typed'
    <2>1. /\ UNCHANGED <<pending, channel, chClosed, pc, got, canceled, watched, answer,
                         connOpen, reader, closed, panicked>>
          /\ cleanup' = [at |-> "error", todo |-> cleanup'.todo, to |-> r]
      BY <1>1 DEF RangeNext, RangeLate
    <2>4. cleanup'.at = "error" /\ cleanup'.to = r
      BY <2>1
    <2>2. TypeOK'
      BY <2>1, <2>4 DEF TypeOK
    <2>3. Shapes'
      BY <2>1, <2>4 DEF Shapes
    <2> QED BY <2>2, <2>3
  <1>2. CASE OfferError
    <2>1. cleanup.to \in Request
      BY <1>2 DEF OfferError, Shapes
    <2>2. /\ channel' \in [Request -> Seq(Message)]
          /\ \A s \in Request : Len(channel'[s]) <= Capacity
          /\ panicked' \in {"no", "send on closed channel", "nil request"}
      BY <1>2, <2>1, Offered, Numbers DEF OfferError, TypeOK
    <2>3. cleanup' = [at |-> "close", todo |-> cleanup.todo, to |-> cleanup.to]
      BY <1>2 DEF OfferError, Shapes
    <2>4. UNCHANGED <<pending, chClosed, pc, got, canceled, watched, answer, connOpen,
                      reader, closed>>
      BY <1>2 DEF OfferError
    <2>5. TypeOK'
      BY <2>2, <2>3, <2>4 DEF TypeOK
    <2>6. Shapes'
      BY <2>1, <2>3, <2>4 DEF Shapes
    <2> QED BY <2>5, <2>6
  <1>3. CASE CloseRequest \/ FinishCleanup
    <2>1. cleanup.at = "close" => cleanup.to \in Request
      BY DEF Shapes
    <2>4. /\ UNCHANGED <<channel, pc, got, canceled, watched, answer, reader, closed,
                         panicked>>
          /\ cleanup'.at \in {"range", "over"}
          /\ connOpen' = connOpen \/ connOpen' = FALSE
      BY <1>3 DEF CloseRequest, FinishCleanup
    <2>5. pending' \subseteq Request /\ chClosed' \subseteq Request
      BY <1>3, <2>1 DEF CloseRequest, FinishCleanup, Close, TypeOK
    <2>2. TypeOK'
      BY <2>4, <2>5 DEF TypeOK
    <2>3. Shapes'
      BY <1>3 DEF CloseRequest, FinishCleanup, Shapes
    <2> QED BY <2>2, <2>3
  <1>4. ASSUME NEW who \in Cleaners, StartCleanup(who) PROVE Typed'
    BY <1>4 DEF StartCleanup, TypeOK, Shapes
  <1> QED BY <1>1, <1>2, <1>3, <1>4 DEF Cleanup

LEMMA ConsumerTyped ==
  ASSUME Typed, NEW r \in Request, Consume(r)
  PROVE  Typed'
  <1> USE DEF Typed, channels, client
  <1>1. CASE Receive(r)
    <2>1. channel[r] \in Seq(Message) /\ channel[r] # <<>> /\ Len(channel[r]) <= Capacity
      BY <1>1 DEF Receive, TypeOK
    <2>2. Tail(channel[r]) \in Seq(Message) /\ Len(Tail(channel[r])) <= Capacity
      BY <2>1, HeadTailProperties, SessionAssumption
    <2>3. /\ channel' \in [Request -> Seq(Message)]
          /\ \A s \in Request : Len(channel'[s]) <= Capacity
      BY <1>1, <2>2 DEF Receive, TypeOK
    <2>4. pc' \in [Request -> {"new", "load", "check", "write", "waiting"} \cup Final]
      BY <1>1 DEF Receive, Goto, TypeOK, Final
    <2>5. got' \in [Request -> SUBSET (1..Chunks)]
      BY <1>1 DEF Receive, TypeOK
    <2>6. UNCHANGED <<pending, chClosed, canceled, watched, answer, connOpen, reader,
                      closed, cleanup, panicked>>
      BY <1>1 DEF Receive
    <2>7. TypeOK'
      BY <2>3, <2>4, <2>5, <2>6 DEF TypeOK
    <2>8. Shapes'
      BY <2>6 DEF Shapes
    <2> QED BY <2>7, <2>8
  <1>2. CASE ReceiveClosed(r) \/ GiveUp(r)
    <2>1. pc' \in [Request -> {"new", "load", "check", "write", "waiting"} \cup Final]
      BY <1>2 DEF ReceiveClosed, GiveUp, Goto, TypeOK, Final
    <2>2. UNCHANGED <<pending, channel, chClosed, got, canceled, watched, answer, connOpen,
                      reader, closed, cleanup, panicked>>
      BY <1>2 DEF ReceiveClosed, GiveUp
    <2>3. TypeOK'
      BY <2>1, <2>2 DEF TypeOK
    <2>4. Shapes'
      BY <2>2 DEF Shapes
    <2> QED BY <2>3, <2>4
  <1> QED BY <1>1, <1>2 DEF Consume

LEMMA NextTyped == Typed /\ [Next]_vars => Typed'
  <1> SUFFICES ASSUME Typed, [Next]_vars PROVE Typed'
    OBVIOUS
  <1>1. CASE UNCHANGED vars
    <2>1. UNCHANGED <<pending, channel, chClosed, pc, got, canceled, watched, answer,
                      connOpen, reader, closed, cleanup, panicked>>
      BY <1>1 DEF vars, channels, client
    <2>2. TypeOK'
      BY <2>1 DEF Typed, TypeOK
    <2>3. Shapes'
      BY <2>1 DEF Typed, Shapes
    <2> QED BY <2>2, <2>3 DEF Typed
  <1> QED
    BY <1>1, RequestTyped, ReaderTyped, CleanupTyped, ConsumerTyped DEF Next

\* Every variable has its type.
THEOREM SessionTypeCorrect == Spec => []TypeOK
  <1>1. Init => Typed
    BY InitTyped
  <1> QED BY <1>1, NextTyped, PTL DEF Spec, Typed

-----------------------------------------------------------------------------
(* The invariant                                                           *)

\* What has been answered, read or watched has been written before.
Order ==
  /\ closed <=> cleanup.at # "none"
  /\ cleanup.at = "over" => ~connOpen
  /\ \A r \in watched : pc[r] \in Sent
  /\ \A r \in Request : answer[r] # 0 => pc[r] \in Sent
  /\ reader.at \in {"send", "finish"} => pc[reader.to] \in Sent

\* Until the session closes, nothing deletes a request before it is written.
Fresh == ~closed => \A r \in Request : pc[r] \in {"load", "check", "write"} => r \in pending

\* Until the clean-up is over, a request that waits is pending, or its channel
\* is closed.
Held ==
  cleanup.at # "over" =>
    \A r \in Request : pc[r] \in {"write", "waiting"} => r \in pending \/ r \in chClosed

\* The clean-up has still to come to every request that was pending when it
\* began; those that are stored later are refused.
Left ==
  cleanup.at \in {"range", "error", "close"} =>
    \A r \in pending :
      \/ pc[r] \in {"load", "check"}
      \/ r \in cleanup.todo \/ r \in chClosed
      \/ cleanup.at \in {"error", "close"} /\ cleanup.to = r

\* Whoever is in the map has a goroutine that will delete it.
Kept ==
  /\ \A r \in pending : pc[r] # "new" /\ (pc[r] \in Sent => r \in watched \/ closed)
  /\ cleanup.at = "over" => \A r \in pending : pc[r] \in {"load", "check"}

\* While no clean-up has begun and no context has ended, only the last message
\* for a request, or a write that failed, closes its channel.
Calm ==
  /\ reader.at = "finish" => answer[reader.to] = 0
  /\ reader.at = "send" /\ reader.msg = End => answer[reader.to] = 0
  /\ (~closed /\ canceled = {}) =>
       /\ panicked = "no"
       /\ \A r \in chClosed : /\ pc[r] \in Sent /\ answer[r] = 0
                              /\ ~(reader.at = "send" /\ reader.to = r)

Sound == Typed /\ Order /\ Fresh /\ Held /\ Left /\ Kept /\ Calm /\ NoOrphan

LEMMA InitSound == Init => Sound
  <1> SUFFICES ASSUME Init PROVE Sound
    OBVIOUS
  <1>1. Order /\ Fresh /\ Held /\ Left /\ Kept /\ Calm /\ NoOrphan
    BY DEF Init, Order, Fresh, Held, Left, Kept, Calm, NoOrphan, Reading, NotStarted
  <1> QED BY <1>1, InitTyped DEF Sound

LEMMA PcTyped ==
  ASSUME TypeOK
  PROVE  /\ pc \in [Request -> {"new", "load", "check", "write", "waiting"} \cup Final]
         /\ {"new", "load", "check", "write"} \cap Sent = {} /\ Final \subseteq Sent
         /\ "waiting" \in Sent /\ "waiting" \notin Final
         /\ answer \in [Request -> 0..End] /\ pending \subseteq Request
         /\ chClosed \subseteq Request /\ watched \subseteq Request
  BY DEF TypeOK, Sent, Final

LEMMA RequestSound ==
  ASSUME Sound, panicked = "no", NEW r \in Request,
         RequestStep(r) \/ ContextEnds(r) \/ WatchContext(r)
  PROVE  Order' /\ Fresh' /\ Held' /\ Left' /\ Kept' /\ Calm' /\ NoOrphan'
  <1> USE DEF channels, client, Goto
  <1>t. /\ TypeOK
        /\ pc \in [Request -> {"new", "load", "check", "write", "waiting"} \cup Final]
        /\ {"new", "load", "check", "write"} \cap Sent = {} /\ Final \subseteq Sent
        /\ "waiting" \in Sent /\ "waiting" \notin Final
        /\ answer \in [Request -> 0..End] /\ pending \subseteq Request
        /\ chClosed \subseteq Request /\ watched \subseteq Request
    BY PcTyped DEF Sound, Typed
  <1>1. CASE Store(r)
    BY <1>1, <1>t DEF Store, Sound, Order, Fresh, Held, Left, Kept, Calm, NoOrphan
  <1>2. CASE Load(r)
    <2>1. CASE r \in pending
      <3>1. /\ pc' = [pc EXCEPT ![r] = "check"] /\ pc[r] = "load"
            /\ UNCHANGED <<pending, chClosed, channel, got, canceled, watched, answer,
                           connOpen, reader, closed, cleanup, panicked>>
        BY <1>2, <2>1 DEF Load
      <3> QED
        BY <1>t, <2>1, <3>1 DEF Sound, Order, Fresh, Held, Left, Kept, Calm, NoOrphan
    <2>2. CASE r \notin pending
      <3>1. /\ pc[r] = "load" /\ panicked' = "nil request"
            /\ UNCHANGED <<pc, pending, chClosed, channel, got, canceled, watched, answer,
                           connOpen, reader, closed, cleanup>>
        BY <1>2, <2>2 DEF Load, Panic
      <3>2. closed
        BY <2>2, <3>1 DEF Sound, Fresh
      <3> QED
        BY <3>1, <3>2 DEF Sound, Order, Fresh, Held, Left, Kept, Calm, NoOrphan, Sent, Final
    <2> QED BY <2>1, <2>2
  <1>3. CASE CheckClosed(r)
    <2>1. CASE closed
      <3>1. /\ pc' = [pc EXCEPT ![r] = "refused"] /\ pc[r] = "check"
            /\ pending' = pending \ {r}
            /\ chClosed' = IF r \in pending THEN chClosed \cup {r} ELSE chClosed
            /\ UNCHANGED <<channel, got, canceled, watched, answer, connOpen, reader,
                           closed, cleanup, panicked>>
        BY <1>3, <2>1 DEF CheckClosed, DeleteAndClose, Close
      <3> QED
        BY <1>t, <2>1, <3>1 DEF Sound, Order, Fresh, Held, Left, Kept, Calm, NoOrphan, Final
    <2>2. CASE ~closed
      <3>1. /\ pc' = [pc EXCEPT ![r] = "write"] /\ pc[r] = "check"
            /\ UNCHANGED <<pending, chClosed, channel, got, canceled, watched, answer,
                           connOpen, reader, closed, cleanup, panicked>>
        BY <1>3, <2>2 DEF CheckClosed
      <3> QED
        BY <1>t, <2>2, <3>1 DEF Sound, Order, Fresh, Held, Left, Kept, Calm, NoOrphan
    <2> QED BY <2>1, <2>2
  <1>4. CASE Written(r)
    BY <1>4, <1>t DEF Written, Sound, Order, Fresh, Held, Left, Kept, Calm, NoOrphan
  <1>5. CASE WriteFails(r)
    <2>1. /\ pc' = [pc EXCEPT ![r] = "refused"] /\ pc[r] = "write"
          /\ pending' = pending \ {r}
          /\ chClosed' = IF r \in pending THEN chClosed \cup {r} ELSE chClosed
          /\ UNCHANGED <<channel, got, canceled, watched, answer, connOpen, reader,
                         closed, cleanup, panicked>>
      BY <1>5 DEF WriteFails, DeleteAndClose, Close
    <2>2. "refused" \in Final
      BY DEF Final
    <2> QED
      BY <1>t, <2>1, <2>2 DEF Sound, Order, Fresh, Held, Left, Kept, Calm, NoOrphan
  <1>6. CASE ContextEnds(r)
    BY <1>6, <1>t DEF ContextEnds, Sound, Order, Fresh, Held, Left, Kept, Calm, NoOrphan
  <1>7. CASE WatchContext(r)
    <2>1. /\ r \in watched /\ watched' = watched \ {r}
          /\ UNCHANGED <<channel, pc, got, canceled, answer, connOpen, reader, closed,
                         cleanup, panicked>>
          /\ \/ /\ r \in canceled /\ pending' = pending \ {r}
                /\ chClosed' = IF r \in pending THEN chClosed \cup {r} ELSE chClosed
             \/ closed /\ UNCHANGED <<pending, chClosed>>
      BY <1>7 DEF WatchContext, DeleteAndClose, Close
    <2> QED
      BY <1>t, <2>1 DEF Sound, Order, Fresh, Held, Left, Kept, Calm, NoOrphan
  <1> QED
    BY <1>1, <1>2, <1>3, <1>4, <1>5, <1>6, <1>7 DEF RequestStep

LEMMA ConsumerSound ==
  ASSUME Sound, NEW r \in Request, Consume(r)
  PROVE  Order' /\ Fresh' /\ Held' /\ Left' /\ Kept' /\ Calm' /\ NoOrphan'
  <1>t. /\ pc \in [Request -> {"new", "load", "check", "write", "waiting"} \cup Final]
        /\ {"new", "load", "check", "write"} \cap Sent = {} /\ Final \subseteq Sent
        /\ "waiting" \in Sent /\ "waiting" \notin Final
        /\ pending \subseteq Request /\ chClosed \subseteq Request /\ watched \subseteq Request
    BY PcTyped DEF Sound, Typed
  <1>1. /\ pc[r] = "waiting"
        /\ pc' = pc \/ \E end \in Final : pc' = [pc EXCEPT ![r] = end]
        /\ UNCHANGED <<pending, chClosed, canceled, watched, answer, connOpen, reader,
                       closed, cleanup, panicked>>
    BY DEF Consume, Receive, ReceiveClosed, GiveUp, Goto, Final, channels, client
  <1>2. CASE pc' = pc
    BY <1>1, <1>2 DEF Sound, Order, Fresh, Held, Left, Kept, Calm, NoOrphan
  <1>3. ASSUME NEW end \in Final, pc' = [pc EXCEPT ![r] = end]
        PROVE  Order' /\ Fresh' /\ Held' /\ Left' /\ Kept' /\ Calm' /\ NoOrphan'
    <2>1. /\ pc'[r] \in Sent /\ pc'[r] # "waiting" /\ pc[r] \in Sent
          /\ \A s \in Request : s # r => pc'[s] = pc[s]
      BY <1>1, <1>3, <1>t
    <2>2. \A s \in Request : /\ pc'[s] \in Sent <=> pc[s] \in Sent
                             /\ pc'[s] = "waiting" => pc[s] = "waiting"
                             /\ \A w \in {"new", "load", "check", "write"} :
                                  pc'[s] = w <=> pc[s] = w
      BY <1>t, <2>1
    <2>3. reader.at \in {"send", "finish"} => reader.to \in Request
      BY DEF Sound, Typed, Shapes
    <2> QED
      BY <1>1, <1>t, <2>2, <2>3 DEF Sound, Order, Fresh, Held, Left, Kept, Calm, NoOrphan
  <1> QED BY <1>1, <1>2, <1>3

LEMMA ReaderSound ==
  ASSUME Sound, panicked = "no", Reader
  PROVE  Order' /\ Fresh' /\ Held' /\ Left' /\ Kept' /\ Calm' /\ NoOrphan'
  <1> USE DEF channels, client
  <1>t. /\ pc \in [Request -> {"new", "load", "check", "write", "waiting"} \cup Final]
        /\ {"new", "load", "check", "write"} \cap Sent = {}
        /\ answer \in [Request -> 0..End] /\ pending \subseteq Request
        /\ chClosed \subseteq Request /\ watched \subseteq Request
        /\ TypeOK
        /\ reader.at \in {"send", "finish"} => reader.to \in Request
        /\ reader.at = "send" => reader.msg \in Message
    BY PcTyped DEF Sound, Typed, Shapes
  <1>1. ASSUME NEW r \in Request, ReadMessage(r)
        PROVE  Order' /\ Fresh' /\ Held' /\ Left' /\ Kept' /\ Calm' /\ NoOrphan'
    <2>1. /\ answer[r] \in 1..End
          /\ answer' = [answer EXCEPT ![r] = IF answer[r] = End THEN 0 ELSE answer[r] + 1]
          /\ UNCHANGED <<pending, channel, chClosed, pc, got, canceled, watched, connOpen,
                         closed, cleanup, panicked>>
          /\ \/ reader'.at = "read"
             \/ reader'.at = "send" /\ reader'.to = r /\ reader'.msg = answer[r]
      BY <1>1 DEF ReadMessage, Reading
    <2>2. answer[r] # 0 /\ pc[r] \in Sent
      BY <2>1, Numbers DEF Sound, Order
    <2>3. \A s \in Request : s # r => answer'[s] = answer[s]
      BY <2>1, <1>t
    <2>4. answer[r] = End => answer'[r] = 0
      BY <2>1, <1>t
    <2> QED
      BY <1>t, <2>1, <2>2, <2>3, <2>4
         DEF Sound, Order, Fresh, Held, Left, Kept, Calm, NoOrphan
  <1>2. CASE DispatchSend
    <2>1. /\ reader.at = "send"
          /\ UNCHANGED <<pending, chClosed, pc, got, canceled, watched, answer, connOpen,
                         closed, cleanup>>
          /\ \/ reader'.at = "read"
             \/ reader'.at = "finish" /\ reader'.to = reader.to /\ reader.msg = End
      BY <1>2 DEF DispatchSend, Reading
    <2>2. panicked' = panicked \/ reader.to \in chClosed
      BY <1>2 DEF DispatchSend, Offer
    <2> QED
      BY <1>t, <2>1, <2>2 DEF Sound, Order, Fresh, Held, Left, Kept, Calm, NoOrphan
  <1>3. CASE DispatchFinish
    <2>1. /\ reader.at = "finish" /\ reader'.at = "read"
          /\ pending' = pending \ {reader.to}
          /\ chClosed' = IF reader.to \in pending THEN chClosed \cup {reader.to} ELSE chClosed
          /\ UNCHANGED <<channel, pc, got, canceled, watched, answer, connOpen, closed,
                         cleanup, panicked>>
      BY <1>3 DEF DispatchFinish, DeleteAndClose, Close, Reading
    <2> QED
      BY <1>t, <2>1 DEF Sound, Order, Fresh, Held, Left, Kept, Calm, NoOrphan
  <1>4. CASE ReaderStops
    BY <1>4 DEF ReaderStops, Sound, Order, Fresh, Held, Left, Kept, Calm, NoOrphan
  <1> QED BY <1>1, <1>2, <1>3, <1>4 DEF Reader

LEMMA CleanupSound ==
  ASSUME Sound, panicked = "no", Cleanup \/ \E who \in Cleaners : StartCleanup(who)
  PROVE  Order' /\ Fresh' /\ Held' /\ Left' /\ Kept' /\ Calm' /\ NoOrphan'
  <1> USE DEF channels, client
  <1>t. /\ pc \in [Request -> {"new", "load", "check", "write", "waiting"} \cup Final]
        /\ {"new", "load", "check", "write"} \cap Sent = {}
        /\ pending \subseteq Request /\ chClosed \subseteq Request /\ watched \subseteq Request
    BY PcTyped DEF Sound, Typed
  <1>1. ASSUME NEW who \in Cleaners, StartCleanup(who)
        PROVE  Order' /\ Fresh' /\ Held' /\ Left' /\ Kept' /\ Calm' /\ NoOrphan'
    <2>1. /\ cleanup.at = "none" /\ closed'
          /\ cleanup'.at = "range" /\ cleanup'.todo = pending
          /\ reader'.at = "stopped" \/ reader' = reader
          /\ UNCHANGED <<pending, channel, chClosed, pc, got, canceled, watched, answer,
                         connOpen, panicked>>
      BY <1>1 DEF StartCleanup
    <2> QED
      BY <1>t, <2>1 DEF Sound, Order, Fresh, Held, Left, Kept, Calm, NoOrphan
  <1>2. ASSUME NEW r \in Request, RangeNext(r) \/ RangeLate(r)
        PROVE  Order' /\ Fresh' /\ Held' /\ Left' /\ Kept' /\ Calm' /\ NoOrphan'
    <2>1. /\ cleanup.at = "range" /\ cleanup'.at = "error" /\ cleanup'.to = r
          /\ \A s \in cleanup.todo : s \in cleanup'.todo \/ s = r
          /\ UNCHANGED <<pending, channel, chClosed, pc, got, canceled, watched, answer,
                         connOpen, reader, closed, panicked>>
      BY <1>2 DEF RangeNext, RangeLate
    <2> QED
      BY <1>t, <2>1 DEF Sound, Order, Fresh, Held, Left, Kept, Calm, NoOrphan
  <1>3. CASE OfferError
    <2>1. /\ cleanup.at = "error"
          /\ cleanup' = [at |-> "close", todo |-> cleanup.todo, to |-> cleanup.to]
          /\ UNCHANGED <<pending, chClosed, pc, got, canceled, watched, answer, connOpen,
                         reader, closed>>
      BY <1>3 DEF OfferError, Sound, Typed, Shapes
    <2>2. cleanup'.at = "close" /\ cleanup'.todo = cleanup.todo /\ cleanup'.to = cleanup.to
      BY <2>1
    <2>3. closed
      BY <2>1 DEF Sound, Order
    <2> QED
      BY <1>t, <2>1, <2>2, <2>3 DEF Sound, Order, Fresh, Held, Left, Kept, Calm, NoOrphan
  <1>4. CASE CloseRequest
    <2>1. /\ cleanup.at = "close" /\ chClosed' = chClosed \cup {cleanup.to}
          /\ cleanup'.at = "range" /\ cleanup'.todo = cleanup.todo
          /\ UNCHANGED <<pending, channel, pc, got, canceled, watched, answer, connOpen,
                         reader, closed, panicked>>
      BY <1>4 DEF CloseRequest, Close
    <2>2. closed
      BY <2>1 DEF Sound, Order
    <2> QED
      BY <1>t, <2>1, <2>2 DEF Sound, Order, Fresh, Held, Left, Kept, Calm, NoOrphan
  <1>5. CASE FinishCleanup
    <2>1. /\ cleanup.at = "range" /\ cleanup.todo \cap pending = {}
          /\ pending' = {} /\ connOpen' = FALSE /\ cleanup'.at = "over"
          /\ UNCHANGED <<channel, chClosed, pc, got, canceled, watched, answer, reader,
                         closed, panicked>>
      BY <1>5 DEF FinishCleanup
    <2>2. closed
      BY <2>1 DEF Sound, Order
    <2> QED
      BY <1>t, <2>1, <2>2 DEF Sound, Order, Fresh, Held, Left, Kept, Calm, NoOrphan
  <1> QED BY <1>1, <1>2, <1>3, <1>4, <1>5 DEF Cleanup

LEMMA NextSound == Sound /\ [Next]_vars => Sound'
  <1> SUFFICES ASSUME Sound, [Next]_vars PROVE Sound'
    OBVIOUS
  <1>1. Typed'
    BY NextTyped DEF Sound
  <1>2. Order' /\ Fresh' /\ Held' /\ Left' /\ Kept' /\ Calm' /\ NoOrphan'
    <2>1. CASE UNCHANGED vars
      BY <2>1 DEF vars, channels, client, Sound, Order, Fresh, Held, Left, Kept, Calm,
         NoOrphan
    <2>2. CASE Next
      BY <2>2, RequestSound, ConsumerSound, ReaderSound, CleanupSound DEF Next
    <2> QED BY <2>1, <2>2
  <1> QED BY <1>1, <1>2 DEF Sound

LEMMA SoundAlways == Spec => []Sound
  BY InitSound, NextSound, PTL DEF Spec

\* Once the session has been cleaned up no request waits for a channel that
\* nobody will close.
THEOREM NobodyOrphaned == Spec => []NoOrphan
  BY SoundAlways, PTL DEF Sound

\* No request that has ended stays in the map.
THEOREM NothingLeaks == Spec => []NoLeak
  <1>1. Sound => NoLeak
    BY DEF Sound, Typed, TypeOK, Order, Kept, NoLeak, Sent, Final
  <1> QED BY <1>1, SoundAlways, PTL

\* Without a clean-up or the end of a context nothing panics: the last message
\* for a request is the last that is sent into its channel.
THEOREM PanicsOnlyInDisorder == Spec => []OrderlySession
  <1>1. Sound => OrderlySession
    BY DEF Sound, Calm, OrderlySession
  <1> QED BY <1>1, SoundAlways, PTL

-----------------------------------------------------------------------------
(* The credential files                                                    *)

\* A process that is not there has nothing under way.
Down ==
  ~up =>
    /\ unmarked = {} /\ queue = <<>> /\ batch = {} /\ todo = {}
    /\ \A s \in Saver : saver[s] = Idle
    /\ \A c \in Credential : events[c] = <<>> /\ update[c] = NoUpdate
    /\ handling = None

FilesTyped == FilesTypeOK /\ Down

\* The mark of a change has still to be saved, or is missed.
Marked == unmarked \cup ToSet(queue) \cup batch \cup todo \cup missed

LoopHas(c) == saver["loop"] # Idle /\ saver["loop"].of = c

\* A file that is behind has its mark, or the loop is saving what the entry
\* holds; what the loop saves is out of date only if the change that made it so
\* has its mark.
KeptFor(c) ==
  /\ c \in Behind => c \in Marked \/ LoopHas(c)
  /\ LoopHas(c) => c \in Marked \/ saver["loop"].token = entry[c].token

-----------------------------------------------------------------------------
(* Jobs and marks                                                          *)

LEMMA TokensApart == Gone \in Content /\ NoUpdate \notin Content /\ 0 \in Token /\ Token \subseteq Content
  BY FilesAssumption DEF Content, Token, Gone, NoUpdate

LEMMA JobKinds ==
  ASSUME NEW j \in Job
  PROVE  /\ j.at \in {"idle", "copy", "update", "compare", "write"}
         /\ j.at = "idle" <=> j = Idle
         /\ j.at # "idle" => j.of \in Credential
         /\ j.at \in {"update", "compare", "write"} => j.token \in Content
         /\ j.at = "update" => j.disabled \in BOOLEAN
         /\ j.at = "compare" => /\ [j EXCEPT !.at = "write"] = [at |-> "write", of |-> j.of, token |-> j.token]
                                /\ [j EXCEPT !.at = "write"] \in Job
  <1>1. CASE j = Idle
    BY <1>1 DEF Idle
  <1>2. CASE j \in [at : {"copy"}, of : Credential]
    BY <1>2 DEF Idle
  <1>3. CASE j \in [at : {"update"}, of : Credential, token : Content, disabled : BOOLEAN]
    BY <1>3 DEF Idle
  <1>4. CASE j \in [at : {"compare", "write"}, of : Credential, token : Content]
    <2>1. /\ j.at \in {"compare", "write"} /\ j.of \in Credential /\ j.token \in Content
          /\ [j EXCEPT !.at = "write"] = [at |-> "write", of |-> j.of, token |-> j.token]
      BY <1>4
    <2>2. [at |-> "write", of |-> j.of, token |-> j.token]
             \in [at : {"compare", "write"}, of : Credential, token : Content]
      BY <2>1
    <2>3. j # Idle
      BY <2>1 DEF Idle
    <2> QED
      BY <2>1, <2>2, <2>3 DEF Job
  <1> QED
    BY <1>1, <1>2, <1>3, <1>4 DEF Job

LEMMA JobsMade ==
  ASSUME NEW c \in Credential, NEW t \in Content, NEW d \in BOOLEAN
  PROVE  /\ Idle \in Job /\ Idle.at = "idle"
         /\ [at |-> "copy", of |-> c] \in Job
         /\ [at |-> "update", of |-> c, token |-> t, disabled |-> d] \in Job
         /\ Saving(c, t, d) \in Job
         /\ Saving(c, t, d).at \in {"idle", "compare"}
  <1>1. [at |-> "compare", of |-> c, token |-> t]
            \in [at : {"compare", "write"}, of : Credential, token : Content]
    OBVIOUS
  <1>2. [at |-> "compare", of |-> c, token |-> t] # Idle
    BY DEF Idle
  <1>3. [at |-> "compare", of |-> c, token |-> t].at = "compare"
        /\ [at |-> "compare", of |-> c, token |-> t].of = c
        /\ [at |-> "compare", of |-> c, token |-> t].token = t
    OBVIOUS
  <1>4. Idle.at = "idle"
    BY DEF Idle
  <1>5. CASE d /\ file[c] = Gone
    BY <1>4, <1>5 DEF Saving, Job
  <1>6. CASE ~(d /\ file[c] = Gone)
    <2>1. Saving(c, t, d) = [at |-> "compare", of |-> c, token |-> t]
      BY <1>6 DEF Saving
    <2> QED
      BY <1>1, <1>2, <1>3, <1>4, <2>1 DEF Job
  <1> QED
    BY <1>5, <1>6

LEMMA Savers == "loop" \in Saver /\ "service" \in Saver /\ \A s \in Saver : s # "loop" => s = "service"
  BY DEF Saver

LEMMA JobChanges ==
  ASSUME FilesTypeOK, NEW s \in Saver, NEW j \in Job,
         s = "loop" => j.at \in {"idle", "compare", "write"},
         saver' = [saver EXCEPT ![s] = j]
  PROVE  /\ saver' \in [Saver -> Job] /\ saver'["loop"].at \in {"idle", "compare", "write"}
         /\ saver'[s] = j /\ \A t \in Saver : t # s => saver'[t] = saver[t]
         /\ s # "loop" => saver'["loop"] = saver["loop"]
  <1>1. saver \in [Saver -> Job] /\ saver["loop"].at \in {"idle", "compare", "write"}
    BY DEF FilesTypeOK
  <1> QED
    BY <1>1, Savers

\* Someone at Save has a credential and a token.
LEMMA AtSave ==
  ASSUME FilesTypeOK, NEW s \in Saver, saver[s].at \in {"update", "compare", "write"}
  PROVE  saver[s] \in Job /\ saver[s].of \in Credential /\ saver[s].token \in Content /\ saver[s] # Idle
  BY JobKinds DEF FilesTypeOK

LEMMA MarkDirtied ==
  ASSUME FilesTypeOK, NEW c \in Id, MarkDirty(c)
  PROVE  /\ queue' \in Seq(Id) /\ Len(queue') <= QueueSize
         /\ ToSet(queue) \subseteq ToSet(queue')
         /\ Unmarkable(c) \/ c \in ToSet(queue')
  <1>1. queue \in Seq(Id) /\ Len(queue) \in Nat /\ Len(queue) <= QueueSize /\ QueueSize \in Nat
    BY FilesAssumption DEF FilesTypeOK
  <1>2. CASE Len(queue) < QueueSize
    <2>1. queue' = Append(queue, c)
      BY <1>2 DEF MarkDirty
    <2>2. /\ queue' \in Seq(Id) /\ Len(queue') = Len(queue) + 1
          /\ DOMAIN queue = 1..Len(queue) /\ DOMAIN queue' = 1..(Len(queue) + 1)
          /\ \A i \in DOMAIN queue : queue'[i] = queue[i]
          /\ queue'[Len(queue) + 1] = c
      BY <1>1, <2>1
    <2>3. DOMAIN queue \subseteq DOMAIN queue' /\ Len(queue) + 1 \in DOMAIN queue'
      BY <1>1, <2>2
    <2>4. Len(queue') <= QueueSize
      BY <1>1, <1>2, <2>2
    <2> QED
      BY <2>2, <2>3, <2>4 DEF ToSet
  <1>3. CASE ~(Len(queue) < QueueSize)
    <2>1. queue' = queue /\ Len(queue) = QueueSize
      BY <1>1, <1>3 DEF MarkDirty
    <2> QED
      BY <1>1, <2>1 DEF Unmarkable
  <1> QED
    BY <1>2, <1>3

LEMMA MarkTaken ==
  ASSUME FilesTypeOK, queue # <<>>, queue' = Tail(queue)
  PROVE  /\ queue' \in Seq(Id) /\ Len(queue') <= QueueSize /\ Head(queue) \in Id
         /\ ToSet(queue) = ToSet(queue') \cup {Head(queue)}
  <1>1. queue \in Seq(Id) /\ Len(queue) <= QueueSize /\ QueueSize \in Nat
    BY FilesAssumption DEF FilesTypeOK
  <1>2. /\ Len(queue) \in Nat /\ Len(queue) >= 1
        /\ Head(queue) = queue[1] /\ Head(queue) \in Id
        /\ queue' \in Seq(Id) /\ Len(queue') = Len(queue) - 1
        /\ DOMAIN queue = 1..Len(queue) /\ DOMAIN queue' = 1..(Len(queue) - 1)
        /\ \A i \in DOMAIN queue' : queue'[i] = queue[i + 1]
    BY <1>1
  <1>3. ASSUME NEW i \in DOMAIN queue, i # 1 PROVE i - 1 \in DOMAIN queue' /\ queue'[i - 1] = queue[i]
    BY <1>2, <1>3
  <1>4. \A i \in DOMAIN queue' : i + 1 \in DOMAIN queue
    BY <1>2
  <1>5. 1 \in DOMAIN queue /\ Len(queue') <= QueueSize
    BY <1>1, <1>2
  <1> QED
    BY <1>2, <1>3, <1>4, <1>5 DEF ToSet

-----------------------------------------------------------------------------
(* Types of the credential files                                           *)

LEMMA FilesInitTyped == FilesInit => FilesTyped
  <1> SUFFICES ASSUME FilesInit PROVE FilesTyped
    OBVIOUS
  <1>1. file \in [Credential -> Content] /\ issued \in [Credential -> Token]
    BY TokensApart DEF FilesInit
  <1>2. entry \in [Credential -> [token : Content, disabled : BOOLEAN]]
    BY TokensApart DEF FilesInit
  <1>3. saver \in [Saver -> Job] /\ saver["loop"].at \in {"idle", "compare", "write"}
    <2>1. saver = [s \in Saver |-> Idle]
      BY DEF FilesInit
    <2> QED
      BY <2>1, Savers DEF Job, Idle
  <1>4. queue = <<>> /\ batch = {} /\ todo = {} /\ unmarked = {}
    BY DEF FilesInit
  <1>5. queue \in Seq(Id) /\ Len(queue) <= QueueSize
    BY <1>4, FilesAssumption
  <1>6. /\ events \in [Credential -> Seq({"create", "remove"})]
        /\ \A c \in Credential : Len(events[c]) <= MaxEvents
    <2>1. events = [c \in Credential |-> <<>>] /\ <<>> \in Seq({"create", "remove"}) /\ Len(<<>>) = 0
      BY DEF FilesInit
    <2> QED
      BY <2>1, FilesAssumption
  <1>7. /\ up = TRUE /\ pendingWrites = {} /\ handling = None /\ missed = {} /\ failed = {} /\ revived = {}
        /\ auths = file /\ seen = file /\ currentAuths = file /\ update = file
        /\ removals = 0 /\ failures = 0 /\ exits = 0
    BY DEF FilesInit
  <1>8. removals \in 0..MaxRemovals /\ failures \in 0..MaxFailures /\ exits \in 0..MaxExits
    BY <1>7, FilesAssumption
  <1>9. update \in [Credential -> Content \cup {NoUpdate}]
    BY <1>1, <1>7
  <1> QED
    BY <1>1, <1>2, <1>3, <1>4, <1>5, <1>6, <1>7, <1>8, <1>9 DEF FilesTyped, FilesTypeOK, Down

\* The parts of a state that have types of their own.
DiskOK == file \in [Credential -> Content] /\ issued \in [Credential -> Token] /\ up \in BOOLEAN
RegistryOK ==
  /\ entry \in [Credential -> [token : Content, disabled : BOOLEAN]]
  /\ auths \in [Credential -> Content] /\ unmarked \subseteq Credential
MarksOK ==
  /\ queue \in Seq(Id) /\ Len(queue) <= QueueSize
  /\ batch \subseteq Id /\ todo \subseteq Id
SaverOK == saver \in [Saver -> Job] /\ saver["loop"].at \in {"idle", "compare", "write"}
EventsOK ==
  /\ events \in [Credential -> Seq({"create", "remove"})]
  /\ \A c \in Credential : Len(events[c]) <= MaxEvents
WatcherOK ==
  /\ pendingWrites \subseteq Credential /\ handling \in Credential \cup {None}
  /\ seen \in [Credential -> Content] /\ currentAuths \in [Credential -> Content]
  /\ update \in [Credential -> Content \cup {NoUpdate}]
BoundsOK == removals \in 0..MaxRemovals /\ failures \in 0..MaxFailures /\ exits \in 0..MaxExits
HistoryOK == missed \subseteq Credential /\ failed \subseteq Credential /\ revived \subseteq Credential

LEMMA TypeParts ==
  LET Parts == DiskOK /\ RegistryOK /\ MarksOK /\ SaverOK /\ EventsOK /\ WatcherOK /\ BoundsOK /\ HistoryOK
  IN (FilesTypeOK <=> Parts) /\ (FilesTypeOK' <=> Parts')
  BY DEF FilesTypeOK, DiskOK, RegistryOK, MarksOK, SaverOK, EventsOK, WatcherOK, BoundsOK, HistoryOK

LEMMA PartsStay ==
  /\ UNCHANGED <<disk, up>> /\ DiskOK => DiskOK'
  /\ UNCHANGED registry /\ RegistryOK => RegistryOK'
  /\ UNCHANGED marks /\ MarksOK => MarksOK'
  /\ UNCHANGED saver /\ SaverOK => SaverOK'
  /\ UNCHANGED events /\ EventsOK => EventsOK'
  /\ UNCHANGED <<pendingWrites, handling, seen, currentAuths, update>> /\ WatcherOK => WatcherOK'
  /\ UNCHANGED bounds /\ BoundsOK => BoundsOK'
  /\ UNCHANGED history /\ HistoryOK => HistoryOK'
  <1>1. UNCHANGED <<disk, up>> /\ DiskOK => DiskOK'
    BY DEF DiskOK, disk
  <1>2. UNCHANGED registry /\ RegistryOK => RegistryOK'
    BY DEF RegistryOK, registry
  <1>3. UNCHANGED marks /\ MarksOK => MarksOK'
    BY DEF MarksOK, marks
  <1>4. UNCHANGED saver /\ SaverOK => SaverOK'
    BY DEF SaverOK
  <1>5. UNCHANGED events /\ EventsOK => EventsOK'
    BY DEF EventsOK
  <1>6. UNCHANGED <<pendingWrites, handling, seen, currentAuths, update>> /\ WatcherOK => WatcherOK'
    BY DEF WatcherOK
  <1>7. UNCHANGED bounds /\ BoundsOK => BoundsOK'
    BY DEF BoundsOK, bounds
  <1>8. UNCHANGED history /\ HistoryOK => HistoryOK'
    BY DEF HistoryOK, history
  <1> QED
    BY <1>1, <1>2, <1>3, <1>4, <1>5, <1>6, <1>7, <1>8

LEMMA EventAdded ==
  ASSUME EventsOK, NEW c \in Credential, Len(events[c]) < MaxEvents, NEW e \in {"create", "remove"},
         events' = [events EXCEPT ![c] = Append(events[c], e)]
  PROVE  EventsOK'
  <1>1. /\ events[c] \in Seq({"create", "remove"}) /\ Len(events[c]) \in Nat /\ MaxEvents \in Nat
        /\ Append(events[c], e) \in Seq({"create", "remove"})
        /\ Len(Append(events[c], e)) = Len(events[c]) + 1
    BY FilesAssumption DEF EventsOK
  <1>2. Len(Append(events[c], e)) <= MaxEvents
    BY <1>1
  <1>3. events' \in [Credential -> Seq({"create", "remove"})]
    BY <1>1 DEF EventsOK
  <1>4. \A d \in Credential : Len(events'[d]) <= MaxEvents
    BY <1>2 DEF EventsOK
  <1> QED
    BY <1>3, <1>4 DEF EventsOK

LEMMA EventTaken ==
  ASSUME EventsOK, NEW c \in Credential, events[c] # <<>>,
         events' = [events EXCEPT ![c] = Tail(events[c])]
  PROVE  EventsOK'
  <1>1. /\ events[c] \in Seq({"create", "remove"}) /\ Len(events[c]) \in Nat /\ MaxEvents \in Nat
        /\ Len(events[c]) <= MaxEvents
        /\ Tail(events[c]) \in Seq({"create", "remove"})
        /\ Len(Tail(events[c])) = Len(events[c]) - 1
    BY FilesAssumption DEF EventsOK
  <1>2. Len(Tail(events[c])) <= MaxEvents
    BY <1>1
  <1>3. events' \in [Credential -> Seq({"create", "remove"})]
    BY <1>1 DEF EventsOK
  <1>4. \A d \in Credential : Len(events'[d]) <= MaxEvents
    BY <1>2 DEF EventsOK
  <1> QED
    BY <1>3, <1>4 DEF EventsOK

LEMMA ScanTyped ==
  ASSUME FilesTypeOK, Scan
  PROVE  /\ currentAuths' \in [Credential -> Content]
         /\ update' \in [Credential -> Content \cup {NoUpdate}]
  BY DEF FilesTypeOK, Scan

LEMMA LookTyped ==
  ASSUME FilesTypeOK, NEW c \in Credential, LookAt(c)
  PROVE  /\ seen' \in [Credential -> Content] /\ currentAuths' \in [Credential -> Content]
         /\ update' \in [Credential -> Content \cup {NoUpdate}]
  <1>1. CASE UNCHANGED <<seen, currentAuths, update>>
    BY <1>1 DEF FilesTypeOK
  <1>2. CASE seen' = [seen EXCEPT ![c] = file[c]] /\ Scan
    <2>1. seen' \in [Credential -> Content]
      BY <1>2 DEF FilesTypeOK
    <2> QED
      BY <1>2, <2>1, ScanTyped
  <1> QED
    BY <1>1, <1>2 DEF LookAt

\* What each step leaves alone, by the names of the parts.
LEMMA FilesNextTyped == FilesTyped /\ [FilesNext]_filesVars => FilesTyped'
  <1> SUFFICES ASSUME FilesTyped, [FilesNext]_filesVars PROVE FilesTypeOK' /\ Down'
    BY DEF FilesTyped
  <1> DEFINE Parts == DiskOK /\ RegistryOK /\ MarksOK /\ SaverOK /\ EventsOK /\ WatcherOK /\ BoundsOK /\ HistoryOK
  <1>0. FilesTypeOK /\ Parts /\ Down
    BY TypeParts DEF FilesTyped
  <1>1. ASSUME NEW c \in Credential, Renew(c) PROVE FilesTypeOK' /\ Down'
    <2>1. issued[c] \in Nat /\ issued[c] + 1 \in Token
      BY <1>0, <1>1, FilesAssumption DEF Renew, DiskOK, Token
    <2>2. issued' = [issued EXCEPT ![c] = issued[c] + 1] /\ UNCHANGED <<file, up>>
      BY <1>1 DEF Renew
    <2>3. DiskOK' /\ issued'[c] \in Content
      BY <1>0, <2>1, <2>2, TokensApart DEF DiskOK
    <2>4. entry' = [entry EXCEPT ![c].token = issued'[c]] /\ unmarked' = unmarked \cup {c} /\ UNCHANGED auths
      BY <1>1 DEF Renew
    <2>5. RegistryOK'
      BY <1>0, <2>3, <2>4 DEF RegistryOK
    <2>6. UNCHANGED <<marks, saver, events, bounds, history>>
          /\ UNCHANGED <<pendingWrites, handling, seen, currentAuths, update>>
      BY <1>1 DEF Renew, watcher
    <2>7. MarksOK' /\ SaverOK' /\ EventsOK' /\ WatcherOK' /\ BoundsOK' /\ HistoryOK'
      BY <1>0, <2>6, PartsStay
    <2>8. up /\ UNCHANGED up
      BY <1>1 DEF Renew, Known
    <2> QED
      BY <2>3, <2>5, <2>7, <2>8, TypeParts DEF Down
  <1>2. ASSUME NEW c \in Credential, MarkRenewed(c) PROVE FilesTypeOK' /\ Down'
    <2>1. c \in Id /\ MarkDirty(c) /\ UNCHANGED <<batch, todo>>
      BY <1>2 DEF MarkRenewed, Id
    <2>2. MarksOK'
      BY <1>0, <2>1, MarkDirtied DEF MarksOK
    <2>3. c \in unmarked /\ unmarked' = unmarked \ {c} /\ UNCHANGED <<entry, auths>>
          /\ missed' \subseteq missed \cup {c} /\ UNCHANGED <<failed, revived>>
      BY <1>2 DEF MarkRenewed
    <2>4. RegistryOK' /\ HistoryOK'
      BY <1>0, <2>3 DEF RegistryOK, HistoryOK
    <2>5. UNCHANGED <<disk, up, saver, events, bounds>>
          /\ UNCHANGED <<pendingWrites, handling, seen, currentAuths, update>>
      BY <1>2 DEF MarkRenewed, watcher
    <2>6. DiskOK' /\ SaverOK' /\ EventsOK' /\ WatcherOK' /\ BoundsOK'
      BY <1>0, <2>5, PartsStay
    <2>7. up /\ UNCHANGED up
      BY <1>0, <2>3, <2>5 DEF Down, DiskOK
    <2> QED
      BY <2>2, <2>4, <2>6, <2>7, TypeParts DEF Down
  <1>3. ASSUME NEW c \in Id, MarkUsed(c) PROVE FilesTypeOK' /\ Down'
    <2>1. MarkDirty(c) /\ UNCHANGED <<batch, todo>> /\ up /\ UNCHANGED up
      BY <1>3 DEF MarkUsed
    <2>2. MarksOK'
      BY <1>0, <2>1, MarkDirtied DEF MarksOK
    <2>3. UNCHANGED <<disk, up, registry, saver, events, bounds, history>>
          /\ UNCHANGED <<pendingWrites, handling, seen, currentAuths, update>>
      BY <1>3 DEF MarkUsed, watcher
    <2>4. DiskOK' /\ RegistryOK' /\ SaverOK' /\ EventsOK' /\ WatcherOK' /\ BoundsOK' /\ HistoryOK'
      BY <1>0, <2>3, PartsStay
    <2> QED
      BY <2>1, <2>2, <2>4, TypeParts DEF Down
  <1>4. CASE TakeMark
    <2>1. queue # <<>> /\ queue' = Tail(queue) /\ batch' = batch \cup {Head(queue)} /\ UNCHANGED todo
      BY <1>4 DEF TakeMark
    <2>2. MarksOK'
      BY <1>0, <2>1, MarkTaken DEF MarksOK
    <2>3. UNCHANGED <<disk, up, registry, saver, events, bounds, history>>
          /\ UNCHANGED <<pendingWrites, handling, seen, currentAuths, update>>
      BY <1>4 DEF TakeMark, watcher
    <2>4. DiskOK' /\ RegistryOK' /\ SaverOK' /\ EventsOK' /\ WatcherOK' /\ BoundsOK' /\ HistoryOK'
      BY <1>0, <2>3, PartsStay
    <2>5. up /\ UNCHANGED up
      BY <1>0, <2>1, <2>3 DEF Down
    <2> QED
      BY <2>2, <2>4, <2>5, TypeParts DEF Down
  <1>5. CASE FlushPending
    <2>1. batch # {} /\ todo' = batch /\ batch' = {} /\ UNCHANGED queue
      BY <1>5 DEF FlushPending
    <2>2. MarksOK'
      BY <1>0, <2>1 DEF MarksOK
    <2>3. UNCHANGED <<disk, up, registry, saver, events, bounds, history>>
          /\ UNCHANGED <<pendingWrites, handling, seen, currentAuths, update>>
      BY <1>5 DEF FlushPending, watcher
    <2>4. DiskOK' /\ RegistryOK' /\ SaverOK' /\ EventsOK' /\ WatcherOK' /\ BoundsOK' /\ HistoryOK'
      BY <1>0, <2>3, PartsStay
    <2>5. up /\ UNCHANGED up
      BY <1>0, <2>1, <2>3 DEF Down
    <2> QED
      BY <2>2, <2>4, <2>5, TypeParts DEF Down
  <1>6. ASSUME NEW c \in Id, FlushNext(c) PROVE FilesTypeOK' /\ Down'
    <2>1. c \in todo /\ todo' = todo \ {c} /\ UNCHANGED <<queue, batch>>
      BY <1>6 DEF FlushNext
    <2>2. MarksOK'
      BY <1>0, <2>1 DEF MarksOK
    <2>3. SaverOK'
      <3>1. CASE c \in RuntimeOnly
        <4>1. UNCHANGED saver
          BY <1>6, <3>1 DEF FlushNext
        <4> QED
          BY <1>0, <4>1, PartsStay
      <3>2. CASE c \notin RuntimeOnly
        <4>1. c \in Credential /\ entry[c].token \in Content /\ entry[c].disabled \in BOOLEAN
          BY <1>0, <3>2 DEF Id, RegistryOK
        <4>2. saver' = [saver EXCEPT !["loop"] = Saving(c, entry[c].token, entry[c].disabled)]
          BY <1>6, <3>2 DEF FlushNext
        <4>3. PICK j \in Job : j = Saving(c, entry[c].token, entry[c].disabled)
                                /\ j.at \in {"idle", "compare"}
          BY <4>1, JobsMade
        <4>4. saver' = [saver EXCEPT !["loop"] = j]
          BY <4>2, <4>3
        <4> QED
          BY <1>0, <4>3, <4>4, JobChanges, Savers DEF SaverOK
      <3> QED
        BY <3>1, <3>2
    <2>4. UNCHANGED <<disk, up, registry, events, bounds, history>>
          /\ UNCHANGED <<pendingWrites, handling, seen, currentAuths, update>>
      BY <1>6 DEF FlushNext, watcher
    <2>5. DiskOK' /\ RegistryOK' /\ EventsOK' /\ WatcherOK' /\ BoundsOK' /\ HistoryOK'
      BY <1>0, <2>4, PartsStay
    <2>6. up /\ UNCHANGED up
      BY <1>0, <2>1, <2>4 DEF Down
    <2> QED
      BY <2>2, <2>3, <2>5, <2>6, TypeParts DEF Down
  <1>7. ASSUME NEW s \in Saver, Save(s) PROVE FilesTypeOK' /\ Down'
    <2> DEFINE c == saver[s].of
    <2>1. saver[s].at \in {"compare", "write"}
      BY <1>7 DEF Save, SaveCompares, SaveWrites, SaveFails
    <2>2. saver[s] \in Job /\ c \in Credential /\ saver[s].token \in Content /\ saver[s] # Idle
      BY <1>0, <2>1, AtSave
    <2>3. up /\ UNCHANGED up
      BY <1>0, <1>7, <2>2 DEF Down, Save, SaveCompares, SaveWrites, SaveFails
    <2>4. Ends(s) => SaverOK'
      <3> HAVE Ends(s)
      <3> QED
        BY <1>0, <2>2, JobsMade, JobChanges DEF Ends, SaverOK
    <2>5. CASE SaveCompares(s)
      <3>1. SaverOK'
        <4>1. CASE file[c] = saver[s].token
          BY <2>4, <2>5, <4>1 DEF SaveCompares
        <4>2. CASE file[c] # saver[s].token
          <5>1. saver[s].at = "compare" /\ saver' = [saver EXCEPT ![s].at = "write"]
            BY <2>5, <4>2 DEF SaveCompares
          <5>2. /\ saver' = [saver EXCEPT ![s] = [saver[s] EXCEPT !.at = "write"]]
                /\ [saver[s] EXCEPT !.at = "write"] \in Job
                /\ [saver[s] EXCEPT !.at = "write"].at = "write"
            <6>1. /\ [saver[s] EXCEPT !.at = "write"]
                       = [at |-> "write", of |-> c, token |-> saver[s].token]
                  /\ [saver[s] EXCEPT !.at = "write"] \in Job
              BY <2>2, <5>1, JobKinds
            <6>2. saver' = [saver EXCEPT ![s] = [saver[s] EXCEPT !.at = "write"]]
              BY <5>1
            <6> QED
              BY <6>1, <6>2
          <5> QED
            BY <1>0, <5>2, JobChanges DEF SaverOK
        <4> QED
          BY <4>1, <4>2
      <3>2. /\ missed' \subseteq missed /\ pendingWrites' \subseteq pendingWrites \cup {c}
            /\ UNCHANGED <<failed, revived, handling, seen, currentAuths, update>>
        BY <2>5 DEF SaveCompares
      <3>3. HistoryOK' /\ WatcherOK'
        BY <1>0, <2>2, <3>2 DEF HistoryOK, WatcherOK
      <3>4. UNCHANGED <<disk, up, registry, marks, events, bounds>>
        BY <2>5 DEF SaveCompares
      <3>5. DiskOK' /\ RegistryOK' /\ MarksOK' /\ EventsOK' /\ BoundsOK'
        BY <1>0, <3>4, PartsStay
      <3> QED
        BY <2>3, <3>1, <3>3, <3>5, TypeParts DEF Down
    <2>6. CASE SaveWrites(s)
      <3>1. /\ file' = [file EXCEPT ![c] = saver[s].token] /\ UNCHANGED <<issued, up>>
            /\ events' = [events EXCEPT ![c] = Append(events[c], "create")] /\ Len(events[c]) < MaxEvents
            /\ revived' \subseteq revived \cup {c} /\ missed' \subseteq missed \cup {c} /\ UNCHANGED failed
            /\ Ends(s)
        BY <2>6 DEF SaveWrites
      <3>2. DiskOK' /\ HistoryOK'
        BY <1>0, <2>2, <3>1 DEF DiskOK, HistoryOK
      <3>3. EventsOK'
        BY <1>0, <2>2, <3>1, EventAdded
      <3>4. UNCHANGED <<registry, marks, bounds>>
            /\ UNCHANGED <<pendingWrites, handling, seen, currentAuths, update>>
        BY <2>6 DEF SaveWrites
      <3>5. RegistryOK' /\ MarksOK' /\ WatcherOK' /\ BoundsOK'
        BY <1>0, <3>4, PartsStay
      <3> QED
        BY <2>3, <2>4, <3>1, <3>2, <3>3, <3>5, TypeParts DEF Down
    <2>7. CASE SaveFails(s)
      <3>1. /\ failures < MaxFailures /\ failures' = failures + 1 /\ UNCHANGED <<removals, exits>>
            /\ failed' = failed \cup {c} /\ missed' \subseteq missed \cup {c} /\ UNCHANGED revived
            /\ Ends(s)
        BY <2>7 DEF SaveFails
      <3>2. BoundsOK'
        BY <1>0, <3>1, FilesAssumption DEF BoundsOK
      <3>3. HistoryOK'
        BY <1>0, <2>2, <3>1 DEF HistoryOK
      <3>4. UNCHANGED <<disk, up, registry, marks, events>>
            /\ UNCHANGED <<pendingWrites, handling, seen, currentAuths, update>>
        BY <2>7 DEF SaveFails, watcher
      <3>5. DiskOK' /\ RegistryOK' /\ MarksOK' /\ EventsOK' /\ WatcherOK'
        BY <1>0, <3>4, PartsStay
      <3> QED
        BY <2>3, <2>4, <3>1, <3>2, <3>3, <3>5, TypeParts DEF Down
    <2> QED
      BY <1>7, <2>5, <2>6, <2>7 DEF Save
  <1>8. CASE CopyDisabled("service")
    <2> DEFINE c == saver["service"].of
    <2>1. saver["service"] \in Job /\ saver["service"].at = "copy"
      BY <1>0, <1>8, Savers DEF CopyDisabled, SaverOK
    <2>2. c \in Credential /\ saver["service"] # Idle
      BY <2>1, JobKinds DEF Idle
    <2>3. auths[c] \in Content
      BY <1>0, <2>2 DEF RegistryOK
    <2>4. saver' = [saver EXCEPT !["service"] = IF auths[c] = Gone THEN Idle
                      ELSE [at |-> "update", of |-> c, token |-> auths[c], disabled |-> TRUE]]
      BY <1>8 DEF CopyDisabled
    <2>5. SaverOK'
      <3>1. CASE auths[c] = Gone
        BY <1>0, <2>2, <2>3, <2>4, <3>1, JobsMade, JobChanges, Savers DEF SaverOK
      <3>2. CASE auths[c] # Gone
        <4>1. PICK j \in Job : j = [at |-> "update", of |-> c, token |-> auths[c], disabled |-> TRUE]
          BY <2>2, <2>3, JobsMade
        <4>2. saver' = [saver EXCEPT !["service"] = j]
          BY <2>4, <3>2, <4>1
        <4> QED
          BY <1>0, <4>2, JobChanges, Savers DEF SaverOK
      <3> QED
        BY <3>1, <3>2
    <2>6. UNCHANGED <<disk, up, registry, marks, events, bounds, history>>
          /\ UNCHANGED <<pendingWrites, handling, seen, currentAuths, update>>
      BY <1>8 DEF CopyDisabled, watcher
    <2>7. DiskOK' /\ RegistryOK' /\ MarksOK' /\ EventsOK' /\ WatcherOK' /\ BoundsOK' /\ HistoryOK'
      BY <1>0, <2>6, PartsStay
    <2>8. up /\ UNCHANGED up
      BY <1>0, <2>2, <2>6, Savers DEF Down
    <2> QED
      BY <2>5, <2>7, <2>8, TypeParts DEF Down
  <1>9. CASE Update("service")
    <2> DEFINE c == saver["service"].of
               t == saver["service"].token
               d == saver["service"].disabled
    <2>1. saver["service"] \in Job /\ saver["service"].at = "update"
      BY <1>0, <1>9, Savers DEF Update, SaverOK
    <2>2. c \in Credential /\ t \in Content /\ d \in BOOLEAN /\ saver["service"] # Idle /\ c \in Id
      BY <2>1, JobKinds DEF Idle, Id
    <2>3. /\ saver' = [saver EXCEPT !["service"] = Saving(c, t, d)]
          /\ auths' = [auths EXCEPT ![c] = t]
          /\ entry' = [entry EXCEPT ![c] = [token |-> t, disabled |-> d]] /\ UNCHANGED unmarked
          /\ MarkDirty(c) /\ UNCHANGED <<batch, todo>>
          /\ missed' \subseteq missed \cup {c} /\ UNCHANGED <<failed, revived>>
      BY <1>9 DEF Update
    <2> HIDE DEF c, t, d
    <2>4. SaverOK'
      BY <1>0, <2>2, <2>3, JobsMade, JobChanges, Savers DEF SaverOK
    <2>5. RegistryOK' /\ HistoryOK'
      BY <1>0, <2>2, <2>3 DEF RegistryOK, HistoryOK
    <2>6. MarksOK'
      BY <1>0, <2>2, <2>3, MarkDirtied DEF MarksOK
    <2>7. UNCHANGED <<disk, up, events, bounds>>
          /\ UNCHANGED <<pendingWrites, handling, seen, currentAuths, update>>
      BY <1>9 DEF Update, watcher
    <2>8. DiskOK' /\ EventsOK' /\ WatcherOK' /\ BoundsOK'
      BY <1>0, <2>7, PartsStay
    <2>9. up /\ UNCHANGED up
      BY <1>0, <2>2, <2>7, Savers DEF Down
    <2> QED
      BY <2>4, <2>5, <2>6, <2>8, <2>9, TypeParts DEF Down
  <1>10. ASSUME NEW c \in Credential, ApplyUpdate(c) PROVE FilesTypeOK' /\ Down'
    <2>1. /\ update[c] \in Content /\ update[c] # NoUpdate
          /\ update' = [update EXCEPT ![c] = NoUpdate]
          /\ UNCHANGED <<pendingWrites, handling, seen, currentAuths>>
      BY <1>0, <1>10 DEF ApplyUpdate, WatcherOK
    <2>2. WatcherOK'
      BY <1>0, <2>1 DEF WatcherOK
    <2>3. SaverOK'
      <3>1. CASE update[c] = Gone
        <4>1. saver' = [saver EXCEPT !["service"] = [at |-> "copy", of |-> c]]
          BY <1>10, <3>1 DEF ApplyUpdate
        <4> QED
          BY <1>0, <2>1, <4>1, JobsMade, JobChanges, Savers DEF SaverOK
      <3>2. CASE update[c] # Gone
        <4>1. saver' = [saver EXCEPT !["service"] =
                          [at |-> "update", of |-> c, token |-> update[c], disabled |-> FALSE]]
          BY <1>10, <3>2 DEF ApplyUpdate
        <4>2. PICK j \in Job : j = [at |-> "update", of |-> c, token |-> update[c], disabled |-> FALSE]
          BY <2>1, JobsMade
        <4>3. saver' = [saver EXCEPT !["service"] = j]
          BY <4>1, <4>2
        <4> QED
          BY <1>0, <4>3, JobChanges, Savers DEF SaverOK
      <3> QED
        BY <3>1, <3>2
    <2>4. UNCHANGED <<disk, up, registry, marks, events, bounds, history>>
      BY <1>10 DEF ApplyUpdate
    <2>5. DiskOK' /\ RegistryOK' /\ MarksOK' /\ EventsOK' /\ BoundsOK' /\ HistoryOK'
      BY <1>0, <2>4, PartsStay
    <2>6. up /\ UNCHANGED up
      BY <1>0, <2>1, <2>4 DEF Down
    <2> QED
      BY <2>2, <2>3, <2>5, <2>6, TypeParts DEF Down
  <1>11. ASSUME NEW c \in Credential, RemoveFile(c) PROVE FilesTypeOK' /\ Down'
    <2>1. /\ file' = [file EXCEPT ![c] = Gone] /\ removals < MaxRemovals /\ removals' = removals + 1
          /\ UNCHANGED <<issued, up, failures, exits>> /\ Len(events[c]) < MaxEvents
      BY <1>11 DEF RemoveFile
    <2>2. DiskOK' /\ BoundsOK'
      BY <1>0, <2>1, TokensApart, FilesAssumption DEF DiskOK, BoundsOK
    <2>3. EventsOK'
      <3>1. CASE up
        <4>1. events' = [events EXCEPT ![c] = Append(events[c], "remove")]
          BY <1>11, <3>1 DEF RemoveFile
        <4> QED
          BY <1>0, <2>1, <4>1, EventAdded
      <3>2. CASE ~up
        BY <1>0, <1>11, <3>2, PartsStay DEF RemoveFile
      <3> QED
        BY <3>1, <3>2
    <2>4. UNCHANGED <<registry, marks, saver, history>>
          /\ UNCHANGED <<pendingWrites, handling, seen, currentAuths, update>>
      BY <1>11 DEF RemoveFile
    <2>5. RegistryOK' /\ MarksOK' /\ SaverOK' /\ WatcherOK' /\ HistoryOK'
      BY <1>0, <2>4, PartsStay
    <2>6. ~up => UNCHANGED events
      BY <1>11 DEF RemoveFile
    <2>7. Down'
      BY <1>0, <2>1, <2>4, <2>6 DEF Down, registry, marks
    <2> QED
      BY <2>2, <2>3, <2>5, <2>7, TypeParts
  <1>12. ASSUME NEW c \in Credential, SkipEvent(c) \/ HandleEvent(c) PROVE FilesTypeOK' /\ Down'
    <2>1. /\ events[c] # <<>> /\ events' = [events EXCEPT ![c] = Tail(events[c])]
          /\ pendingWrites' = pendingWrites \ {c}
          /\ UNCHANGED <<disk, up, registry, marks, saver, bounds, history>>
      BY <1>12 DEF SkipEvent, HandleEvent
    <2>2. EventsOK'
      BY <1>0, <2>1, EventTaken
    <2>3. UNCHANGED <<seen, currentAuths, update>> \/ LookAt(c)
      BY <1>12 DEF SkipEvent, HandleEvent
    <2>4. /\ seen' \in [Credential -> Content] /\ currentAuths' \in [Credential -> Content]
          /\ update' \in [Credential -> Content \cup {NoUpdate}]
      BY <1>0, <2>3, LookTyped DEF WatcherOK
    <2>5. handling' \in {handling, c}
      BY <1>12 DEF SkipEvent, HandleEvent
    <2>6. WatcherOK'
      BY <1>0, <2>1, <2>4, <2>5 DEF WatcherOK
    <2>7. DiskOK' /\ RegistryOK' /\ MarksOK' /\ SaverOK' /\ BoundsOK' /\ HistoryOK'
      BY <1>0, <2>1, PartsStay
    <2>8. up /\ UNCHANGED up
      BY <1>0, <2>1 DEF Down
    <2> QED
      BY <2>2, <2>6, <2>7, <2>8, TypeParts DEF Down
  <1>13. CASE HandleRemoval
    <2>1. handling # None /\ handling \in Credential /\ handling' = None
          /\ UNCHANGED <<disk, up, registry, marks, saver, events, bounds, history, pendingWrites>>
      BY <1>0, <1>13 DEF HandleRemoval, WatcherOK
    <2>2. LookAt(handling) \/ (seen' = [seen EXCEPT ![handling] = Gone] /\ Scan)
      BY <1>13 DEF HandleRemoval
    <2>3. /\ seen' \in [Credential -> Content] /\ currentAuths' \in [Credential -> Content]
          /\ update' \in [Credential -> Content \cup {NoUpdate}]
      <3>1. CASE LookAt(handling)
        BY <1>0, <2>1, <3>1, LookTyped
      <3>2. CASE seen' = [seen EXCEPT ![handling] = Gone] /\ Scan
        BY <1>0, <3>2, ScanTyped, TokensApart DEF WatcherOK
      <3> QED
        BY <2>2, <3>1, <3>2
    <2>4. WatcherOK'
      BY <1>0, <2>1, <2>3 DEF WatcherOK
    <2>5. DiskOK' /\ RegistryOK' /\ MarksOK' /\ SaverOK' /\ EventsOK' /\ BoundsOK' /\ HistoryOK'
      BY <1>0, <2>1, PartsStay
    <2>6. up /\ UNCHANGED up
      BY <1>0, <2>1 DEF Down
    <2> QED
      BY <2>4, <2>5, <2>6, TypeParts DEF Down
  <1>14. CASE Exit
    <2>1. /\ up' = FALSE /\ UNCHANGED disk
          /\ exits < MaxExits /\ exits' = exits + 1 /\ UNCHANGED <<removals, failures>>
          /\ entry' = [c \in Credential |-> [token |-> Gone, disabled |-> FALSE]]
          /\ auths' = [c \in Credential |-> Gone] /\ unmarked' = {}
          /\ queue' = <<>> /\ batch' = {} /\ todo' = {}
          /\ saver' = [s \in Saver |-> Idle]
          /\ events' = [c \in Credential |-> <<>>] /\ pendingWrites' = {} /\ handling' = None
          /\ seen' = auths' /\ currentAuths' = auths'
          /\ update' = [c \in Credential |-> NoUpdate]
          /\ missed' = {} /\ failed' = {} /\ revived' = {}
      BY <1>14 DEF Exit
    <2>2. DiskOK' /\ RegistryOK'
      BY <1>0, <2>1, TokensApart DEF DiskOK, RegistryOK, disk
    <2>3. MarksOK' /\ HistoryOK'
      <3>1. <<>> \in Seq(Id) /\ Len(<<>>) = 0
        OBVIOUS
      <3> QED
        BY <2>1, <3>1, FilesAssumption DEF MarksOK, HistoryOK
    <2>4. SaverOK'
      BY <2>1, Savers DEF SaverOK, Job, Idle
    <2>5. EventsOK'
      <3>1. <<>> \in Seq({"create", "remove"}) /\ Len(<<>>) = 0
        OBVIOUS
      <3> QED
        BY <2>1, <3>1, FilesAssumption DEF EventsOK
    <2>6. WatcherOK'
      BY <2>1, TokensApart DEF WatcherOK
    <2>7. BoundsOK'
      BY <1>0, <2>1, FilesAssumption DEF BoundsOK
    <2>8. Down'
      BY <2>1 DEF Down
    <2> QED
      BY <2>2, <2>3, <2>4, <2>5, <2>6, <2>7, <2>8, TypeParts
  <1>15. CASE Start
    <2>1. /\ up' = TRUE /\ UNCHANGED disk /\ UNCHANGED unmarked
          /\ entry' = [c \in Credential |-> [token |-> file[c], disabled |-> FALSE]]
          /\ auths' = file /\ seen' = file /\ currentAuths' = file
          /\ update' = [c \in Credential |-> IF file[c] = Gone THEN NoUpdate ELSE file[c]]
          /\ UNCHANGED <<marks, saver, events, pendingWrites, handling, bounds, history>>
      BY <1>15 DEF Start, Loaded
    <2>2. DiskOK' /\ RegistryOK' /\ WatcherOK'
      BY <1>0, <2>1 DEF DiskOK, RegistryOK, WatcherOK, disk
    <2>3. MarksOK' /\ SaverOK' /\ EventsOK' /\ BoundsOK' /\ HistoryOK'
      BY <1>0, <2>1, PartsStay
    <2> QED
      BY <2>1, <2>2, <2>3, TypeParts DEF Down
  <1>16. CASE UNCHANGED filesVars
    <2>1. UNCHANGED <<disk, up, registry, marks, saver, events, bounds, history>>
          /\ UNCHANGED <<pendingWrites, handling, seen, currentAuths, update>>
      BY <1>16 DEF filesVars, disk, registry, marks, bounds, history
    <2>2. Parts'
      BY <1>0, <2>1, PartsStay
    <2> QED
      BY <1>0, <2>1, <2>2, TypeParts DEF Down, registry, marks
  <1> QED
    BY <1>1, <1>2, <1>3, <1>4, <1>5, <1>6, <1>7, <1>8, <1>9, <1>10, <1>11, <1>12, <1>13, <1>14, <1>15, <1>16, Savers
    DEF FilesNext, PersistLoop, Service, Watch

\* Type correctness, for any number of credentials and any bound.
THEOREM FilesTypeCorrect == FilesSpec => []FilesTypeOK
  <1>1. FilesTyped => FilesTypeOK
    BY DEF FilesTyped
  <1> QED
    BY <1>1, FilesInitTyped, FilesNextTyped, PTL DEF FilesSpec

-----------------------------------------------------------------------------
(* No change is forgotten                                                  *)

AllKept == \A c \in Credential : KeptFor(c)

LEMMA BehindFor ==
  ASSUME NEW c \in Credential
  PROVE  c \in Behind <=> file[c] # Gone /\ entry[c].token \notin {Gone, file[c]}
  BY DEF Behind

LEMMA BehindForNext ==
  ASSUME NEW c \in Credential
  PROVE  c \in Behind' <=> file'[c] # Gone /\ entry'[c].token \notin {Gone, file'[c]}
  BY DEF Behind

LEMMA KeptNothingForgotten == AllKept => NothingForgotten
  <1> SUFFICES ASSUME AllKept, NEW c \in Behind PROVE c \in Waiting \cup missed
    BY DEF NothingForgotten
  <1>1. c \in Credential
    BY DEF Behind
  <1>2. KeptFor(c)
    BY <1>1 DEF AllKept
  <1> QED
    BY <1>1, <1>2 DEF KeptFor, Marked, Waiting, LoopHas, Current

\* A credential that has its mark is none that is forgotten;
LEMMA KeptMarked ==
  ASSUME NEW c \in Credential, c \in Marked' PROVE KeptFor(c)'
  BY DEF KeptFor

\* nor is one whose entry and whose loop have not changed and that still has
\* the mark it had;
LEMMA KeptAlone ==
  ASSUME NEW c \in Credential, KeptFor(c),
         entry'[c].token = entry[c].token, file'[c] \in {Gone, file[c]},
         saver'["loop"] = saver["loop"], c \in Marked => c \in Marked'
  PROVE  KeptFor(c)'
  <1>1. LoopHas(c)' <=> LoopHas(c)
    BY DEF LoopHas
  <1>2. c \in Behind' => c \in Behind
    BY BehindFor, BehindForNext
  <1> QED
    BY <1>1, <1>2 DEF KeptFor

\* nor one that the loop does not have and that is not behind.
LEMMA KeptEven ==
  ASSUME NEW c \in Credential, c \notin Behind', ~LoopHas(c)' PROVE KeptFor(c)'
  BY DEF KeptFor

\* The loop has one credential.
LEMMA NotTheLoops ==
  ASSUME NEW c \in Credential, KeptFor(c), ~LoopHas(c), ~LoopHas(c)',
         entry'[c].token = entry[c].token, file'[c] = file[c], c \in Marked => c \in Marked'
  PROVE  KeptFor(c)'
  <1>1. c \in Behind' => c \in Behind
    BY BehindFor, BehindForNext
  <1> QED
    BY <1>1 DEF KeptFor

LEMMA InitKept == FilesInit => AllKept
  <1> SUFFICES ASSUME FilesInit, NEW c \in Credential PROVE KeptFor(c)
    BY DEF AllKept
  <1>1. file[c] = 0 /\ entry[c].token = 0 /\ saver["loop"] = Idle
    BY Savers DEF FilesInit
  <1> QED
    BY <1>1, BehindFor DEF KeptFor, LoopHas

LEMMA NextKept == FilesTyped /\ AllKept /\ [FilesNext]_filesVars => AllKept'
  <1> SUFFICES ASSUME FilesTyped, AllKept, [FilesNext]_filesVars, NEW k \in Credential PROVE KeptFor(k)'
    BY DEF AllKept
  <1>0. FilesTypeOK /\ Down /\ KeptFor(k) /\ SaverOK /\ RegistryOK /\ DiskOK /\ MarksOK
    BY TypeParts DEF FilesTyped, AllKept
  <1> USE DEF disk, registry, marks, watcher, bounds, history
  <1>1. ASSUME NEW c \in Credential, Renew(c) PROVE KeptFor(k)'
    <2>1. /\ entry' = [entry EXCEPT ![c].token = issued'[c]] /\ unmarked' = unmarked \cup {c}
          /\ UNCHANGED <<file, queue, batch, todo, saver, missed>>
      BY <1>1 DEF Renew
    <2>2. k \in Marked \/ k = c => k \in Marked'
      BY <2>1 DEF Marked
    <2>3. CASE k = c
      BY <2>2, <2>3, KeptMarked
    <2>4. CASE k # c
      <3>1. entry'[k] = entry[k]
        BY <1>0, <2>1, <2>4 DEF RegistryOK
      <3> QED
        BY <1>0, <2>1, <2>2, <3>1, KeptAlone
    <2> QED
      BY <2>3, <2>4
  <1>2. ASSUME NEW c \in Credential, MarkRenewed(c) PROVE KeptFor(k)'
    <2>1. /\ unmarked' = unmarked \ {c} /\ MarkDirty(c) /\ c \in Id
          /\ missed' = (IF Unmarkable(c) THEN missed \cup {c} ELSE missed)
          /\ UNCHANGED <<file, entry, batch, todo, saver>>
      BY <1>2 DEF MarkRenewed, Id
    <2>2. ToSet(queue) \subseteq ToSet(queue') /\ (Unmarkable(c) \/ c \in ToSet(queue'))
      BY <1>0, <2>1, MarkDirtied
    <2>3. k \in Marked => k \in Marked'
      BY <2>1, <2>2 DEF Marked
    <2> QED
      BY <1>0, <2>1, <2>3, KeptAlone
  <1>3. ASSUME NEW c \in Id, MarkUsed(c) PROVE KeptFor(k)'
    <2>1. MarkDirty(c) /\ UNCHANGED <<file, entry, unmarked, batch, todo, saver, missed>>
      BY <1>3 DEF MarkUsed
    <2>2. ToSet(queue) \subseteq ToSet(queue')
      BY <1>0, <2>1, MarkDirtied
    <2>3. k \in Marked => k \in Marked'
      BY <2>1, <2>2 DEF Marked
    <2> QED
      BY <1>0, <2>1, <2>3, KeptAlone
  <1>4. CASE TakeMark
    <2>1. /\ queue # <<>> /\ queue' = Tail(queue) /\ batch' = batch \cup {Head(queue)}
          /\ UNCHANGED <<file, entry, unmarked, todo, saver, missed>>
      BY <1>4 DEF TakeMark
    <2>2. ToSet(queue) = ToSet(queue') \cup {Head(queue)}
      BY <1>0, <2>1, MarkTaken
    <2>3. k \in Marked => k \in Marked'
      BY <2>1, <2>2 DEF Marked
    <2> QED
      BY <1>0, <2>1, <2>3, KeptAlone
  <1>5. CASE FlushPending
    <2>1. /\ todo' = batch /\ todo = {} /\ UNCHANGED <<file, entry, unmarked, queue, saver, missed>>
      BY <1>5 DEF FlushPending, LoopWaits
    <2>2. k \in Marked => k \in Marked'
      BY <2>1 DEF Marked
    <2> QED
      BY <1>0, <2>1, <2>2, KeptAlone
  <1>6. ASSUME NEW c \in Id, FlushNext(c) PROVE KeptFor(k)'
    <2>1. /\ c \in todo /\ todo' = todo \ {c} /\ saver["loop"] = Idle
          /\ UNCHANGED <<file, entry, unmarked, queue, batch, missed>>
      BY <1>6 DEF FlushNext
    <2>2. ~LoopHas(k)
      BY <2>1 DEF LoopHas
    <2>3. k # c /\ k \in Marked => k \in Marked'
      BY <2>1 DEF Marked
    <2>4. CASE c \in RuntimeOnly
      <3>1. k # c /\ UNCHANGED saver
        BY <1>6, <2>4, FilesAssumption DEF FlushNext
      <3> QED
        BY <1>0, <2>1, <2>3, <3>1, KeptAlone
    <2>5. CASE c \notin RuntimeOnly
      <3>1. c \in Credential /\ entry[c].token \in Content /\ entry[c].disabled \in BOOLEAN
        BY <1>0, <2>5 DEF Id, RegistryOK
      <3>2. PICK j \in Job : /\ j = Saving(c, entry[c].token, entry[c].disabled)
                             /\ j.at \in {"idle", "compare"}
                             /\ j # Idle => j.of = c /\ j.token = entry[c].token
                             /\ j = Idle => file[c] = Gone
        <4>1. Saving(c, entry[c].token, entry[c].disabled) \in Job
          BY <3>1, JobsMade
        <4>2. CASE entry[c].disabled /\ file[c] = Gone
          <5>1. Saving(c, entry[c].token, entry[c].disabled) = Idle
            BY <4>2 DEF Saving
          <5>2. Idle.at = "idle" /\ Idle \in Job
            BY <4>1, <5>1 DEF Idle
          <5> QED
            BY <4>2, <5>1, <5>2
        <4>3. CASE ~(entry[c].disabled /\ file[c] = Gone)
          <5>1. Saving(c, entry[c].token, entry[c].disabled)
                  = [at |-> "compare", of |-> c, token |-> entry[c].token]
            BY <4>3 DEF Saving
          <5>2. Saving(c, entry[c].token, entry[c].disabled) # Idle
            BY <5>1 DEF Idle
          <5> QED
            BY <4>1, <5>1, <5>2
        <4> QED
          BY <4>2, <4>3
      <3>3. saver' = [saver EXCEPT !["loop"] = j]
        BY <1>6, <2>5, <3>2 DEF FlushNext
      <3>4. saver'["loop"] = j
        BY <1>0, <3>2, <3>3, JobChanges, Savers
      <3>5. CASE k = c
        <4>1. k \in Behind' => j # Idle
          BY <2>1, <3>2, <3>5, BehindForNext
        <4>2. j # Idle => LoopHas(k)' /\ saver'["loop"].token = entry'[k].token
          BY <2>1, <3>2, <3>4, <3>5 DEF LoopHas
        <4>3. LoopHas(k)' => j # Idle
          BY <3>4 DEF LoopHas
        <4> QED
          BY <4>1, <4>2, <4>3 DEF KeptFor
      <3>6. CASE k # c
        <4>1. ~LoopHas(k)'
          BY <3>2, <3>4, <3>6 DEF LoopHas
        <4> QED
          BY <1>0, <2>1, <2>2, <2>3, <3>6, <4>1, NotTheLoops
      <3> QED
        BY <3>5, <3>6
    <2> QED
      BY <2>4, <2>5
  <1>7. ASSUME NEW s \in Saver, Save(s) PROVE KeptFor(k)'
    <2> PICK c : c = saver[s].of
      OBVIOUS
    <2> PICK t : t = saver[s].token
      OBVIOUS
    <2>1. /\ saver[s].at \in {"compare", "write"} /\ s \in Saver
          /\ UNCHANGED <<entry, unmarked, queue, batch, todo>>
      BY <1>7 DEF Save, SaveCompares, SaveWrites, SaveFails
    <2>2. saver[s] \in Job /\ c \in Credential /\ t \in Content /\ saver[s] # Idle
      BY <1>0, <2>1, AtSave
    <2>3. \A l : l \in Marked /\ (l \in missed => l \in missed') => l \in Marked'
      BY <2>1 DEF Marked
    <2>4. Ends(s) => /\ s = "loop" => ~LoopHas(k)'
                     /\ s # "loop" => saver'["loop"] = saver["loop"]
      <3> SUFFICES ASSUME Ends(s) PROVE saver'[s] = Idle /\ (s # "loop" => saver'["loop"] = saver["loop"])
        BY DEF LoopHas
      <3>1. Idle \in Job /\ Idle.at = "idle"
        BY <2>2, JobsMade
      <3>2. saver' = [saver EXCEPT ![s] = Idle]
        BY DEF Ends
      <3> QED
        BY <1>0, <3>1, <3>2, JobChanges
    <2>5. s = "loop" => (LoopHas(k) <=> k = c)
      BY <2>2 DEF LoopHas
    <2>6. Settles(s) => t = entry[c].token
      BY DEF Settles, Current
    <2>7. Settles(s) /\ LoopHas(c) => saver["loop"].token = entry[c].token
      <3> SUFFICES ASSUME Settles(s), LoopHas(c) PROVE saver["loop"].token = entry[c].token
        OBVIOUS
      <3>1. saver["loop"].of = c /\ saver["loop"].at \in {"compare", "write"}
        BY <1>0, Savers, JobKinds DEF LoopHas, SaverOK
      <3> QED
        BY <3>1, Savers DEF Settles, Current
    <2>8. CASE SaveCompares(s) /\ file[c] = t
      <3>1. Ends(s) /\ UNCHANGED file /\ missed' = IF Settles(s) THEN missed \ {c} ELSE missed
        BY <2>8 DEF SaveCompares
      <3>2. CASE k # c
        <4>1. k \in Marked => k \in Marked'
          BY <2>3, <3>1, <3>2
        <4>2. CASE s = "loop"
          <5>1. ~LoopHas(k)
            BY <2>5, <3>2, <4>2
          <5>2. ~LoopHas(k)'
            BY <2>4, <3>1, <4>2
          <5>3. entry'[k].token = entry[k].token /\ file'[k] = file[k]
            BY <2>1, <3>1
          <5> QED
            BY <1>0, <4>1, <5>1, <5>2, <5>3, NotTheLoops
        <4>3. CASE s # "loop"
          BY <1>0, <2>1, <2>4, <3>1, <4>1, <4>3, KeptAlone
        <4> QED
          BY <4>2, <4>3
      <3>3. CASE k = c /\ Settles(s)
        <4>1. k \notin Behind'
          BY <2>1, <2>6, <2>8, <3>1, <3>3, BehindForNext
        <4>2. s = "loop" => KeptFor(k)'
          BY <2>4, <3>1, <4>1, KeptEven
        <4>3. s # "loop" => KeptFor(k)'
          BY <2>1, <2>4, <2>7, <3>1, <3>3, <4>1 DEF KeptFor, LoopHas
        <4> QED
          BY <4>2, <4>3
      <3>4. CASE k = c /\ ~Settles(s)
        <4>1. k \in Marked => k \in Marked'
          BY <2>3, <3>1, <3>4
        <4>2. CASE s = "loop"
          <5>1. t # entry[k].token => k \in Marked
            BY <1>0, <2>5, <3>4, <4>2 DEF KeptFor
          <5>2. k \in Behind' => t # entry[k].token
            BY <2>1, <2>8, <3>1, <3>4, BehindForNext
          <5> QED
            BY <2>4, <3>1, <4>1, <4>2, <5>1, <5>2 DEF KeptFor
        <4>3. CASE s # "loop"
          BY <1>0, <2>1, <2>4, <3>1, <4>1, <4>3, KeptAlone
        <4> QED
          BY <4>2, <4>3
      <3> QED
        BY <3>2, <3>3, <3>4
    <2>9. CASE SaveCompares(s) /\ file[c] # t
      <3>1. saver[s].at = "compare" /\ saver' = [saver EXCEPT ![s].at = "write"] /\ UNCHANGED <<file, missed>>
        BY <2>9 DEF SaveCompares
      <3>2. k \in Marked => k \in Marked'
        BY <2>3, <3>1
      <3>3. PICK j \in Job : j = [saver[s] EXCEPT !.at = "write"]
                             /\ j = [at |-> "write", of |-> c, token |-> t]
        BY <2>2, <3>1, JobKinds
      <3>4. j.at = "write" /\ j.of = c /\ j.token = t /\ j # Idle
        BY <3>3 DEF Idle
      <3>5. saver' = [saver EXCEPT ![s] = j]
        BY <3>1, <3>3
      <3>6. saver'[s] = j /\ (s # "loop" => saver'["loop"] = saver["loop"])
        BY <1>0, <3>4, <3>5, JobChanges
      <3>7. CASE s = "loop"
        <4>1. (LoopHas(k)' <=> LoopHas(k)) /\ saver'["loop"].token = saver["loop"].token
          BY <2>5, <3>4, <3>6, <3>7 DEF LoopHas
        <4>2. k \in Behind' => k \in Behind
          BY <2>1, <3>1, BehindFor, BehindForNext
        <4> QED
          BY <1>0, <2>1, <3>2, <4>1, <4>2 DEF KeptFor
      <3>8. CASE s # "loop"
        BY <1>0, <2>1, <3>1, <3>2, <3>6, <3>8, KeptAlone
      <3> QED
        BY <3>7, <3>8
    <2>10. CASE SaveWrites(s)
      <3>1. /\ file' = [file EXCEPT ![c] = t] /\ Ends(s)
            /\ missed' = IF Settles(s) THEN missed \ {c}
                         ELSE IF s # "loop" /\ ~Current(s) THEN missed \cup {c} ELSE missed
        BY <2>10 DEF SaveWrites
      <3>2. file'[c] = t /\ (k # c => file'[k] = file[k])
        BY <1>0, <2>2, <3>1 DEF DiskOK
      <3>3. CASE k # c
        <4>1. k \in Marked => k \in Marked'
          BY <2>3, <3>1, <3>3
        <4>2. CASE s = "loop"
          BY <1>0, <2>1, <2>4, <2>5, <3>1, <3>2, <3>3, <4>1, <4>2, NotTheLoops
        <4>3. CASE s # "loop"
          BY <1>0, <2>1, <2>4, <3>1, <3>2, <3>3, <4>1, <4>3, KeptAlone
        <4> QED
          BY <4>2, <4>3
      <3>4. CASE k = c /\ Settles(s)
        <4>1. k \notin Behind'
          BY <2>1, <2>6, <3>2, <3>4, BehindForNext
        <4>2. s = "loop" => KeptFor(k)'
          BY <2>4, <3>1, <4>1, KeptEven
        <4>3. s # "loop" => KeptFor(k)'
          BY <2>1, <2>4, <2>7, <3>1, <3>4, <4>1 DEF KeptFor, LoopHas
        <4> QED
          BY <4>2, <4>3
      <3>5. CASE k = c /\ ~Settles(s)
        <4>1. missed \subseteq missed'
          BY <3>1, <3>5
        <4>2. k \in Marked => k \in Marked'
          BY <2>3, <4>1
        <4>3. k \in Behind' => t # entry[k].token
          BY <2>1, <3>2, <3>5, BehindForNext
        <4>4. CASE s = "loop"
          <5>1. t # entry[k].token => k \in Marked
            BY <1>0, <2>5, <3>5, <4>4 DEF KeptFor
          <5> QED
            BY <2>4, <3>1, <4>2, <4>3, <4>4, <5>1 DEF KeptFor
        <4>5. CASE s # "loop"
          <5>1. t # entry[k].token => k \in missed'
            BY <3>1, <3>5, <4>5 DEF Current
          <5>2. k \in missed' => k \in Marked'
            BY DEF Marked
          <5>3. LoopHas(k)' => LoopHas(k) /\ saver'["loop"].token = saver["loop"].token
            BY <2>4, <3>1, <4>5 DEF LoopHas
          <5> QED
            BY <1>0, <2>1, <4>2, <4>3, <5>1, <5>2, <5>3 DEF KeptFor
        <4> QED
          BY <4>4, <4>5
      <3> QED
        BY <3>3, <3>4, <3>5
    <2>11. CASE SaveFails(s)
      <3>1. /\ Ends(s) /\ UNCHANGED file
            /\ missed' = IF s = "loop" THEN missed \cup {c} ELSE missed
        BY <2>11 DEF SaveFails
      <3>2. k \in Marked => k \in Marked'
        BY <2>3, <3>1
      <3>3. CASE s = "loop"
        <4>1. k = c => k \in Marked'
          BY <3>1, <3>3 DEF Marked
        <4>2. k = c => KeptFor(k)'
          BY <4>1, KeptMarked
        <4>3. k # c => KeptFor(k)'
          BY <1>0, <2>1, <2>4, <2>5, <3>1, <3>2, <3>3, NotTheLoops
        <4> QED
          BY <4>2, <4>3
      <3>4. CASE s # "loop"
        BY <1>0, <2>1, <2>4, <3>1, <3>2, <3>4, KeptAlone
      <3> QED
        BY <3>3, <3>4
    <2> QED
      BY <1>7, <2>8, <2>9, <2>10, <2>11 DEF Save
  <1>8. ASSUME saver' = [saver EXCEPT !["service"] = saver'["service"]],
               UNCHANGED <<file, entry, marks, unmarked, missed>>
        PROVE  KeptFor(k)'
    <2>1. saver'["loop"] = saver["loop"]
      BY <1>0, <1>8, Savers DEF SaverOK
    <2>2. k \in Marked => k \in Marked'
      BY <1>8 DEF Marked
    <2> QED
      BY <1>0, <1>8, <2>1, <2>2, KeptAlone
  <1>9. CASE CopyDisabled("service")
    <2>1. saver' = [saver EXCEPT !["service"] = saver'["service"]]
      BY <1>0, <1>9, Savers DEF CopyDisabled, SaverOK
    <2> QED
      BY <1>8, <1>9, <2>1 DEF CopyDisabled
  <1>10. ASSUME NEW c \in Credential, ApplyUpdate(c) PROVE KeptFor(k)'
    <2>1. saver' = [saver EXCEPT !["service"] = saver'["service"]]
      BY <1>0, <1>10, Savers DEF ApplyUpdate, SaverOK
    <2> QED
      BY <1>8, <1>10, <2>1 DEF ApplyUpdate
  <1>11. CASE Update("service")
    <2> PICK c : c = saver["service"].of
      OBVIOUS
    <2>1. saver["service"].at = "update"
      BY <1>11 DEF Update
    <2>2. c \in Credential /\ c \in Id
      BY <1>0, <2>1, AtSave, Savers DEF Id
    <2>3. /\ MarkDirty(c) /\ UNCHANGED <<file, unmarked, batch, todo>>
          /\ missed' = (IF Unmarkable(c) THEN missed \cup {c} ELSE missed)
          /\ entry' = [entry EXCEPT ![c] = [token |-> saver["service"].token,
                                            disabled |-> saver["service"].disabled]]
      BY <1>11 DEF Update
    <2>4. ToSet(queue) \subseteq ToSet(queue') /\ (Unmarkable(c) \/ c \in ToSet(queue'))
      BY <1>0, <2>2, <2>3, MarkDirtied
    <2>5. k \in Marked \/ k = c => k \in Marked'
      BY <2>3, <2>4 DEF Marked
    <2>6. saver'["loop"] = saver["loop"]
      BY <1>0, <1>11, Savers DEF Update, SaverOK
    <2>7. CASE k = c
      BY <2>5, <2>7, KeptMarked
    <2>8. CASE k # c
      <3>1. entry'[k] = entry[k]
        BY <1>0, <2>3, <2>8 DEF RegistryOK
      <3> QED
        BY <1>0, <2>3, <2>5, <2>6, <3>1, KeptAlone
    <2> QED
      BY <2>7, <2>8
  <1>12. ASSUME NEW c \in Credential, RemoveFile(c) PROVE KeptFor(k)'
    <2>1. file'[k] \in {Gone, file[k]}
      BY <1>0, <1>12 DEF RemoveFile, DiskOK
    <2>2. UNCHANGED <<entry, unmarked, queue, batch, todo, saver, missed>>
      BY <1>12 DEF RemoveFile
    <2>3. k \in Marked => k \in Marked'
      BY <2>2 DEF Marked
    <2> QED
      BY <1>0, <2>1, <2>2, <2>3, KeptAlone
  <1>13. ASSUME UNCHANGED <<file, entry, unmarked, queue, batch, todo, saver, missed>> PROVE KeptFor(k)'
    <2>1. k \in Marked => k \in Marked'
      BY <1>13 DEF Marked
    <2> QED
      BY <1>0, <1>13, <2>1, KeptAlone
  <1>14. ASSUME NEW c \in Credential, SkipEvent(c) \/ HandleEvent(c) PROVE KeptFor(k)'
    BY <1>13, <1>14 DEF SkipEvent, HandleEvent
  <1>15. CASE HandleRemoval
    BY <1>13, <1>15 DEF HandleRemoval
  <1>16. CASE Exit
    <2>1. entry'[k].token = Gone /\ saver'["loop"] = Idle
      BY <1>16, Savers DEF Exit
    <2> QED
      BY <2>1, BehindForNext, KeptEven DEF LoopHas
  <1>17. CASE Start
    <2>1. ~up /\ UNCHANGED <<file, saver>> /\ entry' = [c \in Credential |-> [token |-> file[c], disabled |-> FALSE]]
      BY <1>17 DEF Start, Loaded
    <2>2. saver'["loop"] = Idle /\ entry'[k].token = file'[k]
      BY <1>0, <2>1, Savers DEF Down
    <2> QED
      BY <2>2, BehindForNext, KeptEven DEF LoopHas
  <1>18. CASE UNCHANGED filesVars
    BY <1>13, <1>18 DEF filesVars
  <1> QED
    BY <1>1, <1>2, <1>3, <1>4, <1>5, <1>6, <1>7, <1>9, <1>10, <1>11, <1>12, <1>14, <1>15, <1>16, <1>17, <1>18, Savers
    DEF FilesNext, PersistLoop, Service, Watch

\* At every moment a file is behind its entry only while the change waits to be
\* marked, queued or saved, or was missed for one of the three known reasons,
\* however many credentials, renewals, failures and ends of the process.
THEOREM ChangesAreKept == FilesSpec => []NothingForgotten
  <1>1. AllKept => NothingForgotten
    BY KeptNothingForgotten
  <1> QED
    BY <1>1, FilesInitTyped, FilesNextTyped, InitKept, NextKept, PTL DEF FilesSpec
=============================================================================
