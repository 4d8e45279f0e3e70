--------------------------- MODULE LoginFlowProofs ---------------------------
(***************************************************************************)
(* What LoginFlow promises, for every set of logins and kinds of provider. *)
(***************************************************************************)
EXTENDS LoginFlow, TLAPS

-----------------------------------------------------------------------------
(* Types                                                                   *)

Entry == [status : Status, due : BOOLEAN, verifier : BOOLEAN]

LEMMA EntryFields ==
  /\ NoEntry \in Entry
  /\ \A e \in Entry, status \in Status, due \in BOOLEAN :
       /\ [e EXCEPT !.status = status] \in Entry
       /\ [e EXCEPT !.due = due] \in Entry
       /\ Swept(e) \in Entry
       /\ [e EXCEPT !.status = status].status = status
       /\ [e EXCEPT !.due = due].status = e.status
BY DEF Entry, NoEntry, Status, Swept

LEMMA InitTyped == Init => TypeOK
<1> SUFFICES ASSUME Init PROVE TypeOK
  OBVIOUS
<1>1. /\ kind \in [Login -> Kind]
      /\ start \in [Login -> {"idle", "take", "stop", "listen", "register", "done"}]
      /\ prev \in [Login -> Login \cup {NoLogin}]
      /\ forwarders \in [Kind -> Login \cup {NoLogin}]
      /\ listening \subseteq Login /\ unserved \subseteq Kind
  BY DEF Init
<1>2. entry \in [Login -> [status : Status, due : BOOLEAN, verifier : BOOLEAN]]
  BY EntryFields DEF Init, Entry
<1>3. /\ poll \in [Login -> {"off", "wait", "remove", "device", "exchange", "save",
                             "complete", "giveup", "done"}]
      /\ {late, cancelled, saved} \subseteq [Login -> BOOLEAN]
  BY DEF Init
<1>4. /\ got \in [Login -> {"none"} \cup Answer]
      /\ file \in [Login -> {"none", "partial"} \cup Answer]
      /\ writing \in [Login -> {"none"} \cup Answer]
      /\ visits \in [Login -> 0..Visits]
  BY LoginAssumption DEF Init
<1>5. \A l \in Login : start[l] = "done" <=> poll[l] # "off"
  BY DEF Init
<1> QED
  BY <1>1, <1>2, <1>3, <1>4, <1>5 DEF TypeOK

Places == {"off", "wait", "remove", "device", "exchange", "save", "complete",
           "giveup", "done"}

\* What the registry's operations make of an entry.
LEMMA RegistryTyped ==
  ASSUME TypeOK, NEW l \in Login
  PROVE  /\ Create(l) => /\ entry' \in [Login -> Entry]
                         /\ entry'[l].status = "pending"
                         /\ \A m \in Login \ {l} : entry'[m] = entry[m]
         /\ \A status \in Status : SetStatus(l, status) =>
              /\ entry' \in [Login -> Entry]
              /\ entry'[l].status = status
              /\ \A m \in Login \ {l} : entry'[m] = entry[m]
         /\ Fail(l) => /\ entry' \in [Login -> Entry]
                       /\ entry'[l].status = "failed"
                       /\ \A m \in Login \ {l} : entry'[m] = entry[m]
<1>1. entry \in [Login -> Entry] /\ entry[l] \in Entry
  BY DEF TypeOK, Entry
<1> DEFINE pending == [status |-> "pending", due |-> FALSE, verifier |-> HasVerifier(kind[l])]
           unknown == [status |-> "failed", due |-> TRUE, verifier |-> FALSE]
<1>2. pending \in Entry /\ pending.status = "pending"
  BY DEF Entry, Status, HasVerifier
<1>3. unknown \in Entry /\ unknown.status = "failed"
  BY DEF Entry, Status
<1>4. ASSUME NEW status \in Status, SetStatus(l, status)
      PROVE  /\ entry' \in [Login -> Entry]
             /\ entry'[l].status = status
             /\ \A m \in Login \ {l} : entry'[m] = entry[m]
  <2>1. entry' = [entry EXCEPT ![l] = [entry[l] EXCEPT !.status = status]]
    BY <1>1, <1>4 DEF SetStatus
  <2>2. [entry[l] EXCEPT !.status = status] \in Entry
        /\ [entry[l] EXCEPT !.status = status].status = status
    BY <1>1 DEF Entry
  <2> QED
    BY <1>1, <2>1, <2>2
<1>5. "failed" \in Status
  BY DEF Status
<1>6. ASSUME NEW e \in Entry, entry' = [entry EXCEPT ![l] = e]
      PROVE  /\ entry' \in [Login -> Entry] /\ entry'[l] = e
             /\ \A m \in Login \ {l} : entry'[m] = entry[m]
  BY <1>1, <1>6
<1>7. Create(l) => /\ entry' \in [Login -> Entry]
                   /\ entry'[l].status = "pending"
                   /\ \A m \in Login \ {l} : entry'[m] = entry[m]
  <2>1. Create(l) => entry' = [entry EXCEPT ![l] = pending]
    BY DEF Create
  <2> HIDE DEF pending
  <2> QED
    BY <1>2, <1>6, <2>1
<1>8. Fail(l) => /\ entry' \in [Login -> Entry]
                 /\ entry'[l].status = "failed"
                 /\ \A m \in Login \ {l} : entry'[m] = entry[m]
  <2>1. Fail(l) => entry' = [entry EXCEPT ![l] = unknown] \/ SetStatus(l, "failed")
    BY DEF Fail
  <2> HIDE DEF unknown
  <2> QED
    BY <1>3, <1>4, <1>5, <1>6, <2>1
<1> QED
  BY <1>4, <1>7, <1>8

\* What a step of the poller leaves alone, and where the files go.
LEMMA PollFrame ==
  ASSUME TypeOK, NEW l \in Login, Polling(l)
  PROVE  /\ UNCHANGED <<kind, start, prev, forwarders, listening, unserved, visits,
                        writing, late, cancelled>>
         /\ file' \in [Login -> {"none", "partial"} \cup Answer]
         /\ got' \in [Login -> {"none"} \cup Answer]
<1> USE DEF PollRest, starting, browser, TypeOK
<1>1. CASE Tick(l)
  <2>1. file[l] \in Answer
    BY <1>1 DEF Tick
  <2> QED
    BY <1>1, <2>1 DEF Tick
<1>2. CASE RemoveFile(l)
  BY <1>2 DEF RemoveFile
<1>3. CASE TimedOut(l) \/ GiveUp(l) \/ Exchanged(l) \/ ExchangeFails(l)
             \/ DeviceGranted(l) \/ DeviceFails(l)
  BY <1>3 DEF TimedOut, GiveUp, Exchanged, ExchangeFails, DeviceGranted, DeviceFails
<1>4. CASE Save(l) \/ SaveFails(l) \/ Completes(l)
  BY <1>4 DEF Save, SaveFails, Completes
<1> QED
  BY <1>1, <1>2, <1>3, <1>4 DEF Polling

\* What the poller has before it when it removes the callback file.
GotRead == \A l \in Login : poll[l] = "remove" => got[l] # "none"

\* What it does to the place, the entry and the credential of its login.
PollGoesOn(l) ==
  /\ poll'[l] \notin {"off", "complete"}
  /\ UNCHANGED <<entry, saved>>

PollSaves(l) ==
  /\ poll[l] = "save" /\ poll'[l] = "complete"
  /\ saved' = [saved EXCEPT ![l] = TRUE]
  /\ UNCHANGED entry

PollCompletes(l) ==
  /\ poll[l] = "complete" /\ poll'[l] = "done"
  /\ Complete(l)
  /\ UNCHANGED saved

PollCancels(l) ==
  /\ poll[l] = "giveup" /\ poll'[l] = "done"
  /\ CancelEntry(l)
  /\ UNCHANGED saved

PollFails(l) ==
  /\ poll[l] \in {"giveup", "exchange", "save"} /\ poll'[l] = "done"
  /\ Fail(l)
  /\ saved' = saved \/ (Remote /\ saved' = [saved EXCEPT ![l] = TRUE])

LEMMA PollSteps ==
  ASSUME TypeOK, GotRead, NEW l \in Login, Polling(l)
  PROVE  /\ \E p \in Places \ {"off"} : poll' = [poll EXCEPT ![l] = p]
         /\ poll[l] \notin {"off", "done"}
         /\ \/ PollGoesOn(l) /\ poll[l] # "complete"
            \/ PollSaves(l)
            \/ PollCompletes(l)
            \/ PollCancels(l)
            \/ PollFails(l)
<1> DEFINE Moves(p) == poll' = [poll EXCEPT ![l] = p]
<1>0. \A p \in Places : Moves(p) => poll'[l] = p
  BY DEF TypeOK, Places
<1>p. Places = {"off", "wait", "remove", "device", "exchange", "save", "complete",
                "giveup", "done"}
  BY DEF Places
<1>1. CASE TimedOut(l) \/ DeviceFails(l)
  <2>1. Moves("giveup") /\ poll[l] \in {"wait", "device"} /\ UNCHANGED <<entry, saved>>
    BY <1>1 DEF TimedOut, DeviceFails, Goto
  <2> QED
    BY <1>0, <1>p, <2>1 DEF PollGoesOn
<1>2. CASE Exchanged(l) \/ DeviceGranted(l)
  <2>1. Moves("save") /\ poll[l] \in {"exchange", "device"} /\ UNCHANGED <<entry, saved>>
    BY <1>2 DEF Exchanged, DeviceGranted, Goto
  <2> QED
    BY <1>0, <1>p, <2>1 DEF PollGoesOn
<1>3. CASE Tick(l)
  <2>1. Moves("remove") /\ poll[l] = "wait" /\ UNCHANGED <<entry, saved>>
    BY <1>3 DEF Tick, Goto
  <2> QED
    BY <1>0, <1>p, <2>1 DEF PollGoesOn
<1>4. CASE RemoveFile(l)
  <2>1. got[l] \in {"error", "empty", "code"}
    BY <1>4, LoginAssumption DEF RemoveFile, GotRead, TypeOK
  <2>2. Moves("giveup") \/ Moves("wait") \/ Moves("exchange")
    BY <1>4, <2>1 DEF RemoveFile, Goto
  <2>3. poll[l] = "remove" /\ UNCHANGED <<entry, saved>>
    BY <1>4 DEF RemoveFile
  <2> QED
    BY <1>0, <1>p, <2>2, <2>3 DEF PollGoesOn
<1>5. CASE Save(l)
  <2>1. Moves("complete") /\ poll[l] = "save" /\ UNCHANGED entry
        /\ saved' = [saved EXCEPT ![l] = TRUE]
    BY <1>5 DEF Save, Goto
  <2> QED
    BY <1>0, <1>p, <2>1 DEF PollSaves
<1>6. CASE Completes(l)
  <2>1. Moves("done") /\ poll[l] = "complete" /\ Complete(l) /\ UNCHANGED saved
    BY <1>6 DEF Completes, Goto
  <2> QED
    BY <1>0, <1>p, <2>1 DEF PollCompletes
<1>7. CASE GiveUp(l) /\ late[l]
  <2>1. Moves("done") /\ poll[l] = "giveup" /\ CancelEntry(l) /\ UNCHANGED saved
    BY <1>7 DEF GiveUp, Goto
  <2> QED
    BY <1>0, <1>p, <2>1 DEF PollCancels
<1>8. CASE ExchangeFails(l) \/ SaveFails(l) \/ (GiveUp(l) /\ ~late[l])
  <2>1. Moves("done")
    BY <1>8 DEF ExchangeFails, SaveFails, GiveUp, Goto
  <2>2. poll[l] \in {"giveup", "exchange", "save"} /\ Fail(l)
    BY <1>8 DEF ExchangeFails, SaveFails, GiveUp
  <2>3. saved' = saved \/ (Remote /\ saved' = [saved EXCEPT ![l] = TRUE])
    <3>1. CASE ExchangeFails(l) \/ GiveUp(l)
      BY <3>1 DEF ExchangeFails, GiveUp
    <3>2. CASE SaveFails(l)
      BY <3>2, Zenon DEF SaveFails
    <3> QED
      BY <1>8, <3>1, <3>2
  <2> QED
    BY <1>0, <1>p, <2>1, <2>2, <2>3 DEF PollFails
<1> QED
  BY <1>1, <1>2, <1>3, <1>4, <1>5, <1>6, <1>7, <1>8 DEF Polling

-----------------------------------------------------------------------------
(* Every step keeps the types                                              *)

Typed == TypeOK /\ GotRead

\* The handlers that start forwarders leave the rest of a login alone.
LEMMA StartFrame ==
  ASSUME TypeOK, NEW l \in Login, Starting(l)
  PROVE  /\ UNCHANGED <<kind, entry, late, got, saved, file, writing, visits, cancelled>>
         /\ \/ poll' = poll /\ start[l] # "done" /\ start'[l] # "done"
               /\ poll[l] = "off"
            \/ poll' = [poll EXCEPT ![l] = "wait"] /\ start' = [start EXCEPT ![l] = "done"]
         /\ \E p \in {"stop", "listen", "register", "done"} : start' = [start EXCEPT ![l] = p]
<1> USE DEF TypeOK, polling, browser
<1>1. CASE TakePrevious(l)
  BY <1>1 DEF TakePrevious
<1>2. CASE StopPrevious(l)
  BY <1>2 DEF StopPrevious
<1>3. CASE Listen(l)
  BY <1>3 DEF Listen
<1>4. CASE ListenFails(l) \/ NoForwarder(l)
  BY <1>4 DEF ListenFails, NoForwarder, Started
<1>5. CASE RegisterForwarder(l)
  BY <1>5 DEF RegisterForwarder, Started
<1> QED
  BY <1>1, <1>2, <1>3, <1>4, <1>5 DEF Starting

LEMMA StartingTyped == ASSUME Typed, NEW l \in Login, Starting(l) PROVE Typed'
<1>1. TypeOK /\ GotRead
  BY DEF Typed
<1>2. /\ start' \in [Login -> {"idle", "take", "stop", "listen", "register", "done"}]
      /\ poll' \in [Login -> Places]
      /\ \A m \in Login : start'[m] = "done" <=> poll'[m] # "off"
      /\ GotRead'
  <2>1. /\ start \in [Login -> {"idle", "take", "stop", "listen", "register", "done"}]
        /\ poll \in [Login -> Places]
        /\ \A m \in Login : start[m] = "done" <=> poll[m] # "off"
    BY <1>1 DEF TypeOK, Places
  <2>2. /\ got' = got
        /\ \/ poll' = poll /\ start[l] # "done" /\ start'[l] # "done" /\ poll[l] = "off"
           \/ poll' = [poll EXCEPT ![l] = "wait"] /\ start' = [start EXCEPT ![l] = "done"]
        /\ \E p \in {"stop", "listen", "register", "done"} : start' = [start EXCEPT ![l] = p]
    BY <1>1, StartFrame
  <2>3. start' \in [Login -> {"idle", "take", "stop", "listen", "register", "done"}]
    BY <2>1, <2>2
  <2>4. poll' \in [Login -> Places]
    BY <2>1, <2>2 DEF Places
  <2>5. \A m \in Login : start'[m] = "done" <=> poll'[m] # "off"
    BY <2>1, <2>2
  <2>6. GotRead'
    BY <1>1, <2>1, <2>2 DEF GotRead
  <2> QED BY <2>3, <2>4, <2>5, <2>6
<1>3. /\ prev' \in [Login -> Login \cup {NoLogin}]
      /\ forwarders' \in [Kind -> Login \cup {NoLogin}]
      /\ listening' \subseteq Login /\ unserved' \subseteq Kind
  <2> USE <1>1 DEF TypeOK
  <2>1. CASE TakePrevious(l)
    <3>1. forwarders[kind[l]] \in Login \cup {NoLogin}
      OBVIOUS
    <3> QED
      BY <2>1, <3>1 DEF TakePrevious
  <2>3. CASE StopPrevious(l) \/ Listen(l)
    BY <2>3 DEF StopPrevious, Listen
  <2>2. CASE ListenFails(l) \/ NoForwarder(l) \/ RegisterForwarder(l)
    BY <2>2 DEF ListenFails, NoForwarder, RegisterForwarder
  <2> QED
    BY <2>1, <2>2, <2>3 DEF Starting
<1>4. UNCHANGED <<kind, entry, late, got, saved, file, writing, visits, cancelled>>
  BY <1>1, StartFrame
<1> QED
  BY <1>1, <1>2, <1>3, <1>4 DEF Typed, TypeOK, Places

LEMMA PollingTyped == ASSUME Typed, NEW l \in Login, Polling(l) PROVE Typed'
<1>1. TypeOK /\ GotRead
  BY DEF Typed
<1>2. /\ UNCHANGED <<kind, start, prev, forwarders, listening, unserved, visits,
                     writing, late, cancelled>>
      /\ file' \in [Login -> {"none", "partial"} \cup Answer]
      /\ got' \in [Login -> {"none"} \cup Answer]
  BY <1>1, PollFrame
<1>3. /\ poll' \in [Login -> Places]
      /\ \A m \in Login : poll'[m] # "off" <=> poll[m] # "off"
  BY <1>1, PollSteps DEF TypeOK, Places
<1>4. entry' \in [Login -> Entry] /\ saved' \in [Login -> BOOLEAN]
  <2>1. CASE PollGoesOn(l) \/ PollSaves(l)
    BY <1>1, <2>1 DEF PollGoesOn, PollSaves, TypeOK, Entry
  <2>2. CASE PollCompletes(l) \/ PollCancels(l)
    <3>1. "completed" \in Status /\ "cancelled" \in Status
      BY DEF Status
    <3> QED
      BY <1>1, <2>2, <3>1, RegistryTyped
      DEF PollCompletes, PollCancels, Complete, CancelEntry, IfPending, TypeOK, Entry
  <2>3. CASE PollFails(l)
    BY <1>1, <2>3, RegistryTyped DEF PollFails, TypeOK
  <2> QED
    BY <1>1, <2>1, <2>2, <2>3, PollSteps
<1>5. GotRead'
  <2> SUFFICES ASSUME NEW m \in Login, poll'[m] = "remove" PROVE got'[m] # "none"
    BY DEF GotRead
  <2>1. CASE Tick(l)
    BY <1>1, <2>1, LoginAssumption DEF Tick, Goto, GotRead, TypeOK
  <2>2. CASE ~Tick(l)
    <3>1. got' = got
      BY <2>2 DEF Polling, TimedOut, RemoveFile, GiveUp, Exchanged, ExchangeFails,
                  DeviceGranted, DeviceFails, Save, SaveFails, Completes
    <3>2. poll'[l] # "remove" /\ (m # l => poll'[m] = poll[m])
      <4>1. CASE RemoveFile(l)
        BY <1>1, <4>1, LoginAssumption DEF RemoveFile, Goto, GotRead, TypeOK
      <4>2. CASE TimedOut(l) \/ GiveUp(l) \/ Exchanged(l) \/ ExchangeFails(l)
        BY <1>1, <4>2 DEF TimedOut, GiveUp, Exchanged, ExchangeFails, Goto, TypeOK
      <4>3. CASE DeviceGranted(l) \/ DeviceFails(l) \/ Save(l) \/ SaveFails(l) \/ Completes(l)
        BY <1>1, <4>3 DEF DeviceGranted, DeviceFails, Save, SaveFails, Completes, Goto, TypeOK
      <4> QED
        BY <2>2, <4>1, <4>2, <4>3 DEF Polling
    <3> QED
      BY <1>1, <3>1, <3>2 DEF GotRead
  <2> QED
    BY <2>1, <2>2
<1> QED
  BY <1>1, <1>2, <1>3, <1>4, <1>5 DEF Typed, TypeOK, Entry, Places

\* The remaining steps, by what they touch.
LEMMA OthersTyped ==
  ASSUME Typed, NEW l \in Login,
         \/ Begin(l) \/ Cancel(l) \/ Due(l) \/ Deadline(l) \/ Written(l) \/ Cleanup
         \/ \E answer \in Answer : ComeBack(l, answer)
  PROVE  Typed'
<1>1. TypeOK /\ GotRead
  BY DEF Typed
<1>2. CASE Begin(l)
  <2>1. entry' \in [Login -> Entry]
    BY <1>1, <1>2, RegistryTyped DEF Begin
  <2>2. /\ start' \in [Login -> {"idle", "take", "stop", "listen", "register", "done"}]
        /\ poll' \in [Login -> Places]
        /\ \A m \in Login : start'[m] = "done" <=> poll'[m] # "off"
        /\ \A m \in Login : poll'[m] = "remove" => poll[m] = "remove"
    BY <1>1, <1>2 DEF Begin, TypeOK, Places
  <2>3. UNCHANGED <<kind, prev, forwarders, listening, unserved, late, got, saved, file,
                    writing, visits, cancelled>>
    BY <1>2 DEF Begin, browser
  <2> QED
    BY <1>1, <2>1, <2>2, <2>3 DEF Typed, TypeOK, GotRead, Entry, Places
<1>3. CASE Cancel(l)
  <2>1. entry' \in [Login -> Entry]
    <3>1. "cancelled" \in Status
      BY DEF Status
    <3> QED
      BY <1>1, <1>3, <3>1, RegistryTyped DEF Cancel, CancelEntry, IfPending, TypeOK, Entry
  <2>2. cancelled' \in [Login -> BOOLEAN]
    BY <1>1, <1>3 DEF Cancel, TypeOK
  <2> QED
    BY <1>1, <1>3, <2>1, <2>2 DEF Cancel, Typed, TypeOK, GotRead, Entry, starting, polling, browser
<1>4. CASE Due(l) \/ Cleanup
  <2>1. entry' \in [Login -> Entry]
    <3>1. entry \in [Login -> Entry]
      BY <1>1 DEF TypeOK, Entry
    <3>2. CASE Due(l)
      BY <3>1, <3>2 DEF Due, Entry
    <3>3. CASE Cleanup
      BY <3>1, <3>3, EntryFields DEF Cleanup, Swept
    <3> QED
      BY <1>4, <3>2, <3>3
  <2> QED
    BY <1>1, <1>4, <2>1 DEF Due, Cleanup, Typed, TypeOK, GotRead, Entry, starting, polling, browser
<1>5. CASE Deadline(l)
  BY <1>1, <1>5 DEF Deadline, PollRest, Typed, TypeOK, GotRead, starting, browser
<1>6. CASE Written(l)
  <2>1. file' \in [Login -> {"none", "partial"} \cup Answer]
    BY <1>1, <1>6 DEF Written, TypeOK
  <2>2. writing' \in [Login -> {"none"} \cup Answer]
    BY <1>1, <1>6 DEF Written, TypeOK
  <2> QED
    BY <1>1, <1>6, <2>1, <2>2 DEF Written, Typed, TypeOK, GotRead, starting, polling
<1>7. ASSUME NEW answer \in Answer, ComeBack(l, answer) PROVE Typed'
  <2>1. visits' \in [Login -> 0..Visits]
    BY <1>1, <1>7, LoginAssumption DEF ComeBack, TypeOK
  <2>2. file' \in [Login -> {"none", "partial"} \cup Answer]
    BY <1>1, <1>7 DEF ComeBack, TypeOK
  <2>3. writing' \in [Login -> {"none"} \cup Answer]
    BY <1>1, <1>7 DEF ComeBack, TypeOK
  <2> QED
    BY <1>1, <1>7, <2>1, <2>2, <2>3 DEF ComeBack, Typed, TypeOK, GotRead, starting, polling
<1> QED
  BY <1>2, <1>3, <1>4, <1>5, <1>6, <1>7

LEMMA NextTyped == Typed /\ [Next]_vars => Typed'
<1> SUFFICES ASSUME Typed, [Next]_vars PROVE Typed'
  OBVIOUS
<1>1. CASE UNCHANGED vars
  BY <1>1 DEF vars, Typed, TypeOK, GotRead, starting, polling, browser
<1>2. CASE Next
  <2>1. CASE Cleanup
    <3>1. \E l \in Login : TRUE
      BY <2>1 DEF Cleanup
    <3> QED
      BY <2>1, <3>1, OthersTyped
  <2>2. ASSUME NEW l \in Login, Starting(l) PROVE Typed'
    BY <2>2, StartingTyped
  <2>3. ASSUME NEW l \in Login, Polling(l) PROVE Typed'
    BY <2>3, PollingTyped
  <2> QED
    BY <1>2, <2>1, <2>2, <2>3, OthersTyped DEF Next, Starting, Polling
<1> QED
  BY <1>1, <1>2

\* Whatever order requests, browsers and timers come in, every variable of the
\* login flow keeps its type, and a login is polled for once it is started.
THEOREM LoginTypeCorrect == Spec => []TypeOK
<1>1. Init => GotRead
  BY DEF Init, GotRead
<1> QED
  BY <1>1, InitTyped, NextTyped, PTL DEF Spec, Typed

-----------------------------------------------------------------------------
(* The port of a forwarder                                                 *)

\* A port has one owner, which is about to enter itself into the map or has.
OneOwner ==
  /\ \A l, m \in listening : kind[l] = kind[m] => l = m
  /\ \A l \in listening : start[l] \in {"register", "done"}
  /\ \A l \in Login : start[l] = "register" => l \in listening

\* What the map holds has the port and nobody is about to stop it; what a start
\* has taken out of the map is through with its own start.
MapHeld ==
  /\ \A k \in Kind : forwarders[k] # NoLogin =>
       /\ kind[forwarders[k]] = k /\ start[forwarders[k]] = "done"
       /\ forwarders[k] \in listening
       /\ \A m \in Login : prev[m] # forwarders[k]
  /\ \A m \in Login : prev[m] # NoLogin =>
       start[prev[m]] = "done" /\ kind[prev[m]] = kind[m]

\* A port that is held is in the map, or about to be let go.
Owned ==
  \A l \in listening : start[l] = "done" =>
    forwarders[kind[l]] = l \/ \E m \in Login : start[m] = "stop" /\ prev[m] = l

\* Once a login has come through its start, the port of its provider has an owner
\* in the map, or there is another start under way, or the last was denied one.
Served ==
  \A l \in Login : start[l] = "done" /\ kind[l] # "device" =>
    \/ forwarders[kind[l]] # NoLogin
    \/ \E m \in Login : kind[m] = kind[l] /\ start[m] \in {"stop", "listen", "register"}
    \/ kind[l] \in unserved

PortInv == OneOwner /\ MapHeld /\ Owned /\ Served

LEMMA PortInvImplies == TypeOK /\ PortInv => PortHeld
<1> SUFFICES ASSUME TypeOK, PortInv, NEW k \in Kind \ {"device"},
                    \A l \in Login : kind[l] = k => start[l] \in {"idle", "done"}
             PROVE  /\ OnPort(k) = (IF forwarders[k] = NoLogin THEN {} ELSE {forwarders[k]})
                    /\ (\E l \in Login : kind[l] = k /\ start[l] = "done") /\ k \notin unserved
                         => forwarders[k] # NoLogin
  BY Zenon DEF PortHeld
<1>1. \A l \in OnPort(k) : l = forwarders[k] /\ forwarders[k] # NoLogin
  <2> TAKE l \in OnPort(k)
  <2>1. l \in Login /\ l \in listening /\ kind[l] = k /\ start[l] = "done"
    BY DEF OnPort, TypeOK, PortInv, OneOwner
  <2>2. ASSUME NEW m \in Login, start[m] = "stop", prev[m] = l PROVE FALSE
    BY <2>1, <2>2, LoginAssumption DEF PortInv, MapHeld, NoLogin
  <2> QED
    BY <2>1, <2>2, LoginAssumption DEF PortInv, Owned, NoLogin
<1>2. forwarders[k] # NoLogin => forwarders[k] \in OnPort(k)
  BY DEF PortInv, MapHeld, OnPort
<1>3. (\E l \in Login : kind[l] = k /\ start[l] = "done") /\ k \notin unserved
        => forwarders[k] # NoLogin
  BY DEF PortInv, Served
<1> QED
  BY <1>1, <1>2, <1>3

\* What the port invariant reads.
PortVars == <<kind, start, prev, forwarders, listening, unserved>>

LEMMA TakeKeepsPorts ==
  ASSUME TypeOK, PortInv, NEW l \in Login, TakePrevious(l) PROVE PortInv'
<1> DEFINE k == kind[l]
           old == forwarders[k]
<1>1. /\ start[l] = "take" /\ UNCHANGED <<kind, listening, unserved>>
      /\ k \in Kind /\ old \in Login \cup {NoLogin}
      /\ prev' = [prev EXCEPT ![l] = old]
      /\ forwarders' = [forwarders EXCEPT ![k] = NoLogin]
      /\ start' = [start EXCEPT ![l] = "stop"]
  BY DEF TakePrevious, TypeOK
<1>2. /\ start'[l] = "stop" /\ prev'[l] = old /\ forwarders'[k] = NoLogin
      /\ \A m \in Login \ {l} : start'[m] = start[m] /\ prev'[m] = prev[m]
      /\ \A c \in Kind \ {k} : forwarders'[c] = forwarders[c]
  BY <1>1 DEF TypeOK
<1>3. /\ l \notin listening
      /\ \A m \in Login : kind[m] \in Kind
      /\ listening \subseteq Login
  BY <1>1 DEF PortInv, OneOwner, TypeOK
<1> HIDE DEF k, old
<1>k. k = kind[l] /\ old = forwarders[k]
  BY DEF k, old
<1>4. OneOwner'
  BY <1>1, <1>2, <1>3 DEF PortInv, OneOwner
<1>5. MapHeld'
  <2>1. ASSUME NEW c \in Kind, forwarders'[c] # NoLogin
        PROVE  /\ kind'[forwarders'[c]] = c /\ start'[forwarders'[c]] = "done"
               /\ forwarders'[c] \in listening'
               /\ \A m \in Login : prev'[m] # forwarders'[c]
    <3>1. c # k /\ forwarders'[c] = forwarders[c]
      BY <1>2, <2>1
    <3>2. /\ kind[forwarders[c]] = c /\ start[forwarders[c]] = "done"
          /\ forwarders[c] \in listening
          /\ \A m \in Login : prev[m] # forwarders[c]
      BY <2>1, <3>1 DEF PortInv, MapHeld
    <3>3. forwarders[c] \in Login \ {l}
      BY <1>3, <3>2
    <3>4. old # forwarders[c]
      BY <1>k, <1>1, <3>1, <3>2, <2>1 DEF PortInv, MapHeld
    <3> QED
      BY <1>1, <1>2, <3>1, <3>2, <3>3, <3>4
  <2>2. ASSUME NEW m \in Login, prev'[m] # NoLogin
        PROVE  start'[prev'[m]] = "done" /\ kind'[prev'[m]] = kind'[m]
    <3>1. CASE m = l
      <4>1. old # NoLogin /\ prev'[m] = old
        BY <1>2, <2>2, <3>1
      <4>2. kind[old] = k /\ start[old] = "done" /\ old \in Login
        BY <1>k, <1>1, <4>1 DEF PortInv, MapHeld
      <4> QED
        BY <1>1, <1>2, <1>k, <3>1, <4>1, <4>2
    <3>2. CASE m # l
      <4>1. prev'[m] = prev[m] /\ prev[m] \in Login
        BY <1>2, <2>2, <3>2 DEF TypeOK
      <4>2. start[prev[m]] = "done" /\ kind[prev[m]] = kind[m]
        BY <2>2, <4>1 DEF PortInv, MapHeld
      <4> QED
        BY <1>1, <1>2, <4>1, <4>2
    <3> QED
      BY <3>1, <3>2
  <2> QED
    BY <2>1, <2>2 DEF MapHeld
<1>6. Owned'
  <2> SUFFICES ASSUME NEW m \in listening, start'[m] = "done"
               PROVE  \/ forwarders'[kind[m]] = m
                      \/ \E n \in Login : start'[n] = "stop" /\ prev'[n] = m
    BY <1>1 DEF Owned
  <2>1. m \in Login \ {l} /\ start[m] = "done" /\ kind[m] \in Kind
    BY <1>2, <1>3
  <2>2. CASE forwarders[kind[m]] = m
    BY <1>2, <1>k, <2>1, <2>2
  <2>3. CASE \E n \in Login : start[n] = "stop" /\ prev[n] = m
    BY <1>1, <1>2, <2>3
  <2> QED
    BY <2>1, <2>2, <2>3 DEF PortInv, Owned
<1>7. Served'
  <2> SUFFICES ASSUME NEW m \in Login, start'[m] = "done", kind[m] # "device"
               PROVE  \/ forwarders'[kind[m]] # NoLogin
                      \/ \E n \in Login : kind[n] = kind[m]
                                          /\ start'[n] \in {"stop", "listen", "register"}
                      \/ kind[m] \in unserved'
    BY <1>1 DEF Served
  <2>1. CASE kind[m] = k
    BY <1>2, <1>k, <2>1
  <2>2. CASE kind[m] # k
    <3>1. start[m] = "done" /\ m # l /\ kind[m] \in Kind
      BY <1>2, <1>3
    <3>2. CASE forwarders[kind[m]] # NoLogin
      BY <1>2, <2>2, <3>1, <3>2
    <3>3. ASSUME NEW n \in Login, kind[n] = kind[m], start[n] \in {"stop", "listen", "register"}
          PROVE  start'[n] \in {"stop", "listen", "register"}
      BY <1>1, <1>2, <3>3
    <3> QED
      BY <1>1, <3>1, <3>2, <3>3 DEF PortInv, Served
  <2> QED
    BY <2>1, <2>2
<1> QED
  BY <1>4, <1>5, <1>6, <1>7 DEF PortInv

LEMMA StopKeepsPorts ==
  ASSUME TypeOK, PortInv, NEW l \in Login, StopPrevious(l) PROVE PortInv'
<1>1. /\ start[l] = "stop" /\ UNCHANGED <<kind, prev, forwarders, unserved>>
      /\ listening' = listening \ {prev[l]}
      /\ start' = [start EXCEPT ![l] = "listen"]
  BY DEF StopPrevious
<1>2. /\ start'[l] = "listen" /\ \A m \in Login \ {l} : start'[m] = start[m]
      /\ l \notin listening /\ listening \subseteq Login
  BY <1>1 DEF TypeOK, PortInv, OneOwner
<1>3. OneOwner'
  <2>1. ASSUME NEW m \in Login, start'[m] = "register" PROVE m \in listening'
    <3>1. m # l /\ start[m] = "register" /\ m \in listening
      BY <1>2, <2>1 DEF PortInv, OneOwner
    <3>2. m # prev[l]
      BY <3>1, LoginAssumption DEF PortInv, MapHeld, NoLogin
    <3> QED
      BY <1>1, <3>1, <3>2
  <2> QED
    BY <1>1, <1>2, <2>1 DEF PortInv, OneOwner
<1>4. MapHeld'
  <2>1. \A m \in Login : start[m] = "done" => start'[m] = "done"
    BY <1>1, <1>2
  <2>2. ASSUME NEW c \in Kind, forwarders[c] # NoLogin
        PROVE  /\ kind[forwarders[c]] = c /\ start'[forwarders[c]] = "done"
               /\ forwarders[c] \in listening'
               /\ \A m \in Login : prev[m] # forwarders[c]
    BY <1>1, <1>2, <2>1, <2>2 DEF PortInv, MapHeld
  <2>3. ASSUME NEW m \in Login, prev[m] # NoLogin
        PROVE  start'[prev[m]] = "done" /\ kind[prev[m]] = kind[m]
    BY <2>1, <2>3 DEF PortInv, MapHeld, TypeOK
  <2> QED
    BY <1>1, <2>2, <2>3 DEF MapHeld
<1>5. Owned'
  <2> SUFFICES ASSUME NEW m \in listening, m # prev[l], start'[m] = "done"
               PROVE  \/ forwarders[kind[m]] = m
                      \/ \E n \in Login : start'[n] = "stop" /\ prev[n] = m
    BY <1>1 DEF Owned
  <2>1. m \in Login \ {l} /\ start[m] = "done"
    BY <1>2
  <2>2. ASSUME NEW n \in Login, start[n] = "stop", prev[n] = m
        PROVE  start'[n] = "stop"
    BY <1>2, <2>2
  <2> QED
    BY <2>1, <2>2 DEF PortInv, Owned
<1>6. Served'
  <2> SUFFICES ASSUME NEW m \in Login, start'[m] = "done", kind[m] # "device"
               PROVE  \/ forwarders[kind[m]] # NoLogin
                      \/ \E n \in Login : kind[n] = kind[m]
                                          /\ start'[n] \in {"stop", "listen", "register"}
                      \/ kind[m] \in unserved'
    BY <1>1 DEF Served
  <2>1. start[m] = "done"
    BY <1>2
  <2>2. ASSUME NEW n \in Login, start[n] \in {"stop", "listen", "register"}
        PROVE  start'[n] \in {"stop", "listen", "register"}
    BY <1>2, <2>2
  <2> QED
    BY <1>1, <2>1, <2>2 DEF PortInv, Served
<1> QED
  BY <1>3, <1>4, <1>5, <1>6 DEF PortInv

LEMMA ListenKeepsPorts ==
  ASSUME TypeOK, PortInv, NEW l \in Login, Listen(l) PROVE PortInv'
<1>1. /\ start[l] = "listen" /\ UNCHANGED <<kind, prev, forwarders, unserved>>
      /\ listening' = listening \cup {l}
      /\ start' = [start EXCEPT ![l] = "register"]
      /\ \A m \in listening : kind[m] # kind[l]
  BY DEF Listen, OnPort
<1>2. /\ start'[l] = "register" /\ \A m \in Login \ {l} : start'[m] = start[m]
      /\ l \notin listening /\ listening \subseteq Login
  BY <1>1 DEF TypeOK, PortInv, OneOwner
<1>3. OneOwner'
  BY <1>1, <1>2 DEF PortInv, OneOwner
<1>4. MapHeld'
  <2>1. \A m \in Login : start[m] = "done" => start'[m] = "done"
    BY <1>1, <1>2
  <2>2. ASSUME NEW c \in Kind, forwarders[c] # NoLogin
        PROVE  /\ kind[forwarders[c]] = c /\ start'[forwarders[c]] = "done"
               /\ forwarders[c] \in listening'
               /\ \A m \in Login : prev[m] # forwarders[c]
    BY <1>1, <1>2, <2>1, <2>2 DEF PortInv, MapHeld
  <2>3. ASSUME NEW m \in Login, prev[m] # NoLogin
        PROVE  start'[prev[m]] = "done" /\ kind[prev[m]] = kind[m]
    BY <2>1, <2>3 DEF PortInv, MapHeld, TypeOK
  <2> QED
    BY <1>1, <2>2, <2>3 DEF MapHeld
<1>5. Owned'
  <2> SUFFICES ASSUME NEW m \in listening', start'[m] = "done"
               PROVE  \/ forwarders[kind[m]] = m
                      \/ \E n \in Login : start'[n] = "stop" /\ prev[n] = m
    BY <1>1 DEF Owned
  <2>1. m \in Login \ {l} /\ m \in listening /\ start[m] = "done"
    BY <1>1, <1>2
  <2>2. ASSUME NEW n \in Login, start[n] = "stop", prev[n] = m
        PROVE  start'[n] = "stop"
    BY <1>1, <1>2, <2>2
  <2> QED
    BY <2>1, <2>2 DEF PortInv, Owned
<1>6. Served'
  <2> SUFFICES ASSUME NEW m \in Login, start'[m] = "done", kind[m] # "device"
               PROVE  \/ forwarders[kind[m]] # NoLogin
                      \/ \E n \in Login : kind[n] = kind[m]
                                          /\ start'[n] \in {"stop", "listen", "register"}
                      \/ kind[m] \in unserved'
    BY <1>1 DEF Served
  <2>1. start[m] = "done"
    BY <1>2
  <2>2. ASSUME NEW n \in Login, start[n] \in {"stop", "listen", "register"}
        PROVE  start'[n] \in {"stop", "listen", "register"}
    BY <1>2, <2>2
  <2> QED
    BY <1>1, <2>1, <2>2 DEF PortInv, Served
<1> QED
  BY <1>3, <1>4, <1>5, <1>6 DEF PortInv

\* Whoever has the port is in the map, or is about to be, or somebody is about to
\* take the port over.
LEMMA UnservedKeepsPorts ==
  ASSUME TypeOK, PortInv, NEW l \in Login, NoForwarder(l) \/ ListenFails(l)
  PROVE  PortInv'
<1>1. /\ start[l] \in {"take", "listen"} /\ UNCHANGED <<kind, prev, forwarders, listening>>
      /\ start' = [start EXCEPT ![l] = "done"]
      /\ unserved \subseteq unserved'
      /\ (\E o \in listening : kind[o] = kind[l]) \/ kind[l] \in unserved'
  BY DEF NoForwarder, ListenFails, Started, OnPort
<1>2. /\ start'[l] = "done" /\ \A m \in Login \ {l} : start'[m] = start[m]
      /\ l \notin listening /\ listening \subseteq Login
  BY <1>1 DEF TypeOK, PortInv, OneOwner
<1>3. OneOwner'
  BY <1>1, <1>2 DEF PortInv, OneOwner
<1>4. MapHeld'
  <2>1. \A m \in Login : start[m] = "done" => start'[m] = "done"
    BY <1>1, <1>2
  <2>2. ASSUME NEW c \in Kind, forwarders[c] # NoLogin
        PROVE  /\ kind[forwarders[c]] = c /\ start'[forwarders[c]] = "done"
               /\ forwarders[c] \in listening
               /\ \A m \in Login : prev[m] # forwarders[c]
    BY <1>1, <1>2, <2>1, <2>2 DEF PortInv, MapHeld
  <2>3. ASSUME NEW m \in Login, prev[m] # NoLogin
        PROVE  start'[prev[m]] = "done" /\ kind[prev[m]] = kind[m]
    BY <2>1, <2>3 DEF PortInv, MapHeld, TypeOK
  <2> QED
    BY <1>1, <2>2, <2>3 DEF MapHeld
<1>5. Owned'
  <2> SUFFICES ASSUME NEW m \in listening, start'[m] = "done"
               PROVE  \/ forwarders[kind[m]] = m
                      \/ \E n \in Login : start'[n] = "stop" /\ prev[n] = m
    BY <1>1 DEF Owned
  <2>1. m \in Login \ {l} /\ start[m] = "done"
    BY <1>2
  <2>2. ASSUME NEW n \in Login, start[n] = "stop", prev[n] = m
        PROVE  start'[n] = "stop"
    BY <1>1, <1>2, <2>2
  <2> QED
    BY <2>1, <2>2 DEF PortInv, Owned
<1>6. Served'
  <2> DEFINE Under(n) == start[n] \in {"stop", "listen", "register"}
  <2>0. CASE kind[l] \in unserved'
    <3> SUFFICES ASSUME NEW m \in Login, start'[m] = "done", kind[m] # "device",
                        kind[m] # kind[l]
                 PROVE  \/ forwarders[kind[m]] # NoLogin
                        \/ \E n \in Login : kind[n] = kind[m]
                                            /\ start'[n] \in {"stop", "listen", "register"}
                        \/ kind[m] \in unserved'
      BY <1>1, <2>0 DEF Served
    <3>1. start[m] = "done"
      BY <1>2
    <3>2. ASSUME NEW n \in Login, kind[n] = kind[m], Under(n)
          PROVE  start'[n] \in {"stop", "listen", "register"}
      BY <1>2, <3>2
    <3> QED
      BY <1>1, <3>1, <3>2 DEF PortInv, Served
  <2> SUFFICES ASSUME kind[l] \notin unserved' PROVE Served'
    BY <2>0
  <2>1. PICK o \in listening : kind[o] = kind[l]
    BY <1>1
  <2>2. o \in Login \ {l} /\ start[o] \in {"register", "done"}
    BY <1>2 DEF PortInv, OneOwner
  <2>3. CASE start[o] = "register"
    <3>1. start'[o] = "register"
      BY <1>2, <2>2, <2>3
    <3> SUFFICES ASSUME NEW m \in Login, start'[m] = "done", kind[m] # "device",
                        kind[m] # kind[l]
                 PROVE  \/ forwarders[kind[m]] # NoLogin
                        \/ \E n \in Login : kind[n] = kind[m]
                                            /\ start'[n] \in {"stop", "listen", "register"}
                        \/ kind[m] \in unserved'
      BY <1>1, <2>1, <2>2, <3>1 DEF Served
    <3>2. start[m] = "done"
      BY <1>2
    <3>3. ASSUME NEW n \in Login, kind[n] = kind[m], Under(n)
          PROVE  start'[n] \in {"stop", "listen", "register"}
      BY <1>2, <3>3
    <3> QED
      BY <1>1, <3>2, <3>3 DEF PortInv, Served
  <2>4. CASE start[o] = "done"
    <3>1. \/ forwarders[kind[l]] # NoLogin
          \/ \E n \in Login : start'[n] = "stop" /\ kind[n] = kind[l]
      <4>1. CASE forwarders[kind[o]] = o
        BY <2>1, <2>2, <4>1, LoginAssumption DEF NoLogin
      <4>2. ASSUME NEW n \in Login, start[n] = "stop", prev[n] = o
            PROVE  start'[n] = "stop" /\ kind[n] = kind[l]
        <5>1. n # l /\ start'[n] = "stop"
          BY <1>1, <1>2, <4>2
        <5>2. prev[n] # NoLogin
          BY <2>2, <4>2, LoginAssumption DEF NoLogin
        <5> QED
          BY <2>1, <4>2, <5>1, <5>2 DEF PortInv, MapHeld
      <4> QED
        BY <2>1, <2>2, <2>4, <4>1, <4>2 DEF PortInv, Owned
    <3> SUFFICES ASSUME NEW m \in Login, start'[m] = "done", kind[m] # "device",
                        kind[m] # kind[l]
                 PROVE  \/ forwarders[kind[m]] # NoLogin
                        \/ \E n \in Login : kind[n] = kind[m]
                                            /\ start'[n] \in {"stop", "listen", "register"}
                        \/ kind[m] \in unserved'
      BY <1>1, <3>1 DEF Served
    <3>2. start[m] = "done"
      BY <1>2
    <3>3. ASSUME NEW n \in Login, kind[n] = kind[m], Under(n)
          PROVE  start'[n] \in {"stop", "listen", "register"}
      BY <1>2, <3>3
    <3> QED
      BY <1>1, <3>2, <3>3 DEF PortInv, Served
  <2> QED
    BY <2>2, <2>3, <2>4
<1> QED
  BY <1>3, <1>4, <1>5, <1>6 DEF PortInv

\* The entry of the map is free: whatever had the port before has let it go.
LEMMA RegisterKeepsPorts ==
  ASSUME TypeOK, PortInv, NEW l \in Login, RegisterForwarder(l) PROVE PortInv'
<1> DEFINE k == kind[l]
<1>1. /\ start[l] = "register" /\ UNCHANGED <<kind, prev, listening>>
      /\ unserved' = unserved \ {k} /\ k \in Kind
      /\ forwarders' = [forwarders EXCEPT ![k] = l]
      /\ start' = [start EXCEPT ![l] = "done"]
  BY DEF RegisterForwarder, Started, TypeOK
<1>2. /\ start'[l] = "done" /\ forwarders'[k] = l
      /\ \A m \in Login \ {l} : start'[m] = start[m]
      /\ \A c \in Kind \ {k} : forwarders'[c] = forwarders[c]
      /\ l \in listening /\ listening \subseteq Login
      /\ \A m \in Login : kind[m] \in Kind
  BY <1>1 DEF TypeOK, PortInv, OneOwner
<1> HIDE DEF k
<1>k. k = kind[l]
  BY DEF k
<1>3. OneOwner'
  BY <1>1, <1>2 DEF PortInv, OneOwner
<1>4. forwarders[k] = NoLogin
  <2> SUFFICES ASSUME forwarders[k] # NoLogin PROVE FALSE
    OBVIOUS
  <2>1. /\ kind[forwarders[k]] = k /\ start[forwarders[k]] = "done"
        /\ forwarders[k] \in listening
    BY <1>1 DEF PortInv, MapHeld
  <2>2. forwarders[k] = l
    BY <1>k, <1>2, <2>1 DEF PortInv, OneOwner
  <2> QED
    BY <1>1, <2>1, <2>2
<1>d. \A m \in Login : start[m] = "done" => start'[m] = "done"
  BY <1>1, <1>2
<1>5. MapHeld'
  <2>1. ASSUME NEW m \in Login, prev[m] # NoLogin
        PROVE  start'[prev[m]] = "done" /\ kind[prev[m]] = kind[m] /\ prev[m] # l
    BY <1>1, <1>d, <2>1 DEF PortInv, MapHeld, TypeOK
  <2>2. \A m \in Login : prev[m] # l
    BY <2>1, LoginAssumption DEF NoLogin
  <2>3. ASSUME NEW c \in Kind, forwarders'[c] # NoLogin
        PROVE  /\ kind[forwarders'[c]] = c /\ start'[forwarders'[c]] = "done"
               /\ forwarders'[c] \in listening
               /\ \A m \in Login : prev[m] # forwarders'[c]
    <3>1. CASE c = k
      BY <1>k, <1>2, <2>2, <3>1
    <3>2. CASE c # k
      BY <1>2, <1>d, <2>3, <3>2 DEF PortInv, MapHeld
    <3> QED
      BY <3>1, <3>2
  <2> QED
    BY <1>1, <2>1, <2>3 DEF MapHeld
<1>6. Owned'
  <2> SUFFICES ASSUME NEW m \in listening, start'[m] = "done"
               PROVE  \/ forwarders'[kind[m]] = m
                      \/ \E n \in Login : start'[n] = "stop" /\ prev[n] = m
    BY <1>1 DEF Owned
  <2>1. CASE m = l
    BY <1>k, <1>2, <2>1
  <2>2. CASE m # l
    <3>1. m \in Login /\ start[m] = "done" /\ kind[m] # k /\ kind[m] \in Kind
      BY <1>k, <1>2, <2>2 DEF PortInv, OneOwner
    <3>2. ASSUME NEW n \in Login, start[n] = "stop", prev[n] = m
          PROVE  start'[n] = "stop"
      BY <1>1, <1>2, <3>2
    <3> QED
      BY <1>2, <3>1, <3>2 DEF PortInv, Owned
  <2> QED
    BY <2>1, <2>2
<1>7. Served'
  <2> SUFFICES ASSUME NEW m \in Login, start'[m] = "done", kind[m] # "device"
               PROVE  \/ forwarders'[kind[m]] # NoLogin
                      \/ \E n \in Login : kind[n] = kind[m]
                                          /\ start'[n] \in {"stop", "listen", "register"}
                      \/ kind[m] \in unserved'
    BY <1>1 DEF Served
  <2>1. CASE kind[m] = k
    BY <1>2, <2>1, LoginAssumption DEF NoLogin
  <2>2. CASE kind[m] # k
    <3>1. m # l /\ start[m] = "done" /\ kind[m] \in Kind
      BY <1>k, <1>2, <2>2
    <3>2. ASSUME NEW n \in Login, kind[n] = kind[m], start[n] \in {"stop", "listen", "register"}
          PROVE  start'[n] \in {"stop", "listen", "register"}
      BY <1>k, <1>2, <2>2, <3>2
    <3> QED
      BY <1>1, <1>2, <2>2, <3>1, <3>2 DEF PortInv, Served
  <2> QED
    BY <2>1, <2>2
<1> QED
  BY <1>3, <1>5, <1>6, <1>7 DEF PortInv

LEMMA BeginKeepsPorts ==
  ASSUME TypeOK, PortInv, NEW l \in Login, Begin(l) PROVE PortInv'
<1>1. /\ start[l] = "idle" /\ UNCHANGED <<kind, prev, forwarders, listening, unserved>>
      /\ start' = [start EXCEPT ![l] = IF kind[l] = "device" THEN "done" ELSE "take"]
  BY DEF Begin
<1>2. /\ kind[l] = "device" => start'[l] = "done"
      /\ kind[l] # "device" => start'[l] = "take"
      /\ \A m \in Login \ {l} : start'[m] = start[m]
      /\ l \notin listening /\ listening \subseteq Login
  BY <1>1 DEF TypeOK, PortInv, OneOwner
<1>d. \A m \in Login : start[m] # "idle" => start'[m] = start[m]
  BY <1>1, <1>2
<1>3. OneOwner'
  BY <1>1, <1>2, <1>d DEF PortInv, OneOwner
<1>4. MapHeld'
  <2>1. ASSUME NEW c \in Kind, forwarders[c] # NoLogin
        PROVE  /\ kind[forwarders[c]] = c /\ start'[forwarders[c]] = "done"
               /\ forwarders[c] \in listening
               /\ \A m \in Login : prev[m] # forwarders[c]
    BY <1>2, <1>d, <2>1 DEF PortInv, MapHeld
  <2>2. ASSUME NEW m \in Login, prev[m] # NoLogin
        PROVE  start'[prev[m]] = "done" /\ kind[prev[m]] = kind[m]
    BY <1>d, <2>2 DEF PortInv, MapHeld, TypeOK
  <2> QED
    BY <1>1, <2>1, <2>2 DEF MapHeld
<1>5. Owned'
  <2>1. ASSUME NEW m \in listening, start'[m] = "done"
        PROVE  \/ forwarders[kind[m]] = m
               \/ \E n \in Login : start'[n] = "stop" /\ prev[n] = m
    <3>1. start[m] = "done"
      BY <1>2, <2>1
    <3> QED
      BY <1>d, <3>1 DEF PortInv, Owned
  <2> QED
    BY <1>1, <2>1 DEF Owned
<1>6. Served'
  <2>1. ASSUME NEW m \in Login, start'[m] = "done", kind[m] # "device"
        PROVE  \/ forwarders[kind[m]] # NoLogin
               \/ \E n \in Login : kind[n] = kind[m]
                                   /\ start'[n] \in {"stop", "listen", "register"}
               \/ kind[m] \in unserved
    <3>1. start[m] = "done"
      BY <1>2, <2>1
    <3> QED
      BY <1>d, <2>1, <3>1 DEF PortInv, Served
  <2> QED
    BY <1>1, <2>1 DEF Served
<1> QED
  BY <1>3, <1>4, <1>5, <1>6 DEF PortInv

LEMMA OthersKeepPorts == PortInv /\ UNCHANGED PortVars => PortInv'
BY DEF PortInv, PortVars, OneOwner, MapHeld, Owned, Served

LEMMA NextPorts == Typed /\ PortInv /\ [Next]_vars => PortInv'
<1> SUFFICES ASSUME Typed, PortInv, [Next]_vars PROVE PortInv'
  OBVIOUS
<1>t. TypeOK
  BY DEF Typed
<1>1. CASE UNCHANGED vars
  BY <1>1, OthersKeepPorts DEF vars, PortVars, starting
<1>2. CASE Cleanup
  BY <1>2, OthersKeepPorts DEF Cleanup, PortVars, starting
<1>3. ASSUME NEW l \in Login, Polling(l) PROVE PortInv'
  BY <1>t, <1>3, PollFrame, OthersKeepPorts DEF PortVars
<1>4. ASSUME NEW l \in Login,
             \/ Cancel(l) \/ Due(l) \/ Deadline(l) \/ Written(l)
             \/ \E answer \in Answer : ComeBack(l, answer)
      PROVE  PortInv'
  <2>1. UNCHANGED PortVars
    BY <1>4 DEF Cancel, Due, Deadline, Written, ComeBack, PortVars, PollRest, starting
  <2> QED
    BY <2>1, OthersKeepPorts
<1>5. ASSUME NEW l \in Login,
             \/ Begin(l) \/ NoForwarder(l) \/ TakePrevious(l) \/ StopPrevious(l)
             \/ Listen(l) \/ ListenFails(l) \/ RegisterForwarder(l)
      PROVE  PortInv'
  BY <1>t, <1>5, BeginKeepsPorts, TakeKeepsPorts, StopKeepsPorts, ListenKeepsPorts,
     UnservedKeepsPorts, RegisterKeepsPorts
<1> QED
  BY <1>1, <1>2, <1>3, <1>4, <1>5 DEF Next, Polling

\* However many logins of one provider start at the same time and take the port
\* from each other, once they are through one forwarder has it, and it is the one
\* the next start finds in the map.
THEOREM ForwarderOwnsItsPort == Spec => []PortHeld
<1>1. Init => Typed
  BY InitTyped DEF Init, GotRead, Typed
<1>2. Init => PortInv
  BY DEF Init, PortInv, OneOwner, MapHeld, Owned, Served
<1>3. Typed => TypeOK
  BY DEF Typed
<1> QED
  BY <1>1, <1>2, <1>3, NextTyped, NextPorts, PortInvImplies, PTL DEF Spec

-----------------------------------------------------------------------------
(* The status of a login and its credential                                *)

\* How far the poller has come when there is a credential, and when the registry
\* has an outcome.
Told ==
  \A l \in Login :
    /\ saved[l] => poll[l] \in {"complete", "done"}
    /\ poll[l] = "complete" => saved[l]
    /\ entry[l].status = "completed" => saved[l] /\ poll[l] = "done"
    /\ entry[l].status = "failed" => poll[l] = "done"

\* Without a remote, a save that fails has saved nothing.
NothingSaved == \A l \in Login : entry[l].status = "failed" => ~saved[l]

\* What a step may do to the status of a login.
StatusStep(l) ==
  \/ entry'[l].status = entry[l].status
  \/ entry'[l].status = "none"
  \/ entry'[l].status = "pending" /\ poll[l] = "off"
  \/ entry'[l].status \in {"completed", "failed", "cancelled"} /\ poll[l] # "done"
  \/ entry'[l].status = "cancelled" /\ entry[l].status = "pending"

\* The two operations that ask whether the login is pending.
LEMMA PendingOnly ==
  ASSUME TypeOK, NEW l \in Login, NEW status \in Status, IfPending(l, status)
  PROVE  /\ \A m \in Login \ {l} : entry'[m] = entry[m]
         /\ \/ entry'[l] = entry[l]
            \/ entry[l].status = "pending" /\ entry'[l].status = status
<1>1. CASE entry[l].status = "pending"
  BY <1>1, RegistryTyped DEF IfPending
<1>2. CASE entry[l].status # "pending"
  BY <1>2 DEF IfPending
<1> QED
  BY <1>1, <1>2

\* A step of the poller.
LEMMA PollTells ==
  ASSUME Typed, Told, NEW l \in Login, Polling(l)
  PROVE  /\ Told'
         /\ Remote = FALSE /\ NothingSaved => NothingSaved'
         /\ \A m \in Login : StatusStep(m)
<1>t. TypeOK /\ GotRead
  BY DEF Typed
<1>s. {"completed", "failed", "cancelled"} \subseteq Status
  BY DEF Status
<1>p. /\ \A m \in Login \ {l} : poll'[m] = poll[m]
      /\ poll[l] \notin {"off", "done"}
  BY <1>t, PollSteps DEF TypeOK
<1>e. \A m \in Login \ {l} : entry'[m] = entry[m] /\ saved'[m] = saved[m]
  <2>1. CASE PollGoesOn(l) \/ PollSaves(l)
    BY <1>t, <2>1 DEF PollGoesOn, PollSaves, TypeOK
  <2>2. CASE PollCompletes(l) \/ PollCancels(l)
    BY <1>t, <1>s, <2>2, PendingOnly DEF PollCompletes, PollCancels, Complete, CancelEntry
  <2>3. CASE PollFails(l)
    BY <1>t, <2>3, RegistryTyped DEF PollFails, TypeOK
  <2> QED
    BY <1>t, <2>1, <2>2, <2>3, PollSteps
<1>o. /\ saved[l] => poll[l] = "complete"
      /\ poll[l] = "complete" => saved[l]
      /\ entry[l].status \notin {"completed", "failed"}
  BY <1>p DEF Told
<1>l. /\ saved'[l] => poll'[l] \in {"complete", "done"}
      /\ poll'[l] = "complete" => saved'[l]
      /\ entry'[l].status = "completed" => saved'[l] /\ poll'[l] = "done"
      /\ entry'[l].status = "failed" => poll'[l] = "done" /\ (Remote = FALSE => ~saved'[l])
      /\ \/ entry'[l].status = entry[l].status
         \/ entry'[l].status \in {"completed", "failed", "cancelled"}
  <2>1. CASE PollGoesOn(l) /\ poll[l] # "complete"
    BY <1>o, <2>1 DEF PollGoesOn
  <2>2. CASE PollSaves(l)
    BY <1>t, <1>o, <2>2 DEF PollSaves, TypeOK
  <2>3. CASE PollCompletes(l)
    BY <1>t, <1>s, <1>o, <2>3, PendingOnly DEF PollCompletes, Complete
  <2>4. CASE PollCancels(l)
    BY <1>t, <1>s, <1>o, <2>4, PendingOnly DEF PollCancels, CancelEntry
  <2>5. CASE PollFails(l)
    <3>1. poll'[l] = "done" /\ entry'[l].status = "failed" /\ ~saved[l]
      BY <1>t, <1>o, <2>5, RegistryTyped DEF PollFails
    <3>2. Remote = FALSE => saved' = saved
      BY <2>5 DEF PollFails
    <3> QED
      BY <3>1, <3>2
  <2> QED
    BY <1>t, <2>1, <2>2, <2>3, <2>4, <2>5, PollSteps
<1>1. Told'
  BY <1>p, <1>e, <1>l DEF Told
<1>2. Remote = FALSE /\ NothingSaved => NothingSaved'
  BY <1>e, <1>l DEF NothingSaved
<1>3. \A m \in Login : StatusStep(m)
  BY <1>p, <1>e, <1>l DEF StatusStep
<1> QED
  BY <1>1, <1>2, <1>3

\* A step of the registry, of the user or of a start.
LEMMA OthersTell ==
  ASSUME Typed, Told, NEW l \in Login,
         \/ Begin(l) \/ Cancel(l) \/ Due(l) \/ Deadline(l) \/ Written(l) \/ Cleanup
         \/ Starting(l) \/ \E answer \in Answer : ComeBack(l, answer)
  PROVE  /\ Told'
         /\ NothingSaved => NothingSaved'
         /\ \A m \in Login : StatusStep(m)
<1>t. TypeOK
  BY DEF Typed
<1>1. saved' = saved
  <2>1. CASE Starting(l)
    BY <1>t, <2>1, StartFrame
  <2> QED
    BY <2>1 DEF Begin, Cancel, Due, Deadline, Written, Cleanup, ComeBack, polling
<1>2. \A m \in Login : poll'[m] = poll[m] \/ (poll[m] = "off" /\ poll'[m] \in {"wait", "device"})
  <2>1. CASE Starting(l)
    <3>1. poll' = poll \/ (poll' = [poll EXCEPT ![l] = "wait"] /\ poll[l] = "off")
      <4>1. start[l] # "done"
        BY <2>1 DEF Starting, TakePrevious, StopPrevious, Listen, ListenFails,
               NoForwarder, RegisterForwarder
      <4>2. poll[l] = "off"
        BY <1>t, <4>1 DEF TypeOK
      <4> QED
        BY <1>t, <2>1, <4>2, StartFrame
    <3> QED
      BY <1>t, <3>1 DEF TypeOK
  <2>2. CASE Begin(l)
    <3>1. poll[l] = "off"
      BY <1>t, <2>2 DEF Begin, TypeOK
    <3> QED
      BY <1>t, <2>2, <3>1 DEF Begin, TypeOK
  <2>3. CASE ~Starting(l) /\ ~Begin(l)
    <3>1. poll' = poll
      BY <2>3 DEF Cancel, Due, Deadline, Written, Cleanup, ComeBack, polling
    <3> QED
      BY <3>1
  <2> QED
    BY <2>1, <2>2, <2>3
<1>3. \A m \in Login :
        \/ entry'[m].status = entry[m].status
        \/ entry'[m].status = "none"
        \/ entry'[m].status = "pending" /\ poll[m] = "off"
        \/ entry'[m].status = "cancelled" /\ entry[m].status = "pending"
  <2>e. entry \in [Login -> Entry]
    BY <1>t DEF TypeOK, Entry
  <2>1. CASE Starting(l)
    BY <1>t, <2>1, StartFrame
  <2>2. CASE Begin(l)
    <3>1. poll[l] = "off"
      BY <1>t, <2>2 DEF Begin, TypeOK
    <3> QED
      BY <1>t, <2>2, <3>1, RegistryTyped DEF Begin
  <2>3. CASE Cancel(l)
    <3>1. "cancelled" \in Status
      BY DEF Status
    <3> QED
      BY <1>t, <2>3, <3>1, PendingOnly DEF Cancel, CancelEntry
  <2>4. CASE Due(l)
    <3>1. entry' = [entry EXCEPT ![l] = [entry[l] EXCEPT !.due = TRUE]]
      BY <2>e, <2>4 DEF Due
    <3> HIDE DEF Entry
    <3>2. entry[l] \in Entry /\ TRUE \in BOOLEAN
      BY <2>e
    <3> DEFINE e == [entry[l] EXCEPT !.due = TRUE]
    <3>3. e.status = entry[l].status
      BY <3>2 DEF Entry
    <3> HIDE DEF e
    <3>4. entry' = [entry EXCEPT ![l] = e]
      BY <3>1 DEF e
    <3> QED
      BY <2>e, <3>3, <3>4
  <2>5. CASE Cleanup
    BY <2>e, <2>5 DEF Cleanup, Swept, NoEntry
  <2>6. CASE Deadline(l) \/ Written(l) \/ (\E answer \in Answer : ComeBack(l, answer))
    <3>1. entry' = entry
      BY <2>6 DEF Deadline, Written, ComeBack
    <3> QED
      BY <3>1
  <2> QED
    BY <2>1, <2>2, <2>3, <2>4, <2>5, <2>6
<1>4. Told'
  BY <1>1, <1>2, <1>3 DEF Told
<1>5. NothingSaved => NothingSaved'
  BY <1>1, <1>3 DEF NothingSaved
<1>6. \A m \in Login : StatusStep(m)
  BY <1>3 DEF StatusStep
<1> QED
  BY <1>4, <1>5, <1>6

LEMMA NextTells ==
  Typed /\ Told /\ [Next]_vars =>
    /\ Told'
    /\ Remote = FALSE /\ NothingSaved => NothingSaved'
    /\ \A l \in Login : StatusStep(l)
<1> SUFFICES ASSUME Typed, Told, [Next]_vars
             PROVE  /\ Told'
                    /\ Remote = FALSE /\ NothingSaved => NothingSaved'
                    /\ \A l \in Login : StatusStep(l)
  OBVIOUS
<1>1. CASE UNCHANGED vars
  BY <1>1 DEF vars, polling, Told, NothingSaved, StatusStep
<1>2. CASE Cleanup
  <2>1. \E l \in Login : TRUE
    BY <1>2 DEF Cleanup
  <2> QED
    BY <1>2, <2>1, OthersTell
<1>3. ASSUME NEW l \in Login, Polling(l)
      PROVE  /\ Told'
             /\ Remote = FALSE /\ NothingSaved => NothingSaved'
             /\ \A m \in Login : StatusStep(m)
  BY <1>3, PollTells
<1>4. ASSUME NEW l \in Login,
             \/ Begin(l) \/ Cancel(l) \/ Due(l) \/ Deadline(l) \/ Written(l)
             \/ Starting(l) \/ \E answer \in Answer : ComeBack(l, answer)
      PROVE  /\ Told'
             /\ NothingSaved => NothingSaved'
             /\ \A m \in Login : StatusStep(m)
  BY <1>4, OthersTell
<1> QED
  BY <1>1, <1>2, <1>3, <1>4 DEF Next, Polling, Starting

LEMMA InitTells == Init => Typed /\ Told /\ NothingSaved
<1>1. Init => Typed
  BY InitTyped DEF Init, GotRead, Typed
<1>2. Init => Told /\ NothingSaved
  BY DEF Init, NoEntry, Told, NothingSaved
<1> QED
  BY <1>1, <1>2

\* When the store has no remote, the status page tells the truth about the
\* credential, in every order in which the poller, the user's Cancel, the cleanup
\* and the timers touch the registry.
THEOREM StatusTellsTheTruth == Remote = FALSE => (Spec => []HonestStatus)
<1> SUFFICES ASSUME Remote = FALSE PROVE Spec => []HonestStatus
  OBVIOUS
<1> DEFINE Inv == Typed /\ Told /\ NothingSaved
<1>1. Init => Inv
  BY InitTells
<1>2. Inv /\ [Next]_vars => Inv'
  BY NextTyped, NextTells
<1>3. Inv => HonestStatus
  BY DEF Told, NothingSaved, HonestStatus
<1> HIDE DEF Inv
<1> QED
  BY <1>1, <1>2, <1>3, PTL DEF Spec

\* A login that has been completed stays so until it is forgotten, and none that has
\* an outcome is pending again: a step that the poller takes after its end, or the
\* user's Cancel, does not change what has been told.
THEOREM LoginOutcomeStands == Spec => OutcomeStands
<1> DEFINE Inv == Typed /\ Told
<1>1. Init => Inv
  BY InitTells
<1>2. Inv /\ [Next]_vars => Inv'
  BY NextTyped, NextTells
<1>3. Inv /\ [Next]_vars =>
        [\A l \in Login :
           /\ entry[l].status = "completed" => entry'[l].status \in {"completed", "none"}
           /\ entry'[l].status = "pending" => entry[l].status = "pending" \/ poll[l] = "off"]_vars
  <2> SUFFICES ASSUME Inv, [Next]_vars, NEW l \in Login
               PROVE  /\ entry[l].status = "completed" => entry'[l].status \in {"completed", "none"}
                      /\ entry'[l].status = "pending" => entry[l].status = "pending" \/ poll[l] = "off"
    OBVIOUS
  <2>1. StatusStep(l)
    BY NextTells
  <2>2. entry[l].status = "completed" => poll[l] = "done"
    BY DEF Told
  <2> QED
    BY <2>1, <2>2 DEF StatusStep
<1> HIDE DEF Inv
<1> QED
  BY <1>1, <1>2, <1>3, PTL DEF Spec, OutcomeStands

=============================================================================
