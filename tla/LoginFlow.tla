------------------------------ MODULE LoginFlow ------------------------------
(***************************************************************************)
(* Logins through the management API: OAuthStart registers the login and   *)
(* starts a forwarder on the port that the provider knows, the browser     *)
(* comes back through the forwarder to a route of the main server, the     *)
(* route writes a callback file, and the login's poller reads the file,    *)
(* exchanges the code and saves a credential.  A device login polls the    *)
(* provider instead.  Beside them run the user's Cancel and the registry's *)
(* cleanup (api/handlers/management/oauth_api.go, api/routes.go,           *)
(* oauth/registry.go, oauth/callback_servers.go).                          *)
(***************************************************************************)
EXTENDS Integers, FiniteSets

CONSTANTS
  Login,   \* the logins; each has a state parameter of its own
  Kind,    \* the kinds of provider that are asked for
  Answer,  \* what a browser comes back with: "code", "error", "empty"
  Remote,  \* the store pushes what it has saved to a remote (git, object store)
  Visits   \* bound: how often the browser comes back for one login

\* "codex" and "claude" have a verifier in the registry, "gemini" has none,
\* "device" has no browser.
ASSUME LoginAssumption ==
  /\ IsFiniteSet(Login) /\ "none" \notin Login
  /\ Kind \subseteq {"claude", "codex", "gemini", "device"}
  /\ Answer \subseteq {"code", "error", "empty"}
  /\ Remote \in BOOLEAN
  /\ Visits \in Nat

VARIABLES
  kind,        \* the provider of a login
  start,       \* where OAuthStart is
  prev,        \* StartForwarder's local of that name
  forwarders,  \* the map of that name, by the provider whose port it is
  listening,   \* the logins whose forwarder holds its port
  unserved,    \* history: the providers whose last start got no forwarder for a
               \* reason outside the program
  entry,       \* Registry.requests
  poll,        \* where the poller of a login is
  late,        \* the ten minutes of the poller's context have passed
  got,         \* what the poller has read from the callback file
  file,        \* the callback file
  writing,     \* what the route is about to write into it
  visits,      \* how often the browser has come back
  cancelled,   \* history: Cancel has answered that it cancelled the login
  saved        \* history: the credential has been saved

starting == <<start, prev, forwarders, listening, unserved>>
polling == <<poll, late, got, saved>>
browser == <<file, writing, visits>>
vars == <<kind, starting, entry, polling, browser, cancelled>>

NoLogin == "none"
HasVerifier(k) == k \in {"claude", "codex"}

\* The routes of the main server; the forwarder of Claude asks for
\* /claude/callback, and the route is /anthropic/callback.
Routed == {"codex", "gemini"}

NoEntry == [status |-> "none", due |-> FALSE, verifier |-> FALSE]

Init ==
  /\ kind \in [Login -> Kind]
  /\ start = [l \in Login |-> "idle"]
  /\ prev = [l \in Login |-> NoLogin]
  /\ forwarders = [k \in Kind |-> NoLogin]
  /\ listening = {}
  /\ unserved = {}
  /\ entry = [l \in Login |-> NoEntry]
  /\ poll = [l \in Login |-> "off"]
  /\ late = [l \in Login |-> FALSE]
  /\ got = [l \in Login |-> "none"]
  /\ file = [l \in Login |-> "none"]
  /\ writing = [l \in Login |-> "none"]
  /\ visits = [l \in Login |-> 0]
  /\ cancelled = [l \in Login |-> FALSE]
  /\ saved = [l \in Login |-> FALSE]

-----------------------------------------------------------------------------
(* Registry                                                                *)

Create(l) ==
  entry' = [entry EXCEPT ![l] = [status |-> "pending", due |-> FALSE,
                                 verifier |-> HasVerifier(kind[l])]]

SetStatus(l, status) == entry' = [entry EXCEPT ![l].status = status]

IfPending(l, status) ==
  IF entry[l].status = "pending" THEN SetStatus(l, status) ELSE UNCHANGED entry

Complete(l) == IfPending(l, "completed")
CancelEntry(l) == IfPending(l, "cancelled")

\* Fail does not ask whether the login is pending, and makes an entry for one
\* it does not know, with no expiry: the next cleanup takes it.
Fail(l) ==
  IF entry[l] = NoEntry
  THEN entry' = [entry EXCEPT ![l] = [status |-> "failed", due |-> TRUE,
                                      verifier |-> FALSE]]
  ELSE SetStatus(l, "failed")

\* Five minutes after Create.
Due(l) ==
  /\ entry[l] # NoEntry /\ ~entry[l].due
  /\ entry' = [entry EXCEPT ![l].due = TRUE]
  /\ UNCHANGED <<kind, starting, polling, browser, cancelled>>

\* cleanup removes what has expired, whatever its status.
Swept(e) == IF e.due THEN NoEntry ELSE e

Cleanup ==
  /\ \E l \in Login : entry[l].due
  /\ entry' = [l \in Login |-> Swept(entry[l])]
  /\ UNCHANGED <<kind, starting, polling, browser, cancelled>>

-----------------------------------------------------------------------------
(* OAuthStart and StartForwarder                                           *)

Begin(l) ==
  /\ start[l] = "idle"
  /\ Create(l)
  /\ start' = [start EXCEPT ![l] = IF kind[l] = "device" THEN "done" ELSE "take"]
  /\ poll' = [poll EXCEPT ![l] = IF kind[l] = "device" THEN "device" ELSE @]
  /\ UNCHANGED <<kind, prev, forwarders, listening, unserved, late, got, saved,
                 browser, cancelled>>

\* The forwarder that is registered is taken out of the map, ...
TakePrevious(l) ==
  /\ start[l] = "take"
  /\ prev' = [prev EXCEPT ![l] = forwarders[kind[l]]]
  /\ forwarders' = [forwarders EXCEPT ![kind[l]] = NoLogin]
  /\ start' = [start EXCEPT ![l] = "stop"]
  /\ UNCHANGED <<kind, listening, unserved, entry, polling, browser, cancelled>>

\* ... and shut down.
StopPrevious(l) ==
  /\ start[l] = "stop"
  /\ listening' = listening \ {prev[l]}
  /\ start' = [start EXCEPT ![l] = "listen"]
  /\ UNCHANGED <<kind, prev, forwarders, unserved, entry, polling, browser, cancelled>>

OnPort(k) == {l \in listening : kind[l] = k}

Listen(l) ==
  /\ start[l] = "listen" /\ OnPort(kind[l]) = {}
  /\ listening' = listening \cup {l}
  /\ start' = [start EXCEPT ![l] = "register"]
  /\ UNCHANGED <<kind, prev, forwarders, unserved, entry, polling, browser, cancelled>>

Started(l) ==
  /\ start' = [start EXCEPT ![l] = "done"]
  /\ poll' = [poll EXCEPT ![l] = "wait"]

\* managementCallbackURL fails or the provider has no port: the login is
\* polled for all the same.
NoForwarder(l) ==
  /\ start[l] = "take"
  /\ Started(l)
  /\ unserved' = unserved \cup {kind[l]}
  /\ UNCHANGED <<kind, prev, forwarders, listening, entry, late, got, saved,
                 browser, cancelled>>

\* net.Listen fails, because of another login's forwarder or because of
\* another process: OAuthStart does not look at the error.
ListenFails(l) ==
  /\ start[l] = "listen"
  /\ Started(l)
  /\ unserved' = IF OnPort(kind[l]) = {} THEN unserved \cup {kind[l]} ELSE unserved
  /\ UNCHANGED <<kind, prev, forwarders, listening, entry, late, got, saved,
                 browser, cancelled>>

\* Mutant.  The forwarder is not entered into the map.
RegisterNothing(l) ==
  /\ start[l] = "register"
  /\ Started(l)
  /\ unserved' = unserved \ {kind[l]}
  /\ UNCHANGED <<kind, prev, forwarders, listening, entry, late, got, saved,
                 browser, cancelled>>

RegisterForwarder(l) ==
  /\ start[l] = "register"
  /\ forwarders' = [forwarders EXCEPT ![kind[l]] = l]
  /\ Started(l)
  /\ unserved' = unserved \ {kind[l]}
  /\ UNCHANGED <<kind, prev, listening, entry, late, got, saved, browser,
                 cancelled>>

-----------------------------------------------------------------------------
(* The browser and the callback route                                      *)

\* A forwarder redirects to the route of its provider, of whichever login it
\* is.  os.WriteFile truncates the file before it writes.
ComeBack(l, answer) ==
  /\ start[l] = "done" /\ kind[l] # "device"
  /\ visits[l] < Visits
  /\ OnPort(kind[l]) # {}
  /\ visits' = [visits EXCEPT ![l] = @ + 1]
  /\ IF kind[l] \in Routed
     THEN /\ writing[l] = "none"
          /\ file' = [file EXCEPT ![l] = "partial"]
          /\ writing' = [writing EXCEPT ![l] = answer]
     ELSE UNCHANGED <<file, writing>>
  /\ UNCHANGED <<kind, starting, entry, polling, cancelled>>

Written(l) ==
  /\ writing[l] # "none"
  /\ file' = [file EXCEPT ![l] = writing[l]]
  /\ writing' = [writing EXCEPT ![l] = "none"]
  /\ UNCHANGED <<kind, starting, entry, polling, visits, cancelled>>

-----------------------------------------------------------------------------
(* pollOAuthCallback                                                       *)

Goto(l, where) == poll' = [poll EXCEPT ![l] = where]

PollRest == <<kind, starting, cancelled>>

\* Ten minutes after the start, that is after the entry has expired.
Deadline(l) ==
  /\ poll[l] \notin {"off", "done"} /\ ~late[l]
  /\ entry[l].due \/ entry[l] = NoEntry
  /\ late' = [late EXCEPT ![l] = TRUE]
  /\ UNCHANGED <<PollRest, entry, poll, got, saved, browser>>

\* Mutant.  The loop does not look at the context.
TimedOutDevice(l) ==
  /\ poll[l] = "device" /\ late[l]
  /\ Goto(l, "giveup")
  /\ UNCHANGED <<PollRest, entry, late, got, saved, browser>>

TimedOut(l) ==
  /\ poll[l] \in {"wait", "device"} /\ late[l]
  /\ Goto(l, "giveup")
  /\ UNCHANGED <<PollRest, entry, late, got, saved, browser>>

\* What is not JSON yet is left for the next tick.
Tick(l) ==
  /\ poll[l] = "wait" /\ file[l] \in {"code", "error", "empty"}
  /\ got' = [got EXCEPT ![l] = file[l]]
  /\ Goto(l, "remove")
  /\ UNCHANGED <<PollRest, entry, late, saved, browser>>

RemoveFile(l) ==
  /\ poll[l] = "remove"
  /\ file' = [file EXCEPT ![l] = "none"]
  /\ Goto(l, CASE got[l] = "error" -> "giveup"
               [] got[l] = "empty" -> "wait"
               [] got[l] = "code" -> "exchange")
  /\ UNCHANGED <<PollRest, entry, late, got, saved, writing, visits>>

\* The answer to an error that came from waiting.
GiveUp(l) ==
  /\ poll[l] = "giveup"
  /\ IF late[l] THEN CancelEntry(l) ELSE Fail(l)
  /\ Goto(l, "done")
  /\ UNCHANGED <<PollRest, late, got, saved, browser>>

\* A login with a verifier reads it from the registry; the registry does not
\* ask whether the login has been cancelled.
Exchanged(l) ==
  /\ poll[l] = "exchange"
  /\ HasVerifier(kind[l]) => entry[l].verifier
  /\ Goto(l, "save")
  /\ UNCHANGED <<PollRest, entry, late, got, saved, browser>>

\* The provider refuses, the context ends, or the verifier is gone.
ExchangeFails(l) ==
  /\ poll[l] = "exchange"
  /\ Fail(l)
  /\ Goto(l, "done")
  /\ UNCHANGED <<PollRest, late, got, saved, browser>>

\* pollQwenToken and pollCopilotToken
DeviceGranted(l) ==
  /\ poll[l] = "device"
  /\ Goto(l, "save")
  /\ UNCHANGED <<PollRest, entry, late, got, saved, browser>>

DeviceFails(l) ==
  /\ poll[l] = "device"
  /\ Goto(l, "giveup")
  /\ UNCHANGED <<PollRest, entry, late, got, saved, browser>>

Save(l) ==
  /\ poll[l] = "save"
  /\ saved' = [saved EXCEPT ![l] = TRUE]
  /\ Goto(l, "complete")
  /\ UNCHANGED <<PollRest, entry, late, got, browser>>

\* Mutant.  A save that fails after it has written the file.
SaveFailsLate(l) ==
  /\ poll[l] = "save"
  /\ Fail(l)
  /\ saved' = [saved EXCEPT ![l] = TRUE]
  /\ Goto(l, "done")
  /\ UNCHANGED <<PollRest, late, got, browser>>

\* A store with a remote has written its file when the push fails.
SaveFails(l) ==
  /\ poll[l] = "save"
  /\ Fail(l)
  /\ \/ UNCHANGED saved
     \/ Remote /\ saved' = [saved EXCEPT ![l] = TRUE]
  /\ Goto(l, "done")
  /\ UNCHANGED <<PollRest, late, got, browser>>

Completes(l) ==
  /\ poll[l] = "complete"
  /\ Complete(l)
  /\ Goto(l, "done")
  /\ UNCHANGED <<PollRest, late, got, saved, browser>>

-----------------------------------------------------------------------------
(* OAuthCancel                                                             *)

\* Mutant.  It does not ask whether the login is pending.
CancelUnchecked(l) ==
  /\ start[l] = "done" /\ entry[l] # NoEntry
  /\ SetStatus(l, "cancelled")
  /\ cancelled' = [cancelled EXCEPT ![l] = TRUE]
  /\ UNCHANGED <<kind, starting, polling, browser>>

Cancel(l) ==
  /\ start[l] = "done" /\ entry[l].status = "pending"
  /\ CancelEntry(l)
  /\ cancelled' = [cancelled EXCEPT ![l] = TRUE]
  /\ UNCHANGED <<kind, starting, polling, browser>>

-----------------------------------------------------------------------------
Starting(l) ==
  \/ NoForwarder(l) \/ TakePrevious(l) \/ StopPrevious(l)
  \/ Listen(l) \/ ListenFails(l) \/ RegisterForwarder(l)

Polling(l) ==
  \/ TimedOut(l) \/ Tick(l) \/ RemoveFile(l) \/ GiveUp(l)
  \/ Exchanged(l) \/ ExchangeFails(l) \/ DeviceGranted(l) \/ DeviceFails(l)
  \/ Save(l) \/ SaveFails(l) \/ Completes(l)

Next ==
  \/ \E l \in Login :
       \/ Begin(l)
       \/ NoForwarder(l) \/ TakePrevious(l) \/ StopPrevious(l)
       \/ Listen(l) \/ ListenFails(l) \/ RegisterForwarder(l)
       \/ \E answer \in Answer : ComeBack(l, answer)
       \/ Written(l)
       \/ TimedOut(l) \/ Tick(l) \/ RemoveFile(l) \/ GiveUp(l)
       \/ Exchanged(l) \/ ExchangeFails(l) \/ DeviceGranted(l) \/ DeviceFails(l)
       \/ Save(l) \/ SaveFails(l) \/ Completes(l)
       \/ Cancel(l)
       \/ Due(l) \/ Deadline(l)
  \/ Cleanup

\* Handlers and pollers go on, files are written, time passes and the cleanup
\* ticks.  A poller that waits for the provider ends with its context.  The
\* browser and the user need never come back.
Fairness ==
  /\ \A l \in Login :
       /\ WF_vars(Starting(l)) /\ WF_vars(Written(l))
       /\ WF_vars(Polling(l) /\ poll[l] # "device")
       /\ WF_vars(TimedOut(l))
       /\ WF_vars(Due(l)) /\ WF_vars(Deadline(l))
  /\ WF_vars(Cleanup)

Spec == Init /\ [][Next]_vars
FairSpec == Spec /\ Fairness
-----------------------------------------------------------------------------
(* Properties                                                              *)

Status == {"none", "pending", "completed", "failed", "cancelled"}

\* Every variable has its type, and a login is polled for once it is started.
TypeOK ==
  /\ kind \in [Login -> Kind]
  /\ start \in [Login -> {"idle", "take", "stop", "listen", "register", "done"}]
  /\ prev \in [Login -> Login \cup {NoLogin}]
  /\ forwarders \in [Kind -> Login \cup {NoLogin}]
  /\ listening \subseteq Login
  /\ unserved \subseteq Kind
  /\ entry \in [Login -> [status : Status, due : BOOLEAN, verifier : BOOLEAN]]
  /\ poll \in [Login -> {"off", "wait", "remove", "device", "exchange", "save",
                         "complete", "giveup", "done"}]
  /\ {late, cancelled, saved} \subseteq [Login -> BOOLEAN]
  /\ got \in [Login -> {"none"} \cup Answer]
  /\ file \in [Login -> {"none", "partial"} \cup Answer]
  /\ writing \in [Login -> {"none"} \cup Answer]
  /\ visits \in [Login -> 0..Visits]
  /\ \A l \in Login : start[l] = "done" <=> poll[l] # "off"

\* Logins of one provider that start together restart the forwarder under
\* each other; when they are through, what has the port is the one forwarder
\* that the next login will find in the map and stop, or nothing.  And it is
\* not nothing, unless the last start was denied one from outside: another
\* process had the port, or none is configured.
PortHeld ==
  \A k \in Kind \ {"device"} :
    LET of == {l \in Login : kind[l] = k}
    IN (\A l \in of : start[l] \in {"idle", "done"}) =>
         /\ OnPort(k) = (IF forwarders[k] = NoLogin THEN {} ELSE {forwarders[k]})
         /\ (\E l \in of : start[l] = "done") /\ k \notin unserved
              => forwarders[k] # NoLogin

\* What the status page says of a login is true of the credential: completed
\* means that it has been saved and failed that it has not.  The second half
\* needs a store without a remote.
HonestStatus ==
  \A l \in Login :
    /\ entry[l].status = "completed" => saved[l]
    /\ entry[l].status = "failed" => ~saved[l]

\* A login that has come to an end does not come back to life, and one that
\* has been completed stays so until it is forgotten: neither the user's
\* Cancel nor the cleanup nor a late error changes it.
OutcomeStands ==
  [][\A l \in Login :
       /\ entry[l].status = "completed" => entry'[l].status \in {"completed", "none"}
       /\ entry'[l].status = "pending" => entry[l].status = "pending" \/ poll[l] = "off"]_vars

\* The poller of a browser login ends, whatever the browser does, and the
\* registry forgets every login, those that Fail has made an entry for too.
LoginEnds ==
  \A l \in Login : /\ poll[l] = "wait" ~> poll[l] = "done"
                   /\ entry[l] # NoEntry ~> entry[l] = NoEntry

\* Violated.  "Cancel cancels a pending OAuth request": a login that the user
\* has cancelled saves no credential.
CancelledSavesNothing == \A l \in Login : cancelled[l] => ~saved[l]
=============================================================================
