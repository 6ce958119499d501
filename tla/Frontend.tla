------------------------------ MODULE Frontend ------------------------------
(***************************************************************************)
(* How one program goes from a click to a session and back:                *)
(* src/qt_gui/main_window.cpp over the emulator, the client and its own    *)
(* server, with the client's hook (try_hook, unhook in                     *)
(* src/net64/client.cpp). All of it runs in the GUI thread, but not from   *)
(* start to end: connect_net64() is continued by signals and callbacks,    *)
(* and an error dialog runs an event loop of its own, in which timer and   *)
(* signals go on while the function that opened it has not returned.       *)
(*                                                                         *)
(* The emulator is the one of Mupen64Plus: it announces RUNNING, then      *)
(* JOINABLE (RunsAnnounced there). The connection is the client's of       *)
(* Client: what the other end does is any of its events at any time.       *)
(***************************************************************************)
EXTENDS Naturals, SequencesExt

CONSTANT MaxRetries   \* bound: connect_net64() bound to emulator_started at once

ASSUME RetriesAssumption == MaxRetries \in Nat

VARIABLES
    emulator,   \* MainWindow::emulator_: "none", or the state() it answers
    told,       \* announcements of the current run: RUNNING, JOINABLE
    retries,    \* connect_net64() lambdas that wait for emulator_started
    signals,    \* events posted to the GUI thread, in order
    hook,       \* Client: "no", "hooking" (hooking_) or "hooked" (hooked())
    peer,       \* Client::peer_ by its state; "none" is null
    target,     \* the server peer_ is for: the program's own or another
    server,     \* MainWindow::server_: "none", "open" or "closing"
    hosting,    \* the check box "host"
    page,       \* the page shown
    button,     \* btn_connect_ip is enabled
    reload,     \* reload_emulator_after_stop_
    popups      \* functions that wait for their error dialog, innermost last

emulation == << emulator, told, retries, signals >>
client == << hook, peer, target >>
window == << server, hosting, page, button, reload, popups >>
vars == << emulation, client, window >>

\* Once MainWindow is constructed. Without a core there is no emulator.
Init ==
    /\ emulator \in {"none", "Stopped"} /\ told = 2
    /\ retries = 0 /\ signals = << >>
    /\ hook = "no"
    /\ peer = "none" /\ target = "other"
    /\ server = "none" /\ hosting = FALSE
    /\ page = "SETUP" /\ button = TRUE
    /\ reload = FALSE /\ popups = << >>

\* error_popup(): cont goes on when the user has read it.
ErrorPopup(cont) == popups' = Append(popups, cont)

Up == emulator \in {"Running", "Joinable"}

-----------------------------------------------------------------------------
(* connect_net64(). Its callers may have set hook and button before. *)

\* start_emulation(): create_emulator() may fail, then add_plugin(),
\* load_rom() or start(). The lambda stays in each case. What fails to load
\* does not load either while its error is still on the screen.
StartEmulation(h, b) ==
    /\ ~Up /\ retries < MaxRetries
    /\ retries' = retries + 1
    /\ \/ /\ ~Contains(popups, "start failed")
          /\ emulator' = "Running" /\ told' = 0 /\ UNCHANGED popups
       \/ emulator = "none" /\ ErrorPopup("construct failed") /\ UNCHANGED << emulator, told >>
       \/ emulator' = "Stopped" /\ ErrorPopup("start failed") /\ UNCHANGED told
    /\ hook' = h /\ button' = b
    /\ UNCHANGED << peer, target >>

Hook(h, b) ==
    /\ Up /\ h # "hooked"
    /\ hook' = "hooking" /\ button' = b
    /\ UNCHANGED << emulator, told, retries, peer, target, popups >>

\* The address is read now, not when the button was pressed. connect() may
\* fail at once, which on_connected() shows.
ConnectToServer(h, b) ==
    /\ Up /\ h = "hooked" /\ peer = "none"
    /\ target' = IF hosting THEN "own" ELSE "other"
    /\ \/ peer' = "connecting" /\ button' = b /\ UNCHANGED popups
       \/ button' = TRUE /\ ErrorPopup("connect failed") /\ UNCHANGED peer
    /\ hook' = h
    /\ UNCHANGED << emulator, told, retries >>

AlreadyConnected(h, b) ==
    /\ Up /\ h = "hooked" /\ peer # "none"
    /\ hook' = h /\ button' = b
    /\ UNCHANGED << emulator, told, retries, peer, target, popups >>

ConnectNet64(h, b) ==
    StartEmulation(h, b) \/ Hook(h, b) \/ ConnectToServer(h, b) \/ AlreadyConnected(h, b)

-----------------------------------------------------------------------------
(* The user. A dialog leaves nothing but itself to click on. *)

AtSetup == page = "SETUP" /\ popups = << >>

CheckHost ==
    /\ AtSetup
    /\ hosting' = ~hosting
    /\ UNCHANGED << emulation, client, server, page, button, reload, popups >>

\* The button; or Return in the address field, which is enabled even if the
\* button is not.
PressJoin ==
    /\ AtSetup /\ ~hosting
    /\ ConnectNet64(hook, FALSE)
    /\ UNCHANGED << signals, server, hosting, page, reload >>

PressHost ==
    /\ AtSetup /\ hosting /\ button
    /\ server' = "open"
    /\ ConnectNet64(hook, FALSE)
    /\ UNCHANGED << signals, hosting, page, reload >>

\* Server::Server throws: the port is in use, by this program perhaps.
PressHostFails ==
    /\ AtSetup /\ hosting /\ button
    /\ button' = FALSE
    /\ ErrorPopup("server failed")
    /\ UNCHANGED << emulation, client, server, hosting, page, reload >>

PressStop ==
    /\ page = "IN_GAME" /\ popups = << >>
    /\ IF server # "none"
       THEN server' = "closing" /\ UNCHANGED peer
       ELSE /\ peer' = IF peer = "connected" THEN "disconnecting" ELSE peer
            /\ UNCHANGED server
    /\ UNCHANGED << emulation, hook, target, hosting, page, button, reload, popups >>

\* destroy_emulator(), create_emulator(), while the dialogs in rest are open.
\* mem_hdl_ may go on referring to the emulator that is gone.
Recreated(rest) ==
    \/ emulator' = "Stopped" /\ popups' = rest
    \/ emulator' = "none" /\ popups' = Append(rest, "construct failed")

\* reload_emulator(), when the settings name another core.
ReloadEmulator ==
    /\ popups = << >>
    /\ IF Up THEN reload' = TRUE /\ UNCHANGED << emulator, popups >>
             ELSE reload' = FALSE /\ Recreated(popups)
    /\ UNCHANGED << told, retries, signals, hook, peer, target, server, hosting, page, button >>

-----------------------------------------------------------------------------
(* The emulation thread, and what the GUI thread makes of its signals.     *)

\* [fault] JOINABLE may be announced again.
TellJoinableAgain ==
    /\ emulator = "Joinable" /\ told = 1
    /\ signals' = Append(signals, "joinable")
    /\ UNCHANGED << emulator, told, retries, client, window >>
TellJoinable ==
    /\ emulator = "Joinable" /\ told = 1
    /\ told' = 2
    /\ signals' = Append(signals, "joinable")
    /\ UNCHANGED << emulator, retries, client, window >>

\* RUNNING: emulator_started posts an event for each lambda.
Lambdas == [i \in 1 .. retries |-> "connect"]

TellRunning ==
    /\ Up /\ told = 0
    /\ told' = 1
    /\ signals' = signals \o Lambdas
    /\ retries' = 0
    /\ UNCHANGED << emulator, client, window >>

EmulationEnds ==
    /\ emulator = "Running"
    /\ emulator' = "Joinable"
    /\ UNCHANGED << told, retries, signals, client, window >>

OnStarted ==
    /\ signals # << >> /\ Head(signals) = "connect"
    /\ signals' = Tail(signals)
    /\ ConnectNet64(hook, button)
    /\ UNCHANGED << server, hosting, page, reload >>

\* [fault] The button is left to on_disconnected().
ServerOver == server' = "none" /\ UNCHANGED button
SessionOver == server' = "none" /\ button' = TRUE

\* on_emulator_joinable() after unhook(): no server, a button, join(), which
\* may have an error to show before reload_emulator().
FinishJoin(rest) ==
    /\ SessionOver
    /\ \/ /\ emulator' = "Stopped" /\ popups' = Append(rest, "halted")
          /\ UNCHANGED reload
       \/ /\ ~reload /\ emulator' = "Stopped" /\ popups' = rest
          /\ UNCHANGED reload
       \/ reload /\ reload' = FALSE /\ Recreated(rest)

\* disconnect() while connecting; on_connected() shows the error before
\* disconnect_callback_ is called.
AbortConnect(cont) ==
    /\ peer' = "none" /\ button' = TRUE
    /\ ErrorPopup(cont)

\* [fault] unhook() leaves a connection attempt alone.
NothingToAbort == FALSE
\* unhook() disconnects, which ends a connection attempt at once.
UnhookAborts == hook = "hooked" /\ peer = "connecting"

\* [fault] A client that is still hooking is taken for one that is not there.
OnJoinableUnlessHooking ==
    /\ signals # << >> /\ Head(signals) = "joinable" /\ emulator # "none"
    /\ signals' = Tail(signals)
    /\ hook' = IF hook = "hooked" THEN "no" ELSE hook
    /\ \/ hook = "hooking" /\ UNCHANGED << emulator, peer, server, button, reload, popups >>
       \/ /\ hook # "hooking"
          /\ peer' = IF hook = "hooked" /\ peer = "connected" THEN "disconnecting" ELSE peer
          /\ FinishJoin(popups)
    /\ UNCHANGED << told, retries, target, hosting, page >>
\* unhook() only if hooked(): a client that is still hooking goes on.
OnJoinable ==
    /\ signals # << >> /\ Head(signals) = "joinable" /\ emulator # "none"
    /\ signals' = Tail(signals)
    /\ hook' = IF hook = "hooked" THEN "no" ELSE hook
    /\ \/ /\ UnhookAborts /\ AbortConnect("aborted joining")
          /\ UNCHANGED << emulator, server, reload >>
       \/ /\ ~UnhookAborts
          /\ peer' = IF hook = "hooked" /\ peer = "connected" THEN "disconnecting" ELSE peer
          /\ FinishJoin(popups)
    /\ UNCHANGED << told, retries, target, hosting, page >>

-----------------------------------------------------------------------------
(* Client::tick(), from the timer: what one call handles. Qt delivers the  *)
(* events that are posted before a timer's. While the client is hooking,   *)
(* tick() does nothing else.                                               *)

Ticks == signals = << >>

\* The magic number is there: in the game's memory, or in what is left of it.
TryHook ==
    /\ Ticks /\ hook = "hooking"
    /\ ConnectNet64("hooked", button)
    /\ UNCHANGED << signals, server, hosting, page, reload >>

\* [fault] hooking_ is reset when the callback has returned.
TryHookTwice ==
    /\ Ticks /\ hook = "hooking"
    /\ ErrorPopup("incompatible")
    /\ UNCHANGED << emulation, client, server, hosting, page, button, reload >>
\* INCOMPATIBLE_GAME: header and queues stay.
TryHookFails ==
    /\ Ticks /\ hook = "hooking"
    /\ hook' = "hooked"
    /\ ErrorPopup("incompatible")
    /\ UNCHANGED << emulation, peer, target, server, hosting, page, button, reload >>

\* [fault] A client without a game serves no connection either.
TickIfHooked == Ticks /\ hook = "hooked"
TickConnects == Ticks /\ hook # "hooking"

\* connect_timeout_, 5 seconds: more than the emulation thread needs between
\* state_ = Running, which let connect_net64() come this far, and RUNNING.
ConnectTimesOut ==
    /\ TickConnects /\ peer = "connecting" /\ told # 0
    /\ AbortConnect("aborted")
    /\ UNCHANGED << emulation, hook, target, server, hosting, page, reload >>

ConnectEvent ==
    /\ TickConnects /\ peer = "connecting" /\ (target = "own" => server = "open")
    /\ peer' = "connected" /\ page' = "IN_GAME"
    /\ UNCHANGED << emulation, hook, target, server, hosting, button, reload, popups >>

\* [fault] The page is changed by whoever disconnects.
OnDisconnectedInGame == UNCHANGED page /\ button' = TRUE /\ server' = "none"
\* on_disconnected().
OnDisconnected == page' = "SETUP" /\ button' = TRUE /\ server' = "none"

DisconnectEvent ==
    /\ TickConnects /\ peer = "connected"
    /\ peer' = "none"
    /\ OnDisconnected
    /\ UNCHANGED << emulation, hook, target, hosting, reload, popups >>

\* Acknowledged, or disconnect_timeout_ is over.
DisconnectEnds ==
    /\ TickConnects /\ peer = "disconnecting"
    /\ peer' = "none"
    /\ OnDisconnected
    /\ UNCHANGED << emulation, hook, target, hosting, reload, popups >>

-----------------------------------------------------------------------------
(* The innermost error dialog is closed and its function goes on.          *)

Closes(cont) == popups # << >> /\ Last(popups) = cont

\* Nothing is left to do.
PopupEnds ==
    /\ popups # << >>
    /\ Last(popups) \in {"construct failed", "connect failed", "incompatible"}
    /\ popups' = Front(popups)
    /\ UNCHANGED << emulation, client, server, hosting, page, button, reload >>

ServerFailed ==
    /\ Closes("server failed")
    /\ popups' = Front(popups) /\ button' = TRUE
    /\ UNCHANGED << emulation, client, server, hosting, page, reload >>

\* emulator_.reset(). Nobody is told: the settings keep the old address.
StartFailed ==
    /\ Closes("start failed")
    /\ popups' = Front(popups)
    /\ emulator' = "none"
    /\ UNCHANGED << told, retries, signals, hook, peer, target, server, hosting, page, button,
                    reload >>

\* disconnect_callback_ after a connection attempt was given up.
Aborted ==
    /\ Closes("aborted")
    /\ popups' = Front(popups)
    /\ OnDisconnected
    /\ UNCHANGED << emulation, client, hosting, reload >>

AbortedJoining ==
    /\ Closes("aborted joining")
    /\ FinishJoin(Front(popups))
    /\ page' = "SETUP"
    /\ UNCHANGED << told, retries, signals, hook, peer, target, hosting >>

\* Another reload_emulator() waits if a tick has started the emulator.
Halted ==
    /\ Closes("halted")
    /\ IF ~reload \/ Up
       THEN popups' = Front(popups) /\ UNCHANGED << emulator, reload >>
       ELSE reload' = FALSE /\ Recreated(Front(popups))
    /\ UNCHANGED << told, retries, signals, hook, peer, target, server, hosting, page, button >>

-----------------------------------------------------------------------------
User == CheckHost \/ PressJoin \/ PressHost \/ PressHostFails \/ PressStop \/ ReloadEmulator

Announces == TellRunning \/ TellJoinable

Delivers == OnStarted \/ OnJoinable

Tick ==
    \/ TryHook \/ TryHookFails
    \/ ConnectTimesOut \/ ConnectEvent \/ DisconnectEvent \/ DisconnectEnds

ClosePopup ==
    PopupEnds \/ ServerFailed \/ StartFailed \/ Aborted \/ AbortedJoining \/ Halted

Next == User \/ EmulationEnds \/ Announces \/ Delivers \/ Tick \/ ClosePopup

SafeSpec == Init /\ [][Next]_vars

\* The emulation thread runs, Qt delivers, the timer ticks, timeouts run out,
\* and somebody reads the dialogs. No game has to start or to end, no
\* connection to come about or to break.
Spec ==
    /\ SafeSpec
    /\ WF_vars(Announces) /\ WF_vars(Delivers) /\ WF_vars(ClosePopup)
    /\ WF_vars(ConnectTimesOut) /\ WF_vars(DisconnectEnds)

-----------------------------------------------------------------------------
\* The variables keep their types, and a run announces its end once, last.
TypeOK ==
    /\ emulator \in {"none", "Stopped", "Running", "Joinable"} /\ told \in 0 .. 2
    /\ retries \in 0 .. MaxRetries
    /\ signals \in Seq({"connect", "joinable"})
    /\ \A i \in 1 .. Len(signals) : signals[i] = "joinable" => i = Len(signals)
    /\ hook \in {"no", "hooking", "hooked"}
    /\ peer \in {"none", "connecting", "connected", "disconnecting"}
    /\ target \in {"own", "other"} /\ server \in {"none", "open", "closing"}
    /\ hosting \in BOOLEAN /\ button \in BOOLEAN /\ reload \in BOOLEAN
    /\ page \in {"SETUP", "IN_GAME"}
    /\ popups \in Seq({"construct failed", "start failed", "server failed", "connect failed",
                       "incompatible", "aborted", "aborted joining", "halted"})

\* tick() returns early while the client is hooking and then serves no
\* connection, not even its timeouts: there must be none, though emulator,
\* window and client each forget their part of a session at another time.
HookingStarvesNoConnection == hook = "hooking" => peer = "none"

\* The page with the chat is shown for as long as there is a session. So
\* wherever "connect" can be clicked the last session is over: connect_net64()
\* does nothing, and enables nothing, while there is a peer.
PageFollowsConnection == page = "IN_GAME" <=> peer \in {"connected", "disconnecting"}

\* hook() does not replace hooked_callback_ while it runs, that is, while its
\* error dialog is open.
HookCallbackStays == \A i \in 1 .. Len(popups) : popups[i] = "incompatible" => hook # "hooking"

\* The button that starts a session comes back with the end of one, or of
\* any attempt, except a start of the emulator that failed.
OnlyFailedStartsDisable ==
    AtSetup /\ ~button /\ ~Up /\ peer = "none" => retries > 0

\* A connection attempt, and a disconnect, come to an end.
ConnectionsSettle == peer \in {"connecting", "disconnecting"} ~> peer \in {"none", "connected"}

\* An emulator that is through is joined, whatever it interrupts.
EndedRunsAreJoined == emulator = "Joinable" ~> emulator # "Joinable"
=============================================================================
