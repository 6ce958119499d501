----------------------------- MODULE Controller -----------------------------
(***************************************************************************)
(* The controller page of the emulator settings: the buttons that bind an  *)
(* N64 button (src/qt_gui/sdl_bind_button.cpp) and the box that selects    *)
(* the device they listen to                                               *)
(* (src/qt_gui/emulator_controller_configuration.cpp), over the settings   *)
(* of the emulator (Bindings). All of it runs in the GUI thread, in which  *)
(* a timer polls the events of SDL: gamepads come, go and move while the   *)
(* user clicks.                                                            *)
(***************************************************************************)
EXTENDS Bindings, Integers, SequencesExt

CONSTANTS
    Buttons,       \* the N64 buttons looked at
    KeyInputs,     \* what keys, the mouse and a gamepad can bind
    MouseInputs,
    PadInputs,
    Pads,          \* gamepads, each plugged in at most once at a time
    NameOf,        \* their names; two may share one, and it may be empty
    MaxPads        \* bound: gamepads plugged in at once

\* START stands for the buttons outside the stick, each with a key of its own.
ASSUME ControllerAssumption ==
    /\ Buttons \subseteq {"START"} \cup DOMAIN Opposite
    /\ \A btn \in Buttons : OnStick(btn) => Opposite[btn] \in Buttons
    /\ \A input \in KeyInputs \cup MouseInputs \cup PadInputs :
           /\ input = [type |-> input.type, hat |-> input.hat, val |-> input.val]
           /\ input.type # "none" /\ input.val # Blank
    /\ MaxPads \in Nat \ {0}
    /\ \A p \in Pads : NameOf[p] \notin {"Keyboard", "[Disconnected]"}

VARIABLES
    file,        \* the keys of the section Input-SDL-Control1
    device,      \* its name and device
    shown,       \* SDL_BindButton::input_ of each button
    listening,   \* the buttons with listening_ set
    heard,       \* joy_id_ of the buttons, the same for all; NoPad is -1
    joystick,    \* EmulatorControllerConfiguration::joystick_
    pads,        \* SDL's gamepads, by device index
    box,         \* device_box: gamepads, [Disconnected] or not, current index
    loaded       \* the page has a settings handle

binds == << file, shown, listening >>
devices == << device, heard, joystick, pads, box >>
vars == << binds, devices, loaded >>

NoPad == "none"
KeyboardDevice == [name |-> "Keyboard", index |-> -1]
UnsetDevice == [name |-> "", index |-> -2]   \* before the first set_device()

Keys == {KeyOf(btn) : btn \in Buttons}

Init ==
    /\ file = [key \in Keys |-> NoText]
    /\ device \in {KeyboardDevice, UnsetDevice}
                  \cup {[name |-> NameOf[p], index |-> 0] : p \in Pads}
    /\ shown = [btn \in Buttons |-> None] /\ listening = {}
    /\ heard = NoPad /\ joystick = NoPad /\ pads = << >>
    /\ box = [pads |-> << >>, gone |-> FALSE, at |-> 0]
    /\ loaded = FALSE

-----------------------------------------------------------------------------
(* The buttons. *)

\* [fault] Nothing is saved.
BindUnsaved(btn, input) ==
    /\ shown' = [shown EXCEPT ![btn] = input]
    /\ listening' = listening \ {btn} /\ UNCHANGED file

\* SDL_BindButton::set_bind().
Bind(btn, input) ==
    /\ shown' = [shown EXCEPT ![btn] = input]
    /\ file' = SetBind(file, btn, input)
    /\ listening' = listening \ {btn}

\* mouseReleaseEvent(), while the button does not listen. Its other half is
\* below, for the keyboard and for a gamepad.
StartListening(btn) ==
    /\ loaded /\ btn \notin listening
    /\ listening' = listening \cup {btn}
    /\ UNCHANGED << file, shown, devices, loaded >>

Clear(btn) ==
    /\ loaded /\ btn \notin listening
    /\ Bind(btn, None)
    /\ UNCHANGED << devices, loaded >>

\* keyPressEvent(), mouseReleaseEvent(): without a gamepad they bind.
BindKeyOrMouse(btn, input) ==
    /\ btn \in listening /\ heard = NoPad
    /\ Bind(btn, input)
    /\ UNCHANGED << devices, loaded >>

\* keyPressEvent() of a key SDL has no code for: input_ is a key by now, with
\* what the union held as its code, and the button goes on listening.
PressUnknownKey(btn) ==
    /\ btn \in listening /\ heard = NoPad
    /\ shown' = [shown EXCEPT ![btn] = IF @.type = "key" THEN @ ELSE Input("key", "stale")]
    /\ UNCHANGED << file, listening, devices, loaded >>

\* keyPressEvent(), mouseReleaseEvent(): with a gamepad, a key or the left
\* button gives up.
StopListening(btn) ==
    /\ btn \in listening /\ heard # NoPad
    /\ listening' = listening \ {btn}
    /\ UNCHANGED << file, shown, devices, loaded >>

\* handle_sdl_event().
Handled(f, btn, input) == IF btn \in listening THEN SetBind(f, btn, input) ELSE f

\* dispatch_event() of an event of the gamepad p, to the handler registered
\* last first: it is bound to every button that listens.
PadEvent(p, input) ==
    /\ p = heard /\ Contains(pads, p) /\ listening # {}
    /\ LET x == Handled(Handled(Handled(file, "START", input), "RIGHT", input), "LEFT", input)
       IN  file' = Handled(Handled(x, "DOWN", input), "UP", input)
    /\ shown' = [btn \in Buttons |-> IF btn \in listening THEN input ELSE shown[btn]]
    /\ listening' = {}
    /\ UNCHANGED << devices, loaded >>

-----------------------------------------------------------------------------
(* The device box. *)

\* The names of the gamepads that have one, in their order.
Entries(nowPads) ==
    LET named == {i \in DOMAIN nowPads : NameOf[nowPads[i]] # ""}
        Nth(k) == CHOOSE i \in named : Cardinality({j \in named : j <= i}) = k
    IN  [k \in 1..Cardinality(named) |-> NameOf[nowPads[Nth(k)]]]

\* [fault] There is no entry for a device that is missing.
BoxOfPresent(nowPads, gone, at) == [pads |-> Entries(nowPads), gone |-> FALSE, at |-> at]

\* The box with a new list of gamepads in it.
BoxOf(nowPads, gone, at) == [pads |-> Entries(nowPads), gone |-> gone, at |-> at]

\* [fault] Only another gamepad ends listening to one.
IndexChangesHearing(b, nowPads) ==
    IF b.at \in DOMAIN b.pads
    THEN /\ heard' = nowPads[b.at] /\ joystick' = nowPads[b.at]
         /\ device' = [name |-> b.pads[b.at], index |-> b.at - 1]
         /\ box' = [b EXCEPT !.gone = FALSE]
    ELSE box' = b /\ UNCHANGED << device, heard, joystick >>

\* currentIndexChanged, from the index of b. Only a gamepad that could be
\* opened is written down and heard. The entries of the box count gamepads
\* that have a name, SDL's device index counts all of them.
IndexChanges(b, nowPads) ==
    LET names == b.pads IN
    \/ /\ b.at > Len(names)
       /\ heard' = NoPad /\ box' = b
       /\ UNCHANGED << device, joystick >>
    \/ /\ b.at = 0
       /\ heard' = NoPad /\ joystick' = NoPad
       /\ device' = KeyboardDevice
       /\ box' = [b EXCEPT !.gone = FALSE]
    \/ /\ b.at \in 1..Len(names)
       /\ \/ /\ heard' = NoPad /\ joystick' = NoPad   \* SDL_JoystickOpen() fails
             /\ box' = b /\ UNCHANGED device
          \/ /\ heard' = nowPads[b.at] /\ joystick' = nowPads[b.at]
             /\ device' = [name |-> names[b.at], index |-> b.at - 1]
             /\ box' = [b EXCEPT !.gone = FALSE]

\* The user selects another entry.
Select(i) ==
    /\ loaded /\ i # box.at
    /\ i \in 0..(Len(box.pads) + IF box.gone THEN 1 ELSE 0)
    /\ IndexChanges([box EXCEPT !.at = i], pads)
    /\ UNCHANGED << binds, pads, loaded >>

\* [fault] The entry of the configured index is selected.
ScanByIndex(dev, nowPads) ==
    IF dev.index + 1 \in DOMAIN nowPads
    THEN IndexChanges(BoxOf(nowPads, FALSE, dev.index + 1), nowPads)
    ELSE IndexChanges(BoxOf(nowPads, TRUE, Len(BoxOf(nowPads, TRUE, 0).pads) + 1), nowPads)

\* scan_devices(), with dev configured: the box is filled anew and the entry
\* of that name selected, which is the first of several. Index 0 is where
\* the box is by then, so that nothing changes for the keyboard.
ScanDevices(dev, nowPads) ==
    LET b == BoxOf(nowPads, FALSE, 0)
        named == {i \in DOMAIN b.pads : b.pads[i] = dev.name}
    IN  \/ /\ dev.name = "Keyboard" /\ box' = b
           /\ device' = dev /\ UNCHANGED << heard, joystick >>
        \/ \E i \in named : (\A j \in named : i <= j) /\ IndexChanges([b EXCEPT !.at = i], nowPads)
        \/ /\ dev.name # "Keyboard" /\ named = {}
           /\ IndexChanges(BoxOf(nowPads, TRUE, Len(b.pads) + 1), nowPads)

\* SDL_JOYDEVICEADDED, SDL_JOYDEVICEREMOVED: handle_sdl_event().
PadsChange(nowPads) ==
    /\ pads' = nowPads
    /\ \/ loaded /\ ScanDevices(device, nowPads)
       \/ ~loaded /\ UNCHANGED << device, heard, joystick, box >>
    /\ UNCHANGED << binds, loaded >>

PadAdded(p) ==
    /\ ~Contains(pads, p) /\ Len(pads) < MaxPads
    /\ PadsChange(Append(pads, p))

PadRemoved(i) ==
    /\ i \in DOMAIN pads
    /\ PadsChange(RemoveAt(pads, i))

-----------------------------------------------------------------------------
(* The page as a whole. *)

\* SDL_BindButton::load(): what is read is written back.
Load(r, btn) ==
    LET input == GetBind(r.file, btn)
    IN  IF btn \in Buttons
        THEN [file |-> SetBind(r.file, btn, input), shown |-> [r.shown EXCEPT ![btn] = input]]
        ELSE r

\* set_settings_handle(), which a settings window that opens calls, and the
\* box of the mode: update_interface(), load_settings() in the order of
\* N64Button, scan_devices().
Open ==
    LET y == Load(Load(Load([file |-> file, shown |-> shown], "START"), "UP"), "DOWN")
        r == Load(Load(y, "LEFT"), "RIGHT") IN
    /\ file' = r.file /\ shown' = r.shown /\ listening' = {}
    /\ loaded' = TRUE
    /\ ScanDevices(device, pads)
    /\ UNCHANGED pads

Next ==
    \/ Open
    \/ \E btn \in Buttons : StartListening(btn) \/ Clear(btn) \/ StopListening(btn)
    \/ \E btn \in Buttons, input \in KeyInputs \cup MouseInputs : BindKeyOrMouse(btn, input)
    \/ \E btn \in Buttons : PressUnknownKey(btn)
    \/ \E p \in Pads, input \in PadInputs : PadEvent(p, input)
    \/ \E i \in 0..(MaxPads + 1) : Select(i)
    \/ \E p \in Pads : PadAdded(p)
    \/ \E i \in 1..MaxPads : PadRemoved(i)

Spec == Init /\ [][Next]_vars

-----------------------------------------------------------------------------
(* What the page promises. *)

PadNames == {NameOf[p] : p \in Pads}
AnyInput == KeyInputs \cup MouseInputs \cup PadInputs \cup {None}

TypeOK ==
    /\ \A key \in Keys : /\ file[key].type \in {i.type : i \in AnyInput}
                         /\ file[key].args \in Seq({i.val : i \in AnyInput} \cup {"9830"})
    /\ shown \in [Buttons -> AnyInput \cup {Input("key", "stale")}]
    /\ listening \subseteq Buttons
    /\ device \in {KeyboardDevice, UnsetDevice} \cup [name : PadNames, index : 0..(MaxPads - 1)]
    /\ heard \in Pads \cup {NoPad} /\ joystick \in Pads \cup {NoPad}
    /\ pads \in Seq(Pads)
    /\ box.pads \in Seq(PadNames) /\ box.gone \in BOOLEAN
    /\ box.at \in 0..(Len(box.pads) + IF box.gone THEN 1 ELSE 0)
    /\ loaded \in BOOLEAN

\* The gamepad the buttons listen to is plugged in, is the one that is open
\* and the one the emulator is configured to use, whatever was plugged in,
\* pulled out or selected since; only its name may be another one's, while a
\* gamepad without a name is there.
HeardPadIsConfigured ==
    heard # NoPad =>
        /\ joystick = heard
        /\ device.index + 1 \in DOMAIN pads /\ pads[device.index + 1] = heard
        /\ device.name = NameOf[heard] \/ \E i \in DOMAIN pads : NameOf[pads[i]] = ""

NamesTellApart(ps) ==
    /\ \A i \in DOMAIN ps : NameOf[ps[i]] # ""
    /\ \A i, j \in DOMAIN ps : NameOf[ps[i]] = NameOf[ps[j]] => i = j

\* Gamepads that come, go and change places never make the buttons listen to
\* another gamepad, as long as each has a name of its own.
NoPadStealsTheBox ==
    [][ (pads' # pads /\ NamesTellApart(pads) /\ NamesTellApart(pads') /\ heard # NoPad)
            => heard' \in {heard, NoPad} ]_vars

\* Outside the stick, what a button shows is what the file has, but for two
\* cases: an input the file cannot hold, and what a key without a code left
\* behind when listening ended without a bind.
ButtonsShowTheFile ==
    \A btn \in Buttons :
        loaded /\ btn \notin listening /\ ~OnStick(btn) /\ shown[btn] # GetBind(file, btn)
            => Refused(shown[btn]) \/ shown[btn] = Input("key", "stale")

\* A button that has a key of its own, or a stick direction that shares its
\* key with an opposite that is bound as well.
Whole(btn) == GetBind(file, btn) # None /\ (OnStick(btn) => GetBind(file, Opposite[btn]) # None)

\* The step binds or clears btn.
Binds(btn) == Clear(btn) \/ (~Open /\ btn \in listening \ listening')

\* A whole bind is lost only to a step that binds or clears its own button or
\* gives the opposite direction something one key cannot hold beside it. Every
\* settings window that opens reads all binds and writes them back one by one,
\* and one event of a gamepad may bind several buttons: neither changes it.
WholeBindsAreKept ==
    [][ \A btn \in Buttons :
            Whole(btn) /\ GetBind(file', btn) # GetBind(file, btn)
                => \/ Binds(btn)
                   \/ /\ OnStick(btn) /\ Binds(Opposite[btn])
                      /\ \/ shown'[Opposite[btn]].type # GetBind(file, btn).type
                         \/ shown'[Opposite[btn]].hat # GetBind(file, btn).hat ]_vars
=============================================================================
