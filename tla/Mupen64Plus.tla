---------------------------- MODULE Mupen64Plus ----------------------------
(***************************************************************************)
(* The life of the emulator, src/net64/emulator/m64plus.cpp: the GUI       *)
(* thread starts, stops, joins and destroys it, the emulation thread runs  *)
(* the Mupen64Plus core (external), and a mutex is handed back and forth   *)
(* between them: the emulation thread holds it across the whole of the     *)
(* starting phase and again when the core has stopped. One action for each *)
(* step another thread can see. The GUI calls what MainWindow calls.       *)
(***************************************************************************)
EXTENDS Naturals, Sequences

CONSTANT MaxPauses   \* bound: how often the user pauses a run

ASSUME MaxPausesAssumption == MaxPauses \in Nat

(* Definitions marked [fault] are wrong versions of the one that follows   *)
(* them; no action uses them, they are there to show which property rules  *)
(* them out.                                                               *)

VARIABLES
    exists,       \* there is an emulator object (MainWindow::emulator_)
    state,        \* Mupen64Plus::state_
    mutex,        \* who holds Mupen64Plus::mutex_
    rom_loaded,   \* Mupen64Plus::rom_loaded_
    gui,          \* where the GUI thread is
    closing,      \* the GUI thread is in ~Mupen64Plus
    emu,          \* where the emulation thread is
    owns,         \* emu_thread_owns_mutex, on the stack of start()
    core,         \* the core's two flags: paused, and asked to stop
    pauses,       \* times the user paused this run
    notified,     \* the states this run told the callback, in order
    joinable      \* the callback was told JOINABLE; the GUI has it to handle

vars == << exists, state, mutex, rom_loaded, gui, closing, emu, owns, core,
           pauses, notified, joinable >>

\* What the emulation thread's own progress is made of.
run == << owns, core, pauses, notified, joinable >>

Init ==
    /\ exists = FALSE /\ state = "Stopped" /\ mutex = "free"
    /\ rom_loaded = FALSE
    /\ gui = "idle" /\ closing = FALSE
    /\ emu = "none" /\ owns = FALSE
    /\ core = [paused |-> FALSE, stop |-> FALSE]
    /\ pauses = 0 /\ notified = << >> /\ joinable = FALSE

\* The core is in main_run(): commands and hotkeys act on it.
CoreIsRunning == emu \in {"announce", "boot", "run", "pause", "announce_pause"}

\* The core's main_stop(), from either thread: it ends a pause first, and the
\* state callback is called for that on the thread that asked.
CoreAskedToStop ==
    IF CoreIsRunning
    THEN /\ core' = [paused |-> FALSE, stop |-> TRUE]
         /\ notified' = IF core.paused THEN Append(notified, "RUNNING") ELSE notified
    ELSE UNCHANGED << core, notified >>

-----------------------------------------------------------------------------
(* The GUI thread: start_emulation, start(). *)

\* create_emulator(), add_plugin() four times, load_rom().
StartEmulation ==
    /\ gui = "idle" /\ mutex = "free" /\ state = "Stopped"
    /\ exists' = TRUE /\ rom_loaded' = TRUE
    /\ gui' = "start"
    /\ UNCHANGED << state, mutex, closing, emu, run >>

\* One of them throws: emulator_.reset().
StartEmulationFails ==
    /\ gui = "idle" /\ mutex = "free" /\ state = "Stopped"
    /\ exists' = TRUE
    /\ gui' = "stop" /\ closing' = TRUE
    /\ UNCHANGED << state, mutex, rom_loaded, emu, run >>

StartBegins ==
    /\ gui = "start" /\ mutex = "free"
    /\ state' = "Starting"
    /\ gui' = "spawn"
    /\ UNCHANGED << exists, mutex, rom_loaded, closing, emu, run >>

SpawnThread ==
    /\ gui = "spawn"
    /\ gui' = "wait"
    /\ emu' = "lock" /\ owns' = FALSE
    /\ core' = [paused |-> FALSE, stop |-> FALSE]
    /\ pauses' = 0 /\ notified' = << >>
    /\ UNCHANGED << exists, state, mutex, rom_loaded, closing, joinable >>

\* std::async throws: there is no thread, and state_ stays Starting.
SpawnFails ==
    /\ gui = "spawn"
    /\ gui' = "stop" /\ closing' = TRUE
    /\ emu' = "none" /\ notified' = << >>
    /\ UNCHANGED << exists, state, mutex, rom_loaded, owns, core, pauses, joinable >>

\* [fault] start() does not wait for the thread.
StartReturnsAtOnce ==
    /\ gui = "wait"
    /\ gui' = "idle"
    /\ UNCHANGED << exists, state, mutex, rom_loaded, closing, emu, run >>
\* The condition variable and its mutex go out of scope with start().
StartReturns ==
    /\ gui = "wait" /\ owns
    /\ gui' = "idle"
    /\ UNCHANGED << exists, state, mutex, rom_loaded, closing, emu, run >>

-----------------------------------------------------------------------------
(* stop(), on its own or from ~Mupen64Plus. *)

StopEmulation ==
    /\ gui = "idle" /\ exists
    /\ gui' = "stop"
    /\ UNCHANGED << exists, state, mutex, rom_loaded, closing, emu, run >>

\* The window is closed, or the emulator is reloaded.
Close ==
    /\ gui = "idle" /\ exists
    /\ gui' = "stop" /\ closing' = TRUE
    /\ UNCHANGED << exists, state, mutex, rom_loaded, emu, run >>

AfterStop == IF closing THEN "join" ELSE "idle"

StopNothing ==
    /\ gui = "stop" /\ mutex = "free"
    /\ state \in {"Stopped", "Stopping", "Joinable"}
    /\ gui' = AfterStop
    /\ UNCHANGED << exists, state, mutex, rom_loaded, closing, emu, run >>

\* [fault] The mutex is given up between the look at state_ and its write.
StopLooks ==
    /\ gui = "stop" /\ mutex = "free"
    /\ state \notin {"Stopped", "Stopping", "Joinable"}
    /\ gui' = "command"
    /\ UNCHANGED << exists, state, mutex, rom_loaded, closing, emu, run >>
StopLocks ==
    /\ gui = "stop" /\ mutex = "free"
    /\ state \notin {"Stopped", "Stopping", "Joinable"}
    /\ mutex' = "gui"
    /\ gui' = "command"
    /\ UNCHANGED << exists, state, rom_loaded, closing, emu, run >>

StopCommands ==
    /\ gui = "command"
    /\ CoreAskedToStop
    /\ gui' = "mark"
    /\ UNCHANGED << exists, state, mutex, rom_loaded, closing, emu, owns, pauses, joinable >>

StopMarks ==
    /\ gui = "mark"
    /\ state' = "Stopping" /\ mutex' = "free"
    /\ gui' = "await"
    /\ UNCHANGED << exists, rom_loaded, closing, emu, run >>

\* [fault] The command is sent once.
StopOnlyWaits == gui = "await" /\ state # "Joinable" /\ UNCHANGED vars
\* The core may have lost the command: it is repeated.
StopRetries ==
    /\ gui = "await" /\ state # "Joinable"
    /\ CoreAskedToStop
    /\ UNCHANGED << exists, state, mutex, rom_loaded, gui, closing, emu, owns,
                    pauses, joinable >>

StopReturns ==
    /\ gui = "await" /\ state = "Joinable"
    /\ gui' = AfterStop
    /\ UNCHANGED << exists, state, mutex, rom_loaded, closing, emu, run >>

-----------------------------------------------------------------------------
(* join(), unload_rom(): on_emulator_joinable, ~Mupen64Plus. *)

OnJoinable ==
    /\ gui = "idle" /\ joinable
    /\ joinable' = FALSE
    /\ gui' = "join"
    /\ UNCHANGED << exists, state, mutex, rom_loaded, closing, emu, owns, core,
                    pauses, notified >>

JoinNothing ==
    /\ gui = "join" /\ state = "Stopped"
    /\ gui' = "unload"
    /\ UNCHANGED << exists, state, mutex, rom_loaded, closing, emu, run >>

JoinLocks ==
    /\ gui = "join" /\ state # "Stopped" /\ mutex = "free"
    /\ mutex' = "gui"
    /\ gui' = "get"
    /\ UNCHANGED << exists, state, rom_loaded, closing, emu, run >>

\* [fault] The thread is not waited for.
JoinGetsAtOnce ==
    /\ gui = "get"
    /\ state' = "Stopped" /\ mutex' = "free"
    /\ gui' = "unload"
    /\ UNCHANGED << exists, rom_loaded, closing, emu, run >>
\* emulation_thread_.get() returns, or throws, when the thread has ended.
JoinGets ==
    /\ gui = "get" /\ emu = "ended"
    /\ state' = "Stopped" /\ mutex' = "free"
    /\ gui' = "unload"
    /\ UNCHANGED << exists, rom_loaded, closing, emu, run >>

\* The destructor unloads the ROM if there is one; the object is gone then,
\* and with its window a JOINABLE that nobody handled.
UnloadRom ==
    /\ gui = "unload" /\ mutex = "free"
    /\ rom_loaded' = FALSE
    /\ exists' = ~closing
    /\ joinable' = (joinable /\ ~closing)
    /\ gui' = "idle" /\ closing' = FALSE
    /\ UNCHANGED << state, mutex, emu, owns, core, pauses, notified >>

-----------------------------------------------------------------------------
(* The emulation thread, from its first line to the core. *)

EmuLocks ==
    /\ emu = "lock" /\ mutex = "free"
    /\ mutex' = "emu"
    /\ emu' = "own"
    /\ UNCHANGED << exists, state, rom_loaded, gui, closing, run >>

EmuOwns ==
    /\ emu = "own"
    /\ owns' = TRUE
    /\ emu' = "notify"
    /\ UNCHANGED << exists, state, mutex, rom_loaded, gui, closing, core, pauses,
                    notified, joinable >>

\* cv.notify_one().
EmuNotifies ==
    /\ emu = "notify"
    /\ emu' = "attach"
    /\ UNCHANGED << exists, state, mutex, rom_loaded, gui, closing, run >>

AttachPlugins ==
    /\ emu = "attach"
    /\ emu' = "execute"
    /\ UNCHANGED << exists, state, mutex, rom_loaded, gui, closing, run >>

\* attach_plugins() is noexcept: an exception in it ends the program before
\* the handler written for it.
AttachFails ==
    /\ emu = "attach"
    /\ gui' = "terminated" /\ emu' = "terminated"
    /\ UNCHANGED << exists, state, mutex, rom_loaded, closing, run >>

\* M64CMD_EXECUTE fails before the core runs.
ExecuteFails ==
    /\ emu = "execute"
    /\ state' = "Joinable" /\ mutex' = "free"
    /\ emu' = "announce_failed"
    /\ UNCHANGED << exists, rom_loaded, gui, closing, run >>

\* [fault] A run that failed to start is over without having begun.
FailureUnannounced ==
    /\ emu = "announce_failed"
    /\ emu' = "announce_joinable"
    /\ UNCHANGED << exists, state, mutex, rom_loaded, gui, closing, run >>
AnnounceFailed ==
    /\ emu = "announce_failed"
    /\ notified' = Append(notified, "RUNNING")
    /\ emu' = "announce_joinable"
    /\ UNCHANGED << exists, state, mutex, rom_loaded, gui, closing, owns, core,
                    pauses, joinable >>

-----------------------------------------------------------------------------
(* The emulation thread inside the core, and the state callback. *)

\* M64EMU_RUNNING, the first time: stop() may be entered from here on.
CoreStarts ==
    /\ emu = "execute"
    /\ state' = "Running" /\ mutex' = "free"
    /\ emu' = "announce"
    /\ UNCHANGED << exists, rom_loaded, gui, closing, run >>

AnnounceRunning ==
    /\ emu = "announce"
    /\ notified' = Append(notified, "RUNNING")
    /\ emu' = "boot"
    /\ UNCHANGED << exists, state, mutex, rom_loaded, gui, closing, owns, core,
                    pauses, joinable >>

\* The CPU starts, and forgets that it was asked to stop before
\* (mupen64plus-core issue 681).
CoreBoots ==
    /\ emu = "boot"
    /\ core' = [core EXCEPT !.stop = FALSE]
    /\ emu' = "run"
    /\ UNCHANGED << exists, state, mutex, rom_loaded, gui, closing, owns, pauses,
                    notified, joinable >>

UserPauses ==
    /\ emu = "run" /\ ~core.paused /\ pauses < MaxPauses
    /\ core' = [core EXCEPT !.paused = TRUE]
    /\ pauses' = pauses + 1
    /\ emu' = "pause"
    /\ UNCHANGED << exists, state, mutex, rom_loaded, gui, closing, owns, notified,
                    joinable >>

\* M64EMU_PAUSED.
EmuPauses ==
    /\ emu = "pause" /\ mutex = "free"
    /\ state' = "Paused"
    /\ emu' = "announce_pause"
    /\ UNCHANGED << exists, mutex, rom_loaded, gui, closing, run >>

AnnouncePause ==
    /\ emu = "announce_pause"
    /\ notified' = Append(notified, "PAUSED")
    /\ emu' = "run"
    /\ UNCHANGED << exists, state, mutex, rom_loaded, gui, closing, owns, core,
                    pauses, joinable >>

\* M64EMU_RUNNING, again: state_ is left as it is.
UserUnpauses ==
    /\ emu = "run" /\ core.paused
    /\ core' = [core EXCEPT !.paused = FALSE]
    /\ notified' = Append(notified, "RUNNING")
    /\ UNCHANGED << exists, state, mutex, rom_loaded, gui, closing, emu, owns, pauses,
                    joinable >>

\* The user closes the emulator's own window.
UserCloses ==
    /\ emu = "run" /\ ~core.stop
    /\ CoreAskedToStop
    /\ UNCHANGED << exists, state, mutex, rom_loaded, gui, closing, emu, owns, pauses,
                    joinable >>

CoreStops ==
    /\ emu = "run" /\ core.stop /\ ~core.paused
    /\ emu' = "stopped"
    /\ UNCHANGED << exists, state, mutex, rom_loaded, gui, closing, run >>

\* M64EMU_STOPPED: the mutex is kept until M64CMD_EXECUTE has returned.
EmuStops ==
    /\ emu = "stopped" /\ mutex = "free"
    /\ mutex' = "emu" /\ state' = "Joinable"
    /\ emu' = "leave"
    /\ UNCHANGED << exists, rom_loaded, gui, closing, run >>

EmuLeaves ==
    /\ emu = "leave"
    /\ mutex' = "free"
    /\ emu' = "announce_joinable"
    /\ UNCHANGED << exists, state, rom_loaded, gui, closing, run >>

\* [fault] The GUI is not told.
JoinableUnannounced ==
    /\ emu = "announce_joinable"
    /\ notified' = Append(notified, "JOINABLE")
    /\ emu' = "ended"
    /\ UNCHANGED << exists, state, mutex, rom_loaded, gui, closing, owns, core, pauses,
                    joinable >>
AnnounceJoinable ==
    /\ emu = "announce_joinable"
    /\ notified' = Append(notified, "JOINABLE")
    /\ joinable' = TRUE
    /\ emu' = "ended"
    /\ UNCHANGED << exists, state, mutex, rom_loaded, gui, closing, owns, core, pauses >>

-----------------------------------------------------------------------------
\* What the GUI thread does without having been asked, and what it does next.
GuiBegins == StartEmulation \/ StartEmulationFails \/ StopEmulation \/ Close
GuiGoesOn ==
    \/ StartBegins \/ SpawnThread \/ SpawnFails \/ StartReturns
    \/ StopNothing \/ StopLocks \/ StopCommands \/ StopMarks \/ StopRetries \/ StopReturns
    \/ OnJoinable \/ JoinNothing \/ JoinLocks \/ JoinGets \/ UnloadRom

User == UserPauses \/ UserUnpauses \/ UserCloses
EmuGoesOn ==
    \/ EmuLocks \/ EmuOwns \/ EmuNotifies \/ AttachPlugins \/ AttachFails
    \/ ExecuteFails \/ AnnounceFailed \/ CoreStarts \/ AnnounceRunning \/ CoreBoots
    \/ EmuPauses \/ AnnouncePause \/ CoreStops \/ EmuStops \/ EmuLeaves \/ AnnounceJoinable

Next == GuiBegins \/ GuiGoesOn \/ User \/ EmuGoesOn

SafeSpec == Init /\ [][Next]_vars

\* Both threads run; the user need not do anything. JOINABLE reaches the GUI
\* through Qt's event queue, where no later click overtakes it.
Spec == SafeSpec /\ WF_vars(GuiGoesOn) /\ WF_vars(EmuGoesOn) /\ SF_vars(OnJoinable)

-----------------------------------------------------------------------------
EmuStates == {"none", "lock", "own", "notify", "attach", "execute", "announce_failed",
              "announce", "boot", "run", "pause", "announce_pause", "stopped", "leave",
              "announce_joinable", "ended", "terminated"}

\* The variables keep their types, and a thread holds the mutex exactly while
\* it is in the code between a lock and its unlock.
TypeOK ==
    /\ exists \in BOOLEAN /\ rom_loaded \in BOOLEAN
    /\ closing \in BOOLEAN /\ owns \in BOOLEAN /\ joinable \in BOOLEAN
    /\ state \in {"Stopped", "Stopping", "Starting", "Running", "Paused", "Joinable"}
    /\ mutex \in {"free", "gui", "emu"}
    /\ gui \in {"idle", "start", "spawn", "wait", "stop", "command", "mark", "await",
                "join", "get", "unload", "terminated"}
    /\ emu \in EmuStates
    /\ core \in [paused : BOOLEAN, stop : BOOLEAN]
    /\ pauses \in 0 .. MaxPauses
    /\ notified \in Seq({"RUNNING", "PAUSED", "JOINABLE"})
    /\ gui # "terminated" => (mutex = "gui" <=> gui \in {"command", "mark", "get"})
    /\ gui # "terminated" =>
        (mutex = "emu" <=> emu \in {"own", "notify", "attach", "execute", "leave"})

\* The assertions of load_rom(), stop(), join(), unload_rom() and of the
\* emulation thread hold: stop() cannot be entered between Starting and
\* Running, the GUI joins only what is over. If there never was a thread
\* stop() does find Starting.
AssertionsHold ==
    /\ gui = "idle" /\ state = "Stopped" => ~rom_loaded
    /\ gui = "command" => state \in {"Running", "Paused"} \/ emu = "none"
    /\ gui = "join" => state \in {"Stopped", "Joinable"}
    /\ gui = "unload" => state = "Stopped" /\ (rom_loaded \/ closing)
    /\ emu = "leave" => state = "Joinable"

\* state() never finds a state it has no answer for: whenever the GUI could
\* get the mutex for it, starting and stopping are over.
StateHasAnswer ==
    gui = "idle" /\ mutex = "free" => state \in {"Running", "Joinable", "Paused", "Stopped"}

\* The emulation thread never outlives the object and the ROM it runs on.
NothingFreedUnderTheThread ==
    emu \notin {"none", "ended", "terminated"} => exists /\ rom_loaded

\* A run tells the callback RUNNING first, even if it fails at once, and
\* JOINABLE once, last, whichever threads call it: MainWindow starts hooking
\* at the one and joins at the other.
RunsAnnounced ==
    /\ notified # << >> => Head(notified) = "RUNNING"
    /\ \A i \in 1 .. Len(notified) :
          notified[i] = "JOINABLE" <=> emu = "ended" /\ i = Len(notified)

\* Once the emulator is joinable nothing but join() changes state_: a stop or
\* a pause that was on its way does not hide that the core is through.
JoinableIsFinal == [][state = "Joinable" => state' \in {"Joinable", "Stopped"}]_vars

\* stop() returns, however the core, the user and the thread are placed: no
\* STOP command is lost for good, nobody waits for the other's mutex.
StopIsOver ==
    gui \in {"stop", "command", "mark", "await"} /\ emu # "none"
        ~> gui \notin {"stop", "command", "mark", "await"}

\* A run that is over is joined, by the GUI or the destructor.
EndedRunsAreJoined == state = "Joinable" ~> state = "Stopped" \/ gui = "terminated"

\* start() is still there when the emulation thread notifies it: "Never use
\* it again after that!". The code releases cv_mutex before it notifies.
CvOutlivesNotify == emu = "notify" => gui = "wait"
=============================================================================
