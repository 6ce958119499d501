# Net64 in TLA+

Models of Net64 (online co-op for Super Mario 64), the TLC runs that check them
and the proofs TLAPS checks. Paths are those of the repository (`src/net64/...`);
operators carry the names of the code they model, and `PROJECT.json` maps every
one to its lines.

## The system

| part | state it keeps | operations | who it talks to |
|---|---|---|---|
| Id allocator `src/common/id_manager.hpp` | highest id, stack of returned ids | acquire, return, move and destroy a handle | owned by the server (peer ids) and PlayerManager (player ids) |
| Server `src/net64/server.cpp` | players by peer id, `accept_new_`, `max_peers_`, `ENetPeer::data` of each peer | CONNECT, DISCONNECT, RECEIVE in `tick()`; stop, destroy | ENet; its components; MainWindow |
| PlayerManager, ChatServer, Player `src/net64/server/` | player ids; id, name and peer of each player | handshake, notice of leaving, chat relay | called by the server for each event |
| Client `src/net64/client.cpp` | ENet peer and timeouts, user name, local player, remote players, callbacks; hook and queues | connect, disconnect, hook, unhook, `tick()`, chat | ENet; game through the queues; MainWindow through callbacks |
| LocalPlayerManager, PlayerListManager, ChatClient `src/net64/client/` | none of their own (they change the client's) | handlers of the server's messages | called by the client |
| Message queue `src/net64/client/msg_queue.*` | ring of slots and two indices in N64 memory | `send`, `poll` | the game, on the emulation thread, without a lock |
| Emulator `src/net64/emulator/m64plus.*` | `state_`, `mutex_`, thread, ROM, plugins | load, start, stop, join, memory access, settings | MainWindow (GUI thread), mupen64plus-core (its own thread) |
| Emulator memory `m64plus.cpp`, memory handles `src/net64/memory/` | the N64's RAM, words in the host's byte order | `read`, `write` of every type, `read_memory`, `write_memory` by N64 address | the running game, on the emulation thread, without a lock |
| Controller settings `m64plus.cpp`, `src/qt_gui/sdl_bind_button.cpp`, `emulator_controller_configuration.cpp` | the configuration file's texts; what each button shows, which listen; device box, open gamepad | bind, clear, load; select a device; gamepads come and go | SDL through SDL_EventHandler; the settings window |
| MainWindow `src/qt_gui/main_window.cpp` | emulator, client, server; pending lambdas | timer (every 16 ms or so: SDL events, client tick, server tick), buttons, signals of the emulator | all of the above |
| SDL_EventHandler `src/common/sdl_event_handler.cpp` | list of handlers, mutex | register, unregister, dispatch | widgets |
| AppSettings, configuration widgets, patcher | settings; a worker thread | load, save, patch | files |

Client and server of one program run in one thread, from one timer; programs talk
through ENet. A second thread runs the emulator: it shares the N64's memory
with the client's queues and `state_` with the GUI. So there are two kinds of
concurrency, messages between programs and memory between threads, and each has
its own models below. A third, milder one is inside the GUI thread: error dialogs
run event loops, SDL's events come between clicks.

What is hard: joins, leaves and kicks of several players interleaved with one
player's two-step join (CONNECT event, then handshake); peers that time out, are
refused or vanish at each of those steps; ids and ENet peers that are reused; a
server that goes away without a word; two threads on a ring without a lock; values
of several bytes moved one by one while the game stores words; a mutex that two
threads hand to each other across callbacks; gamepads told apart by a name and an
index that both may become another's. `PROJECT.json` lists
each of these hazards at its line with the properties that are aimed at it.

## Modules

| module | models |
|---|---|
| `IdManager` | the allocator as operators on a record; used by `IdHandles` and `Server` |
| `IdHandles` | any number of `IdHandle`s on one manager: construct, move, destroy |
| `MsgFifo` | what `msg_queue.hpp` promises: a bounded FIFO of whole messages |
| `MsgQueue` | `send()` and `poll()`, one action per access to emulated memory |
| `Enet` | external: the ENet hosts as one value and operators on it |
| `Server` | `server.cpp` and its components: one action per ENet event, with all its handlers |
| `Client` | the network half of `client.cpp` and its components |
| `Lobby` | what the server promises its players, abstractly |
| `Session` | clients, server and network together; fairness; the properties |
| `MCSession` | values of `Session`'s constants for TLC |
| `Mupen64Plus` | life of the emulator: GUI thread, emulation thread, mutex |
| `Frontend` | `main_window.cpp` with the client's hook: clicks, signals, ticks, error dialogs |
| `N64Memory` | what `emulator.hpp` promises of memory: bytes in the game's order, moved one at a time |
| `EmuMemory` | `read`, `write`, `read_memory`, `write_memory` over the core's swapped words |
| `Bindings` | `get_bind()`, `set_bind()`: inputs as texts of the configuration file |
| `Controller` | bind buttons and device box over `Bindings`: clicks, keys, gamepad events |
| `MCEmuMemory`, `MCController` | values of the constants of `EmuMemory` and `Controller` for TLC |
| `IdManagerProofs` | lemmas about the operators of `IdManager` |
| `SessionProofs` | lemmas about the operators of `Enet`, `Server` and `Client`, theorems about `Session` |
| `IdProofs`, `MsgQueueProofs`, `EmulatorProofs`, `EmuMemoryProofs`, `FrontendProofs`, `ControllerProofs` | theorems about `IdHandles`, `MsgQueue`, `Mupen64Plus`, `EmuMemory`, `Frontend` and `Controller` |

`Session` composes `Server`, `Client` and `Enet`, `Server` and `IdHandles` use
`IdManager`, `Controller` uses `Bindings`. `MsgQueue` implements `MsgFifo`, `Session`
implements `Lobby`, `EmuMemory` implements `N64Memory`, each with a refinement
mapping in the detailed module.

Definitions marked `[fault]` are wrong versions of the definition that follows
them, used by no action. Each property is shown to notice one of them
(`"mutants"` in `PROJECT.json`).

### How state corresponds

* `Server`: `players` is `players_`, by peer id; a `Player` is a record of id, name
  and peer. `data[p]` is `ENetPeer::data`. `peer_ids` and `player_ids` are the two
  allocators. The id of a `Player` returns to `player_ids` when the entry is erased,
  in the same action, as the destructor of its `IdHandle` does. A handler and all
  messages it sends are one action: nothing else runs in the program's only thread
  meanwhile, and ENet sends later.
* `Client`: `net.client[c]` is `peer_` (`"none"` is null). `remote_players[c]` maps
  ids to names; `Inserted` keeps what is there, as `unordered_map::insert` does.
  `calls[c]` records the callbacks of the connect() in progress and `sessions[c]`
  counts connections of one program run; both are there for the properties only.
  A chat message carries its author's name as its text, so that a reader's
  display can be compared with who wrote it.
* `Enet`: a peer of the server is free, pending (ENet knows it, the server has not
  had its CONNECT event), connected or disconnecting. Facts taken from ENet: the
  CONNECT event of a peer counts it in `connectedPeers` before the program sees it;
  `enet_peer_disconnect` stops both directions at once; a broadcast reaches
  connected peers only; a pending peer that times out vanishes without an event;
  `ENetPeer::data` survives a reset. Timeouts may come at any moment.
* `Mupen64Plus`: `gui` and `emu` are program counters. A `lock()` is a guard on
  `mutex`, and code between a lock and its unlock is split wherever the other thread
  reads `state_` without the lock (the loop of `stop()`, the first line of `join()`).
  The core is external: it forgets a STOP that arrives before its CPU runs
  (`CoreBoots`), which is what the loop in `stop()` works around. The early return
  of `start()` is not an action: MainWindow starts only what is stopped.
* `Frontend`: everything is in one thread, yet interleaved, in two ways.
  `connect_net64()` goes on when RUNNING is announced (`retries` counts the lambdas
  of `connect_once()`, `signals` is what is posted to the GUI thread) and again when
  the game is hooked (`hook`). And `error_popup()` runs an event loop: `popups` is the
  stack of functions that wait for their dialog, and the rest of such a function is
  the action that closes it (`Aborted`, `Halted`, ...). `target` is the address as
  `connect()` reads it. Of the emulator it takes what `RunsAnnounced` in
  `Mupen64Plus` checks; of the connection, the events of `Client`. Three assumptions
  about time, each named at its definition: posted events go before timers
  (`Ticks`); RUNNING is announced within the 5 seconds of a connect timeout
  (`ConnectTimesOut`); what fails to load fails again while its error is shown
  (`StartEmulation`).
* `EmuMemory`: `rdram` is the core's memory as the host sees it, one value per host
  byte. A call of `read()` or `write()` moves one byte per action and every one of
  them checks its address (`Thrown`), as the recursive overloads of the code do;
  `quiet` records whether the game stored into the call's bytes meanwhile, for a
  property only. An `addr_t` wraps (`Wrap`). `N64Bytes` is the refinement mapping: the
  core stores words in the order of a little endian host (`HostByte`, external), and
  `Swap`, the code's `real_addr`, has to undo that. A float is one copy, of which the
  game may still change a part; where its bytes are is taken from the code (`Place`),
  surplus swap included, and `AsTheGameHasIt` compares integers and floats alike with
  the game's order. Block accesses are one action: what they throw is computed as in
  the code, and it always is an error. What `read_memory()` has copied into the
  caller's buffer by then is left out, and so are blocks shorter than a word, of most
  of which it underflows a length, and blocks longer than the RAM (`BlockAssumption`).
* `MsgQueue`: `spc` and `rpc` say before which access of its call a side is. How an
  access to the data of a message may end is a constant for each direction (`ReadRaw`,
  `WriteRaw`): it copies, as `emulator.hpp` promises, or it throws, as `EmuMemory` shows
  of Mupen64Plus. What throws leaves `send()` with the slot unmarked (`SendThrows`), or
  `poll()` and `Client::tick()` with the slot in use, which nothing catches: the program
  ends (`PollThrows`, `rpc = "gone"`). The game's own half moves the data itself.
* `Controller`: `shown` is `input_`, `listening` the buttons with `listening_`,
  `heard` the `joy_id_` all buttons share, `box` the device box with the entry that
  is selected, `pads` SDL's device list, in which a gamepad moves up when one before
  it is pulled out. `file` and `device` are the core's configuration section. A text
  is its type, hat and arguments: what `parse_sdl_input()` does with blank ones is
  kept (`Parse`), characters are not. `IndexChanges` is the signal that filling the
  box sets off; opening a gamepad may fail in it. An event of a gamepad reaches the
  buttons newest handler first (`PadEvent`), a window that opens loads them in the order
  of `N64Button` (`Open`); both name the four directions of the stick and START, which
  stands for every button that has a key of its own. `Entries` says by rank which
  gamepads the box names, `FirstArg` which argument of a text is read.

## Runs

| run | what it asks | bounds | states |
|---|---|---|---|
| `ids` | never an id twice, lost, or "No ids left" too early | 5 handles, 4 ids: exhaustion with a spare handle, stacks of every order | 765 |
| `msgqueue` | FIFO of whole messages, access by access, for as long as the program runs | ring of 3, 2 messages: wraps, fills and empties from every index; data accesses that copy or throw, each time anew | 15 thousand |
| `session` | server and clients agree about ids, names, lists and chat | 2 clients on 2 peers; one connects twice, chats once and may have no name; two versions; server stops, dies, starts again | 2.5 million |
| `session_live` | refinement of `Lobby`; handshakes answered, leavers forgotten, stopped servers emptied | 2 clients, one connection each | 43 thousand |
| `emulator` | assertions of the code, order of notifications, `stop()` and `join()` come to an end | 2 pauses a run; any number of runs | 600 |
| `frontend` | window, emulator, hook and connection stay in step; attempts and runs come to an end | 2 lambdas bound at once (`MaxRetries`): a start that failed and its successor | 4 thousand |
| `memory` | integers are read and written whole and in the game's order; a failed write changes nothing; no block access returns; refinement of `N64Memory` | 8 bytes of RAM at 8, an address space of 18; 2, 4-byte integers and 4-byte floats; blocks of 6; bytes of one bit; 4 words the game stores | 741 thousand |
| `controller` | buttons listen to the configured gamepad, show what is stored, keep what was bound | START and one axis of the stick; 4 gamepads, 2 of one name and one without, 2 plugged in at once; a key, a mouse button, 4 inputs of gamepads | 447 thousand |
| `server_full`, `notify_after_return`, `messages_delivered`, `float_order` | disagreements of code and documentation, see Findings | smallest instance that shows it | |

Why the bounds are enough: ids and peers number as many as can be in use at once,
so both are exhausted and reused; two clients meet in every phase of each other's
join; one client's second connection is enough for anything left over from a
first. `MaxPeers` is one more than the players wanted because of the finding
`server_full`. In `memory` RAM begins where 8 addresses lie before it and ends where
2 lie behind it, so that accesses before, across either end, behind, and across the
end of the address space all occur; the proofs need no such bounds. In `controller`
the constraint `OneInUse` leaves out states in which START and the stick are bound
at the same time: they share nothing but the device. The two gamepads of one name are
symmetric (`Twins`): no action or property knows them apart but by their places.

`CHECK_DEADLOCK FALSE` where a system may really come to rest: all connections
used up, a program ended by `AttachFails` or `PollThrows`.

### Properties

`PeerDataMatchesPlayers`: `Server::player()` never throws and never answers with
another peer's player. `PlayerIdsUnique`: both allocators account exactly for the
ids in use. `RosterConverges`: once a client in its first session has read what it
was sent, its list is the server's, entry 0 aside. It is said of the messages still
queued, player by player: of the names an id has on the list or gets from a message,
those are left out after which a message takes the id off again (`NamesAhead`). `IdentityAgrees`: client and
server agree on the client's id and name, in every session, or will once the client
has read what it was sent. `ChatAttribution`: no
message is shown under another's name; one is dropped only before the reader's own
handshake is answered. `CallbackProtocol`: each `connect()` is answered once and
followed by one disconnect callback. `ImplementsLobby`: the server is a `Lobby`.
`HandshakeAnswered`, `LeaversForgotten`, `StopEmptiesServer`: the liveness of
joining, leaving and stopping. In `MsgQueue`, `SlotExclusive` and `NoHoles` are why
`ImplementsFifo` holds. In `Mupen64Plus`, `JoinableIsFinal` is the race `stop()`
could lose, `StopIsOver` and `EndedRunsAreJoined` that nobody waits for ever. In
`Frontend`, `HookingStarvesNoConnection` is why the early return in `Client::tick()`
does no harm, `PageFollowsConnection` why a click on "Join" never meets the session
before, `HookCallbackStays` that no `std::function` is replaced while it runs, and
`OnlyFailedStartsDisable` which dead ends the window has. `ConnectionsSettle` and
`EndedRunsAreJoined` say that attempts and runs come to an end, dialogs or not.
In `EmuMemory`, `QuietAccessIsWhole` is the byte order of integers,
`FailedWriteChangesNothing` why they are written from their last byte on, and
`ImplementsN64Memory` what is left of both under the game's hands (there, floats lie
reversed, as `FloatsAsTheGameHasThem` finds). `BlocksAlwaysThrow` says that the two calls
for blocks never do their work. In `Controller`, `HeardPadIsConfigured` ties the
buttons, the open gamepad and the configuration together, `NoPadStealsTheBox` says
that gamepads with names of their own never swap places, `ButtonsShowTheFile` and
`WholeBindsAreKept` what the lossy encoding of the stick does not lose.

### Fairness

`Session`: the timer ticks client and server for as long as a program runs, and a
tick handles every event there is; hence weak fairness of answering, reading and
giving up, per peer and client. Nobody has to connect, leave or chat, no connection
has to break, and a peer is given up only once its other end is gone
(`LostByServer`, `LostByClient`). `MsgQueue`: `Client::tick()` polls every tick for as
long as the program runs; the sender need not send. `Mupen64Plus`: both threads run (weak fairness), the user need
do nothing, and JOINABLE, queued as a Qt signal, is not overtaken for ever by
clicks (strong fairness of `OnJoinable`). `Frontend`: threads announce, Qt delivers,
the timer's timeouts run out and somebody closes the dialogs; no game has to start
or end and no connection to come about or break.

## Proofs

All for every value of the constants, under the assumptions their modules name.

* `IdProofs` (any number of handles, any id width): `HandlesInvariant` and from it
  `HandlesTyped`, `LiveIdsUnique`, `IdsBalanced`, `ThrowMeansExhausted`. The
  invariant is the conjunction of the four properties: the account of the stack
  only balances because live handles differ, and they only differ because it
  balances. Two lemmas of `IdManagerProofs`, `AcquireKeepsAccounts` and
  `ReturnKeepsAccounts`, carry the argument for a manager by itself, so that
  `SessionProofs` uses them too.
* `MsgQueueProofs` (any set of messages, sizes 1 to 255, data accesses that copy,
  throw or do either): `QueueInvariant` adds
  to types what each side knows between its accesses: a claimed slot keeps
  its descriptor, a filling slot holds what was written, a slot in use is whole.
  From it `QueueTyped`, `ReceivedIntact`, `SlotsExclusive`. `RingHasNoHoles` is
  proved on top with lemmas about the ring (`SlotAfterHeadInjective`,
  `MarkAppends`, `FreeRemovesHead`), and `QueueImplementsFifo` maps each step to
  one of `MsgFifo` or a stutter.

* `SessionProofs` (any clients, names, versions and number of peers, at most as
  many peers as ids): `SessionInvariant`. Its part about the server, `ServerInv`,
  ties ENet's peer states, `ENetPeer::data`, `players_` and the two id managers
  together, and says that a closed server hears nobody. None of the parts is
  inductive alone: that `player(peer)` finds an entry needs the peer's data to be
  cleared before ENet frees the peer, and that no id is handed out twice needs the
  entries to belong to different peers. Steps of clients and network are covered by
  one lemma, `ServerUnmoved`; that ids never run out while a peer is free is the
  pigeonhole principle (`PeerIdsLeft`, `PlayerIdsLeft`). From it `SessionTyped`,
  `PeersHavePlayers`, `PlayersHaveIds`, and `ServerImplementsLobby`: each step maps
  to a join, a leave, an opening or closing of `Lobby`, or a stutter. The clients' half
  of the invariant is `ClientInv`: `WellLinked` (no two clients talk to one peer, and a
  peer that is freed has nothing left to read) and, for each client, what is queued in
  both directions about its own name and id (`Agrees`). `SameFor` says that a step tells
  a client nothing, which is what nearly every step does to nearly every client; four
  actions (`AdmitPeer`, `AcceptHandshake`, `ConnectEvent`, `Receive`) are the ones that
  do. From it `CallbacksInOrder` and `IdentitiesAgree`.

  The third part, `RosterInv`, is about what clients in their first session are told of
  each other. `Knows`: of any player, a client has heard no name but the right one, on
  its list or in its queue, and if it is a player itself it has heard the names of all;
  the answer to a handshake, S_PlayerList, S_ClientConnected and S_ClientDisconnected
  come from different handlers, and this is what they add up to. `ChatRight`: where a
  chat message stands in the queue, the list will by then have its author's name for
  its sender's id. That needs a fact about the other direction, too: all that is queued
  at one peer was sent under one name (`OneVoice`), so that no chat of one client is
  relayed as another player's, however peers and ids are reused. From it
  `RostersConverge` and `ChatAttributed`.
* `EmulatorProofs` (any number of pauses): `EmulatorInvariant` says for each value of
  `state_` where the two threads can be; the mutex alone does not, as it is released
  while a run starts, stops and ends. From it the safety half of the run:
  `EmulatorTyping`, `EmulatorAssertions`, `EmulatorAnswers`,
  `EmulatorOutlivesThread`, `EmulatorAnnounces`, `EmulatorStaysJoinable`.

* `EmuMemoryProofs` (any RAM, base, address width, types and stores of the game;
  `LayoutAssumption` only asks that RAM lies above its own size and ends within the
  address space): the invariant says that what a call has moved is a prefix of its
  places, that no address it went through wrapped, and, while `quiet`, that each moved
  byte agrees with memory. It rests on lemmas about `Swap`: it stays in its word and in
  the RAM, is its own inverse and is where a little endian host keeps the byte.
  `TypeCorrect`, `FailedWrites`, `QuietAccesses` (integers only), and `MemoryRefines`:
  each step is one of `N64Memory` or a stutter. Two more turn findings into facts:
  `FloatsReversed`, for every float, and `NoBlockReturns`, for every address and every
  block from a word to the size of the RAM, the 14 bytes of the queue among them.
* `FrontendProofs` (any number of waiting lambdas): what could go wrong is that
  `connect_net64()` runs at a moment its parts were not made for, so the invariant says
  who can still call it. The user cannot under a dialog; an event of RUNNING can only be
  left while the run is up (`SignalInv`); a client that is hooking has no peer
  (`ConnectionInv`); and under a dialog whose end changes something nobody is left
  (`PopupInv`: `NobodyConnects`, `RunIsRead`). `StepOpens` says which steps open which
  dialogs, one lemma per part says that it is kept. From it `TypeCorrect`,
  `NoStarvedConnection`, `PageIsRight`, `CallbackOutlivesCall` and `ButtonComesBack`.
* `ControllerProofs` (any gamepads, names, inputs and number of gamepads at once).
  `ControllerAssumption` asks that the buttons are among the five modelled and a
  direction never comes without its opposite, that an input that can be bound is not
  the none, and that no gamepad is called "Keyboard" or "[Disconnected]", which are
  entries of the box. The invariant has two halves. `DevicesInv`: the box holds the
  names of the gamepads plugged in, is at one of its entries, and what is heard is open
  and at the configured index; `ScanKeeps` adds that the gamepad heard after a scan has
  the name configured before, from which `PadKept` follows when names tell gamepads
  apart. `BindsInv`: the file has only texts the program writes and every button an
  input that can be bound (`FileOK`), and a plain button shows what the file has. It
  rests on what a text reads as: `StickRead` and `StickBound` say what binding one
  direction leaves of the other, `OtherKey` that all other buttons keep theirs.
  `WriteBack` is the fact behind `WholeBindsKept`: writing back what was read may
  destroy half a stick, but never a bind whose opposite is bound too, and so neither do
  the writes of all buttons that follow each other in `Open` (`OpenBinds`);
  `HandledKeeps` is the same for one event of a gamepad that binds several buttons.
  `SecondAloneReadsAsFirst` proves of every file what goes wrong with the stick, see
  Findings.
  Also from the invariant: `PageTypeOK`, `HeardPadConfigured`, `ButtonsShow`.

Every invariant, every safety property of steps and every refinement that the passing
runs check is proved. Only model-checked: liveness (the liveness properties of
`session_live`, `emulator` and `frontend`), which needs fairness and ENABLED, and the
counterexamples of the four findings.

## Findings

* `server_full`: the peer limit counts the peer that is asking. "Max players" n
  admits n-1, and 1 admits nobody.
* `notify_after_return`: `start()` may destroy its condition variable before
  the emulation thread notifies it.
* `messages_delivered`: "Messages are sent reliable and in order" is not so on this
  emulator. `poll()` copies the data with `read_raw()`, and `read_memory()` throws
  INVALID_ADDR for every block, as the address it converts is converted again
  (`NoBlockReturns`). The first message the game sends ends the program, its slot still
  in use; the order of messages is right, and all the safety of the queue is as proved.
  `write_memory()` throws as well, but `send()` has no caller yet.
* `float_order`: `read()` and `write()` of a float swap its bytes once too often, so
  that the value is not the one the game has (`FloatsReversed`). Nobody calls them yet.

The stick of the controller has one more, stated as a theorem instead of a run: what is
bound to its second direction (down, right) while the first has no bind reads as the
first one's (`SecondAloneReadsAsFirst`), contrary to "Binds a button to the virtual n64
button" in `emulator.hpp`. Binding the first next overwrites it.

Not given a run of their own. In the session: S_PlayerList contains peers that have
not completed their handshake, under id 0, which stands for the server (why
`RosterConverges` leaves entry 0 aside); a client never clears its list, so that after
a reconnect it lists players that left and keeps old names for reused ids (why it
speaks of first sessions). In the window: the button "Disconnect" looks only at
whether there is an own server, so who clicks "Host", unchecks it while the game boots
and joins another server stops the own server with it and stays in the session. In
memory: a write that begins just before `LOGICAL_BASE` is done in part before it throws;
`read_aligned()` and `write_aligned()` of `MemHandle`, which nobody calls, add `offset % sizeof(T)` where it would have to
round up. In the controller settings: opening the window erases a stick direction
whose opposite is not bound, for the reason of `SecondAloneReadsAsFirst`; clearing one direction
clears both; all buttons that listen take the same gamepad event; of two gamepads of
one name the first is selected, whichever was configured; a gamepad without a name
shifts the index that is stored (`HeardPadIsConfigured` excepts its name), and SDL may
answer a null name, which `std::string` does not take; a key SDL has no code for
leaves the button showing a stale one. In the settings windows:
`update_interface()` returns early without an emulator and leaves the widgets their
handles to the core that is gone, and a failed start (`StartFailed`) does not even tell
them. In the application settings: a file that lacks a key is loaded up to that key.

In the emulator: if `std::async` throws, `state_` stays `Starting`
and the destructor's `stop()` fails its assertion or spins (`SpawnFails`);
`attach_plugins()` is noexcept, so the handler for its failure is dead
(`AttachFails`); `state()` goes on answering PAUSED after the user unpaused
(`main_window.cpp` would not notice). In `Frontend`: an emulator that ends while the
client is still hooking leaves it hooking (`OnJoinable` unhooks only if `hooked()`),
so the next ticks read the memory of an emulator that is stopped or destroyed, and
may start it again (`TryHook`); an incompatible game leaves `hooked()` true, so that
Return in the address field connects all the same (`TryHookFails`); a start that
fails leaves the button disabled and its lambda bound (`StartFailed`). Outside the
models: `m64p_settings_window.cpp:63` emits `core_lib_changed` before the new core is
saved, so a stopped emulator is created again with the old one. `SDL_EventHandler` leaves
`first_handler_s` on a handler that was destroyed and calls handlers under its mutex;
neither can bite yet, as handlers live as long as the program and open no dialog.

## Not modelled

* `SDL_EventHandler`'s registration: the list of handlers does not change while events
  are served. Its order of dispatch is in `Controller`.
* `AppSettings`: loaded once and saved once, with nothing concurrent.
* The dispatch of the game's messages and its log: one message type, no answer.
* Audio and video settings, mode, pak and deadzone of a controller: single values that
  are copied.
* The lifetime of settings handles and of the emulator the settings window points to,
  described under Findings.
* Pointer and MemHandle, which pass every call on; `conversion.hpp` has no caller.
* Patcher, widgets, logging, wording, file system paths, the wrappers of the core's C
  interface, compile-time dispatch.

The vendored libraries under `externals/` (nlohmann/json, spdlog) are four fifths of
the C++ in the repository and no part of what Net64 does; a share of mapped lines
that counts them stays small however much of `src/` is modelled.

Next, if the project goes on: the settings handles' lifetime as a module over
`Frontend`, and a client's later sessions, whose lists the code never clears: what of
`RosterConverges` is left for them.
