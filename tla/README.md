# FujiNet Go Apple II: verification development

TLA+ models, TLC runs and TLAPS proofs of the program in this repository: a desktop
Apple II (AppleWin behind a libretro host) with a FujiNet running in the same process
or attached from outside, and four frontends (GNOME, KDE, Windows, macOS) over one C core.

Paths below are relative to the repository. Every definition that stands for code is
listed with its lines in `PROJECT.json` ("map"); hazards, findings and mutants are there too.

## 1. The system

### Components

| component | where | state | operations | who runs it |
|---|---|---|---|---|
| session | `core/src/session.c` | `running`, `emu_thread_started`, `stop_flag`, `core_started`, `reset_request`, `link_reboot`, options | `start`, `stop`, `reset`, `free` under `lifecycle_mtx` | any frontend thread |
| emulator thread | `core/src/session.c:283-441` | the loaded core, the sinks, a schedule | load, apply resets, run a frame, pace, exit | one thread per start |
| frame store | `core/src/session.c:202-277` | last frame, serial, one callback | store, copy if newer, set callback | emulator thread, views |
| libretro host | `core/applewin/apple2_host.cpp` | sinks, audio ring, buttons, core variables, device count | core start/stop/frame, fill audio, inject key | emulator thread, audio, UI, gamepad |
| FujiNet loader | `core/src/fujinet_runtime.c` | library handle and entry points, `fujinet_running` | `fujinet_start`, `fujinet_stop`, mix audio | under `lifecycle_mtx`; audio callback |
| FujiNet runtime | `tools/fujinet/support/fujinet_desktop_entry.cpp` | `g_running`, the runtime thread, setup result, speech queue, log capture | start, stop (5 s, then detach), submit and read speech | host, runtime thread, audio thread |
| debugger | `core/debugger/debugger.c` | `dbg_engaged`, `paused`, `want_pause`, steps, run-to, breakpoints | pause, resume, steps, run to, breakpoints; the instruction loop | UI thread, emulator thread |
| packet trace | `core/debugger/sptrace.c` | ring, held request, last exchange, outstanding requests, counters | feed, copy, clear | emulator thread, SmartPort Listener, UI |
| settings | `core/src/settings.c` | key/value list, dirty flag, the file | get, set, flush | any |
| paths | `core/src/paths.c` | directories; the runtime tree on disk | provision on first FujiNet start | start |
| audio, gamepad | `core/src/audio_sdl.c`, `gamepad_sdl.c` | SDL stream; pads, selection, last reading | start, stop, callback, poll | SDL and gamepad threads |
| pure parts | `input_map.c`, `m6502dasm.c`, `a2video.c`, `parse_hostport` | none | functions | any |
| frontends | `frontends/*` | view's serial, pools, queued delivery, render thread | pull frames, report vsync, forward input | UI and render threads |
| build and packaging | `tools/*.sh`, `tools/*/*.py`, `cmake`, `build-aux`, `data` | none at run time | staging, patching, icons | the build |

### How they interact

A frontend calls the session; `start` creates the emulator thread, waits for it to report,
then starts FujiNet (whose setup blocks until the machine's SmartPort listener accepts it),
then the SDL backends. The emulator thread reaches the session through two sinks in the
host (frames, SmartPort packets); FujiNet reaches the machine over a SLIP socket; SDL's
audio callback pulls the emulator's samples and FujiNet's speech. The debugger takes over
the emulator thread's frames while `dbg_engaged`. Most flags are `volatile` and written
without a mutex; `lifecycle_mtx` orders only the four lifecycle calls.

### What is hard

Partial failure of a start; the join and wait order of a stop; unlocked flags read and
cleared in separate steps; a timed-out stop that leaves a thread behind; a runtime that ends
by itself; one-utterance speech back-pressure through a thread that may be gone; ring and
fold bookkeeping under reused sequence numbers; frames delivered through queued events;
settings and provisioning across a crash, and across errors of the disk nobody looks at. `PROJECT.json` "hazards" lists each with its line
and the properties aimed at it.

### What makes each part correct

* session: between calls it is wholly up or wholly down; FujiNet is entered only on a
  running machine; one emulator thread; nothing reaches a freed session; every call returns;
  FujiNet, once up, is found by a boot scan.
* debugger: a set breakpoint is armed; a sleeping machine stands where the last stop was
  reported; a paused machine is not run; requests and stops take effect; a frame ends.
* FujiNet runtime: `g_running` is true to a thread; no thread handle is assigned over or
  lost; a stop returns (not always: section 3); speech goes on while it is played.
* packet trace: the folded ring is a faithful log; a window that skips a redraw is current.
* frames: the newest picture is shown at last on a visible view, whatever is queued, hidden,
  lost or restarted; the session's callback is the active view's; a picture lent to the
  toolkit is not written over.
* gamepads: the machine has the paddles and buttons last read of the pad that drives.
* pacing: the emulator thread always gets back to running frames, whatever ticks do, and
  never runs ahead of time to make up for what it missed.
* debugger windows: the window ends up showing the stop the machine is at; its marks are the
  engine's breakpoints; closed without breakpoints, it leaves the debugger disengaged (that
  the machine goes on does not hold: section 3).
* settings and preferences: the file is the last save that ended, unless an error was
  ignored; no change is left waiting for a restart; a saved address is one the machine can
  start with.
* keyboard: a key the machine holds is a key the user holds.
* not modelled: the audio ring at its cap; provisioning completes.

## 2. The modules

| module | models | kind |
|---|---|---|
| `Session` | `session.c` lifecycle and emulator loop, `fujinet_runtime.c` under it | detailed specification |
| `DebugEngine` | `debugger.c` run control and its loop in the emulator thread | detailed specification |
| `FujiRuntime` | `fujinet_desktop_entry.cpp` and its caller | detailed specification |
| `PacketLog` | what `apple2debug.h` promises of the trace | abstract specification |
| `SpTrace` | `sptrace.c` and a polling window; implements `PacketLog` | detailed specification |
| `FrameStore` | the frame half of `session.c`: the last frame, its serial, the callback | detailed specification |
| `FrameViews` | the displays of the four frontends over `FrameStore` | composition |
| `Gamepad` | `gamepad_sdl.c`, the host's input state, start and stop around them | detailed specification |
| `DebuggerWindow` | the four debugger windows over `DebugEngine` | composition |
| `FramePacing` | vsync ticks, the schedule and the waits, over `DebugEngine`'s frames | composition |
| `Settings` | `settings.c`: the list, the dirty flag, the steps of replacing the file | component |
| `Preferences` | the four preference dialogs and the options of a start over `Settings` | composition |
| `Keyboard` | `input_map.c`, each frontend's key events, focus, the session | detailed specification |
| `SessionProofs`, `DebugProofs` (of `DebugEngine`, `DebuggerWindow`, `FramePacing`), `FujiRuntimeProofs`, `SpTraceProofs`, `FrameViewsProofs`, `GamepadProofs`, `PreferencesProofs`, `KeyboardProofs` | theorems about the module of that name | TLAPS |
| `MC...` | instances for TLC: model values, symmetry, views | |

### Session

Callers (`pc`, `op`) stand for frontend threads. A step is the code between two points at
which another thread can tell the difference: taking the mutex, the bounded wait for the
core (`StartUp`, `StartDown`), a join (`StartReap`, `StopJoin`), a blocking call into
FujiNet (`FujiLoad` to `FujiSetupDone`). The 15 s wait may end at any time (`StartDown`
needs only `core_started # 1`). `emu` is the emulator thread's position, one action per
stretch: the latch is read (`EmuTop`), cleared (`EmuClear`) and applied (`EmuApply`) in
separate steps, as the code does, and the external link's request is written in a step
after the test (`EmuLink`, `EmuLatch`). `found` says if the machine's last slot scan saw a
FujiNet: it is what the cold boot is for. `lib` joins `g_handle` and `g_start`: an
"unusable" library is mapped but has no entry points. External: AppleWin's load may hang
(`CoreWedges`), and an external FujiNet comes and goes (`LinkChanges`). Frame pacing and the
60 s link deadline are a choice, since frames are not timed here.

### DebugEngine

One UI thread (the debugger window) and the emulator thread. A call is two steps because
the code applies `engage` outside the mutex; so is the emulator thread's taking of a pause.
The 6502 is a PC, an SP and the kind of the next instruction, with instructions chosen freely
(`Instruction` is external); `told` records the PC of the last stop reported. `Start` resets
none of the debugger's flags, because the code does not. A breakpoint call names an address
(`SetAt`, `ClearAt`), so that the window can make it. `BreakpointHit` is one step up to the
report, although the mutex is given up after the look-up (`debugger.c:203-210`): `paused` is
set outside it, as in `TakePause`, which is split.

### DebuggerWindow

`EXTENDS DebugEngine`, and makes its calls from the UI thread. `act` is what a handler has
left to do after the engine's call returns. A stop takes three steps to the window:
`EmuReports` copies the callback under the debugger's mutex, a trampoline calls it after the
unlock (`call`), the UI thread handles the posted event (`mail`). The window may close or
open again between any two. What a window draws is the PC it was drawn at, so `shown` says
how old each part of it is. GNOME, KDE and Windows destroy a closed window, macOS hides and
keeps it, callback included. A new window is not taken for a dead one (their numbers
differ). What KDE and Windows read of a freed window is taken to lose the event. The status line of
a window opened onto a machine already stopped says Running until the next stop.

### FramePacing

`EXTENDS DebugEngine`: `FrameStarts`, `FrameGoesOn` and `FrameDone` are its emulator steps,
and between frames the thread is paced. Time passes in `Clock` and is relative to now
(`next` is `next_us - now`, `age` is `now - vs_ns`), in units of which a frame takes `Frame`;
`seen` says if the newest tick was already waited for. `lead` is a history variable: machine
time run since the last tick less the time that passed. It restarts at each tick, so that
ticks more frequent than frames are not counted as running ahead, and at each start, which
forgets the ticks.

### Settings and Preferences

`Settings` is the store: a set saves at once, in the file operations' own steps
(`FlushOpens` to `FlushRenames`), any of which may be the last of the process and any of which
the disk may fail. The code notices only that the temporary file does not open
(`FlushFails`): after a write that is cut short, a removal or a rename that fails, it goes on
and calls the list clean, and `unnoticed` remembers that until a save meets no error or the
program starts again, from what it finds. What is read of a file that was cut is any part of
the list, with one line at most read as another value (`Cuts`). `before` is the list last put
in the file's place. A power failure that loses what was written and renamed is not
modelled. `Preferences` is the frontends' handlers over it. A
handler is a list of settings to set (`todo`) and what it does then (`owed`: follow the
display, restart the session), so the process may die between two of its saves (`torn`).
The core's options are one, `slot7`, the only one whose default is not the first of its menu; an
address is its parts. GNOME and macOS save as fields change, KDE and Windows when the dialog
is done. With no value for an option GNOME's and KDE's rows show the default, Windows' menu
the first entry (`RowShows`). `Hops` lets a launch be of another frontend over the same file.

### Keyboard

`down` are the keys that are down, `held` those the core was told of. A frontend's keysym of a
key depends on the modifiers at the moment (`Keysym`), so press and release may be of
different keysyms; `key_from_event` undoes that for most. Only Windows hears that it loses the
focus (`KillFocus`); macOS only of the focus going to another view of the window. GNOME
forwards auto-repeat, the others drop it.

### FujiRuntime

The host's calls come one at a time (`lifecycle_mtx`). `handle` is `g_runtime_thread` when
joinable, `taken` the handle a stop or failed start moved out to join, `detached` the
threads a stop gave up on. A speech utterance is its number of samples left; only one is
queued, and a second submitter waits (`submit`). `Read` is SDL's callback, gated by
`fujinet_running` as in `fujinet_mix_audio`. A start may fail for want of a thread
(`StartNoThread`), or in FujiNet's setup (`SetupFails`). `fujinet_running` is cleared before a
stop begins, so nobody plays while it waits. A stop that timed out leaves its thread to go on,
and what it does later, to `g_running` and to the shutdown request, is what the next lives
of the runtime meet; `Disowned` is the state in which a stop then hangs. A start assigns to `g_runtime_thread`
whatever it holds; `NeverTerminated` says it then holds no joinable thread, since the C++
runtime would end the process.

### SpTrace and PacketLog

Every call is one hold of the trace's mutex, hence one action. A packet is its bytes past
the sequence number. `device` is the request a reply was matched to; `pend` the outstanding
request of each sequence number (`Nothing` if none, or too short to name a unit). `Poll` is a
debugger window's refresh, which redraws only if count or newest serial changed.
`PacketLog` knows only the packets since the last clear and how many came; the mapping
expands each folded exchange and appends the held request, and counts requests, replies
and timeouts together.

### FrameStore and FrameViews

`FrameStore` is the session as a view sees it: one call of the emulator thread's
`on_core_frame` is `Store`, then `Notify` (the callback is read and called under
`frame_cb_mtx`, which keeps a view from changing it during the call), then `CallReturns`. A
start resets the serial, a view keeps its own. A picture is a number that never comes twice,
so that a view's picture can be told from the newest.

`FrameViews` takes a frontend at its start and has that frontend's actions only. KDE:
`FrameFeed` posts one queued event per burst, the GPU widget may fail and give way to
`SoftDisplayWidget`, whose hide and destructor come late. GNOME: a tick pulls into a pooled
buffer, lent to GSK until it drops it, in any order and after the widget is gone. Windows:
a render thread pulls and presents, loses its device (`MaxLosses`), falls back to GDI.
macOS: the display link queues a pull on the main thread; the process exits without a free.
The toolkit's own moves (hide, show, repaint, event order) are choices. Two assumptions
are not the repository's: Windows' thread ends within the 3 s that destroy waits, and Qt
closes the windows before it quits. The macOS process exits without freeing the session.

`PictureArrives` excepts a picture that `copy_frame` passes over because the restarted
serial happens to equal the one the view has kept (`Passed`).

### Gamepad

The pads open are a list of ids; `InOrder` takes a set of places or of ids in order. SDL may
fail to open any pad that it lists, which is tried again at the next enumeration. One step
of the polling thread is one hold of its mutex (`Sync`, `Poll`) or one call into
the session (`Push`), since the pushes are made outside the lock. What the player does is
read at `Poll`: any position and any buttons, or idle for a pad unplugged since the last
enumeration. `clean` is a history variable: this session began with every button released
and nobody changed the selection. Outside of it a button may stay down that nobody holds,
because `gamepad_assign` forgets what was pushed, and because a push that falls between
`core_stop`'s clearing and `running = 0` survives into the next session. `PadDrives` sees
neither, nor that unplugging the last pad releases nothing, since it compares the machine
with the last reading. `AssignedPadDrives`
is stated but not claimed: a pad removed from before the assigned one shifts the choice.

## 3. The runs

| run | asks | bounds | result |
|---|---|---|---|
| `session` | safety of every lifecycle order | 2 callers, all calls, all settings, both libraries, core may hang | holds, 1.3 M states |
| `session_live` | do calls return, does FujiNet get found | 1 caller; no warm resets; the core does not hang; a card | holds |
| `debug` | safety of run control | 2 addresses, 1 breakpoint slot, 1 nested call, all calls and instructions | holds, 2.7 M states |
| `debugger_window` | does the window show the stop, the breakpoints, and disengage the debugger when it closes | every frontend; 2 windows, 2 addresses, 1 breakpoint slot, 1 event waiting | holds, 2.4 M states |
| `pacing` | does the thread hang or catch up; do stop, pause and step end | a frame of 2, time-out of 3, ticks fresh for 4; the calls that touch no breakpoint, sessions stopped and started | holds, 0.36 M states |
| `fuji` | safety of the runtime's thread; do stop and speech go on | 3 lives, 2 samples, reboots, time-outs | holds, 0.1 M states |
| `trace` | is the trace a faithful log | ring of 2, 6 ring changes, 2 sequence numbers, a packet that folds and one that cannot | holds |
| `display` | does the newest picture arrive, whose is the callback, is a lent buffer safe | every frontend; 3 pictures, 2 lives, pool of 1 and 3 buffers, 2 queued events, 2 device losses | holds |
| `gamepad` | has the machine what the driving pad reads | 3 pads of which 2 fit, 2 stick positions, 2 lives | holds, 1.9 M states |
| `settings` | do settings survive, take effect, and leave a machine that starts | every frontend by itself; 3 addresses, an old option, a disk that fails once, noticed or not, a death anywhere | holds, 12.3 M states |
| `keyboard` | is a key left held | every frontend; 4 Apple keys, 3 others; focus kept while a key is down (not on Windows) | holds, 22 200 states |
| `step_over` | does step over return from the call | | refuted: `debugger.c:163` |

Why the bounds are enough. Two callers give every contention on one mutex. The debugger's
table is full with one breakpoint, an exchange and a call nest with the stack given. Three
runtime lives allow a detached thread, a second, and a start after it. A ring of two makes
every push drop something once an exchange is in it, including half of a folded one; six
changes reach a threefold repeat and a clear followed by as many packets as before.

Three pictures let one arrive while another is queued and a third be the last; a pool of one
with three buffers is full while two are lent. Two pads of three fill the table, and the
third id is a pad plugged in again.

Two windows (`MaxWindows`) let a callback or an event of the first arrive with the second;
`MaxMail` keeps the user from pressing on while an event waits, not the machine from
reporting. `FramePacing`'s times keep the order of the real ones (16.7, 40 and 100 ms), and
a schedule `Late` or more behind is just late. A disk that fails once (`MaxFailures`)
leaves the list dirty for the next save, for the exit or for a crash, or the file cut, old
or missing with nothing left to save; the theorem is for any number of failures. The three
addresses are none, one that parses and one that does not. Each key of `Keyboard` stands for
those the map treats alike.

### Statements that do not hold

Stated in the modules, refuted by TLC with the named choice, and not part of a run (put
in place of the properties in the module's cfg, each gives a counterexample):

| statement | module | what refutes it |
|---|---|---|
| `OneRuntimeThread` | `FujiRuntime` | a second stop after a timed-out one clears `g_running`, `fujinet_desktop_entry.cpp:734` |
| `StopNeverHangs` | `FujiRuntime` | `g_running` cleared by that stop, or by the detached thread's end, while another thread serves: the wait of 5 s ends at once and the join has no bound, `fujinet_desktop_entry.cpp:727` |
| `LatchedResetApplied` | `Session` | the latch is read and cleared in two steps, `session.c:370` |
| `CallsReturn` with `CoreMayWedge` | `Session` | the bounded wait at `session.c:636` is followed by an unbounded join |
| `UnusableLibraryNotCalled` | `Session` | `g_handle` is kept without entry points, `fujinet_runtime.c:47` |
| `NotStranded` | `DebuggerWindow` | a pause taken while the window closes, `debugger.c:134` |
| `DeadWindowNotRead` | `DebuggerWindow` | KDE's and Windows' callbacks read a window that may have closed |
| `AssignedPadDrives` with `MaxPads = 3` | `Gamepad` | a pad removed from before the assigned one |
| `FileIsLastSave` | `Preferences` | errors of writing, removing and renaming are ignored and the list marked clean, `settings.c:132-141` |
| `ExternalAddressParses` with `Hops` | `Preferences` | KDE saves any address while the switch is off, GNOME's and macOS's switch does not look |
| `WebUiIsServed` | `Preferences` | an external start blanks `webui_url`, no later one restores it, `session.c:568` |
| `MenuShowsTheMachine` | `Preferences` | the first entry of slot 7 is not its default, `windows/main.c:237` |
| `NoKeyStuck` with `Strays` | `Keyboard` | only Windows hears of a lost focus |
| `NoKeyStuck` with `Chords` | `Keyboard` | one flag for two Options, `DisplayView.m:288` |

`SettingsSurvive` excepts Windows between the removal of the old file and the rename: a crash
there loses every setting. It also excepts the time after an error the flush ignores: the
file may be cut, old or (on Windows) missing with nothing marked to be saved, until the next
save without an error; what it shows is that nothing else costs a save, and that such a save
makes good whatever files the last one left. A program that starts in between takes what it
finds for what was saved. `ExternalAddressParses` excepts a process that ended between the two
saves of one handler, or after such an error.

`StopReturns` of `FujiRuntime` excepts a stop that has taken a thread which serves while
`g_running` is clear, and nothing else: stops that timed out before, and threads they left
behind, do not excuse a stop that hangs. `SubmitReturns` speaks of a thread that alone
speaks; beside one that a timed-out stop left, it may always be second.

`CHECK_DEADLOCK FALSE` is given where the system may stop: a freed session, a used-up
thread supply, a stopped session that takes no more calls.

### Fairness

`session_live`: a caller inside the session and the emulator thread take their next step;
nobody need call, nothing need fail, and `g_start` returns only once FujiNet attached.
`pacing`: time passes, the emulator thread is scheduled and a call already made goes on; no
tick need come. `park` is a timed wait, so weak fairness is what the code gives. `fuji`: the
host's call, the runtime threads and SDL's callback go on; FujiNet need not speak, reboot or
be stopped. `display`: the callback returns, queued events are delivered, ticks come while a
view is visible, requested repaints happen and the render loops run; nobody need hide, lose
or restart anything. The other runs check safety only.

Warm resets are left out of `session_live` because a warm reset overwrites a latched cold
boot, which `FujiNetIsFound` depends on; breakpoint calls are left out of `pacing` because
clearing the last one disengages the debugger before a wanted pause is taken.

## 4. What is proved

Each theorem holds for every value of the constants that the module's own assumption
allows; `PROJECT.json` "theorems" lists them. The argument is the same everywhere: one
inductive invariant, of named parts, with `Init` and every action shown to keep it. TLC
checked each of these invariants on the module's run before it was proved. The property
itself is hardly ever inductive, and what had to be added is said below.

| module | theorems | assumed |
|---|---|---|
| `SessionProofs` | `TypeCorrect`, `Settled`, `MachineFirst`, `StartedOnce`, `FreedIsUnreachable`, `ThreadsAreJoined` (action property) | `SessionAssumption` |
| `DebugProofs` | `TypeCorrect`, `Armed`, `Reported`, `PausedStays` (action property); `EngineUnderWindow`, `ShowsTheStop`, `MarksAgree`, `LetsGo`; `EngineUnderPacing`, `DoesNotCatchUp` | `DebugAssumption`, `WindowAssumption`, `PacingAssumption` |
| `FujiRuntimeProofs` | `TypeCorrect`, `Backed`, `AssignsOverNothing`, `NothingLeft` | `RuntimeAssumption` |
| `SpTraceProofs` | `FoldsRight`, `NamesItsUnit`, `ShowsTheRing` | `TraceAssumption` |
| `FrameViewsProofs` | `TypeCorrect`, `CallsTheActiveView`, `LentIsSafe` | `StoreAssumption`, `ViewsAssumption` |
| `GamepadProofs` | `TypeCorrect`, `Drives` | `GamepadAssumption` |
| `PreferencesProofs` | `FileSurvives`, `Applied`, `AddressParses` | `PreferencesAssumption`, `StoreAssumption`, `FilesAssumption` |
| `KeyboardProofs` | `KeysLifted` | `KeyboardAssumption` |

* `SessionInv`: the holder of `lifecycle_mtx` is the caller inside (`HolderInv`); each step
  belongs to its call, and `free` is alone (`OpInv`); core and sinks follow the emulator
  thread (`EmuInv`); and what holds at each step of the caller inside (`StageInv`).
  `SettledWhenFree` alone says nothing while the mutex is held.
* `DebugInv`: a call sets `bp` in one step and `dbg_engaged` in a later one, so what is armed
  is what will be engaged once the call is over (`EngagedAfter`, `ArmedInv`); a stop is seen
  through (`StopInv`); where the emulator thread may be while it sleeps, and that it told its
  PC (`SleepInv`); that a paused machine at a frame's head stays engaged (`PauseInv`).
* `WinInv`, over the engine. The engine's steps under a window are its own
  (`EngineUnderWindow`: `WinSpec => Spec`), so its theorems hold there. For what a window
  shows, one has to follow the *last word* on its way, in the callback copied or in the
  event queue: to a live window nothing for a dead one comes behind it (`OrderInv`), it names
  the PC the machine sleeps at (`LastInv`), and with no word on its way the window shows that
  PC already (`ShownInv`). `LetGoInv` says what a window that closed still owes.
* `PaceInv`: the lead is a frame more than the schedule is ahead, by the clock
  (`ScheduleInv`), and while ticks are fresh one frame, or two if that tick was seen
  (`TicksInv`); a wait that times out has lasted long enough to make up for the second
  (`WaitInv`, which needs `Frame < TimeOut`). Each way of pacing leaves what the other one
  needs, which is why switching between them never adds up.
* `FujiInv`: which call of the host holds which thread (`HandleInv`, `TakenInv`), and that
  every thread that lives is held by one or was let go by a stop that timed out (`LiveInv`).
* `TraceInv`: the code folds into the ring's last two entries because `pair_valid` is set and
  never compares them again. So the invariant says the ring ends with the exchange kept
  aside (`PairInv`), that a request at the end is the newest one and its unit is the one
  outstanding for its number (`NewestInv`), that serials rise and fold pairs are together
  (`SerialInv`), and what a window's mark says of the ring it drew (`WindowInv`).
* `ViewsInv`: whom the emulator thread may call, for the four frontends, through widgets
  hidden and deleted late (`CallInv`, `QueueInv`), and that the pool's reference count is the
  number of buffers lent and one for the widget (`PoolInv`), hence that a buffer is taken
  only when nobody has it. It needs the library's facts on finite sets.
* `PadInv`: the machine has the last reading but for what is still to be pushed (`DrivenInv`),
  the polling thread and the machine live as the session's calls order (`OrderInv`), and
  before a clean session's first reading nothing is held (`FreshInv`). `ListInv` is the list of
  open pads: what `sync_devices` keeps and opens are both sets of numbers taken in order, and
  such a list names each of its members once (`InOrderIs`, by counting), so the list fits the
  table and no pad is open twice.
* `PrefsInv`: a handler decides what it restarts before its first set, so the running machine
  is compared with what is due, the settings once all of `todo` is set (`Due`), never with
  what is saved so far. `FileInv` relates the file, the temporary file and `before` at each
  step of a save. After an ignored error it claims nothing of the file but that it
  is missing, cut or a list of values that keys may hold, which is what lets the next whole
  save establish the rest. `CutIsAList` says that of any cut. `StoreAssumption` and
  `FilesAssumption` say only that no list of settings is the value the model uses for no file
  or half a file, and that these two differ. `AddressParses` is for one frontend over the file
  (`Hops = FALSE`): with several it is refuted (section 3).
* `KeyInv`: away from the window nothing is held that a release would have to lift
  (`AwayInv`), and macOS's two flags cover the Apple keys held (`ViewInv`). `KeysLifted` holds
  where the frontend hears of all it needs (`HearsAll`): on Windows always, on GNOME and KDE
  without `Strays`, on macOS without `Strays` and `Chords`; with them it is refuted
  (section 3).

### Out of the prover's reach

Liveness under fairness and `ENABLED` are only model-checked (`CallsReturn`, `FujiNetIsFound`,
`FramesGoOn`, `StopReturns`, `PauseTakesEffect`, `StepIsDone`, `PictureArrives` and those of
`fuji`), and so is what needs induction over data: `KeepsItsPromise`, whose mapping flattens
the ring. Every invariant of the passing runs is stated by a theorem, `NoKeyStuck` and
`ExternalAddressParses` under the hypotheses named above.

## 5. What is not modelled

* Text, drawing, layout and widgets; menus' own event loops on Windows; the web view and the
  log window; the disassembler and the video renderer, pure functions into text and pixels.
* AppleWin, SDL and FujiNet's firmware except as the code uses them; register and memory
  access by the debugger (reads of a running machine's memory, without a lock).
* The runtime's log capture, the emulator's audio ring, and the first-run copy of the runtime
  tree (`paths.c:358` copies the marker file first, so a crash leaves a tree never completed).
* A reopened macOS debugger window is shown as it was left until something refreshes it:
  modelled, but no property speaks of the time before.
* Ticks that are irregular over and over: `NeverCatchesUp` bounds what is run since the last
  tick, not the sum over many.

## 6. Plan

1. `AudioRing` (dropping its oldest samples at its cap) and its composition with the speech
   queue.
2. `Provision` (a crash during the first-run copy) and `LogCapture` (descriptors across starts
   and stops that fail half way).
3. Pure functions against reference definitions: address parsing, instruction lengths,
   picture geometry.
4. Proofs: the refinement `KeepsItsPromise`, as far as its mapping can be put without
   induction over the ring; step lemmas for the liveness properties (what a thread waits for).
