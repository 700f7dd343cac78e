--------------------------- MODULE DebuggerWindow ---------------------------
(***************************************************************************)
(* The debugger's window on top of its run control: the four frontends'    *)
(* debugger windows (gnome/debugger/dbg_window.c, kde/debugger/            *)
(* DebuggerWindow.cpp, windows/debugger/dbg_window.c, macos/debugger/      *)
(* DebuggerWindow.m).  The window calls the engine of DebugEngine from the *)
(* UI thread; a stop is reported by a callback on the emulator thread,     *)
(* which copies the callback under d->mtx, calls it after the unlock, and  *)
(* only posts an event to the UI thread.  Everything between the copy and  *)
(* the event's handler can happen with the window closed or reopened.      *)
(*                                                                         *)
(* The machine shown is its PC: registers, listing, memory and video page  *)
(* are the PC they were drawn at.  Windows are numbered as they are made,  *)
(* and a new one is not taken for a dead one.                              *)
(***************************************************************************)
EXTENDS DebugEngine, Sequences

CONSTANTS
  Kits,             (* the frontends checked, a subset of AllKits          *)
  MaxWindows,       (* windows opened in a run                             *)
  MaxMail           (* stop events waiting before the user presses more    *)

AllKits == {"gnome", "kde", "windows", "macos"}

ASSUME WindowAssumption ==
  /\ Kits \subseteq AllKits /\ Kits # {}
  /\ MaxWindows \in Nat \ {0} /\ MaxMail \in Nat \ {0}

VARIABLES
  kit,
  win,              (* "none", "open", or (macOS) "hidden"                 *)
  made,             (* windows made so far: the last one is the live one   *)
  cb,               (* the window the callback is set for, 0 for NULL      *)
  call,             (* the report under way on the emulator thread         *)
  mail,             (* events on their way to the UI thread                *)
  act,              (* what the handler has left to do                     *)
  follow,           (* follow_pc                                           *)
  shown             (* what the window shows                               *)

frameVars == <<kit, win, made>>
wireVars  == <<cb, call, mail>>
viewVars  == <<follow, shown>>
winVars == <<frameVars, wireVars, act, viewVars>>
allVars == <<vars, winVars>>

NoCall == [to |-> 0, pc |-> Nowhere]
Blank  == [button |-> "Pause", status |-> "Running", regs |-> Nowhere,
           disasm |-> [at |-> Nowhere, marks |-> {}], mem |-> Nowhere]
Free   == act = "idle" /\ ui = "idle"

-----------------------------------------------------------------------------
(* Drawing.  The registers and the memory are the machine's of this moment; *)
(* the listing stays where it is unless it is to follow the PC.             *)

RenderRegs == pc
RenderMem  == pc
RenderDisasm(following) ==
  [at |-> IF following THEN pc ELSE shown.disasm.at, marks |-> bp]

RefreshAll(status, following) ==
  /\ shown' = [button |-> IF paused THEN "Continue" ELSE "Pause",
               status |-> status,
               regs   |-> RenderRegs,
               disasm |-> RenderDisasm(following),
               mem    |-> RenderMem]
  /\ follow' = FALSE

-----------------------------------------------------------------------------
(* The user, in an open window. *)

User == Free /\ win = "open" /\ Len(mail) < MaxMail

(* Pause / Continue goes by the machine, not by what the button says.       *)
OnRun ==
  /\ User
  /\ IF paused THEN Resume /\ act' = "ran" ELSE Pause /\ act' = act
  /\ UNCHANGED <<frameVars, wireVars, viewVars>>

Ran ==
  /\ act = "ran" /\ ui = "idle"
  /\ RefreshAll("Running", follow)
  /\ act' = "idle"
  /\ UNCHANGED <<vars, frameVars, wireVars>>

OnStep ==
  /\ User
  /\ RequestStep
  /\ UNCHANGED winVars

(* A click on a row toggles its breakpoint and draws the listing again.     *)
OnRow ==
  /\ User
  /\ \E a \in Addrs : IF a \in bp THEN ClearAt(a) ELSE SetAt(a)
  /\ act' = "toggled"
  /\ UNCHANGED <<frameVars, wireVars, viewVars>>

Toggled_KeepsListing ==
  /\ act = "toggled" /\ ui = "idle"
  /\ act' = "idle"
  /\ UNCHANGED <<vars, frameVars, wireVars, viewVars>>

Toggled ==
  /\ act = "toggled" /\ ui = "idle"
  /\ shown' = [shown EXCEPT !.disasm = RenderDisasm(follow)]
  /\ follow' = FALSE
  /\ act' = "idle"
  /\ UNCHANGED <<vars, frameVars, wireVars>>

(* While the machine runs, Windows and macOS keep the registers live.       *)
WindowsTick ==
  /\ kit = "windows" /\ win = "open"
  /\ Free /\ ~paused
  /\ shown' = [shown EXCEPT !.regs = RenderRegs]
  /\ UNCHANGED <<vars, frameVars, wireVars, act, follow>>

MacTick ==
  /\ kit = "macos" /\ win \in {"open", "hidden"}
  /\ Free /\ ~paused
  /\ shown' = [shown EXCEPT !.regs = RenderRegs]
  /\ UNCHANGED <<vars, frameVars, wireVars, act, follow>>

-----------------------------------------------------------------------------
(* Opening: the callback is set, the machine paused, everything drawn.      *)

Open(k) ==
  /\ kit = k
  /\ Free /\ win = "none" /\ made < MaxWindows
  /\ Pause
  /\ made' = made + 1
  /\ win' = "open"
  /\ cb' = made'
  /\ follow' = TRUE
  /\ shown' = Blank
  /\ act' = "opened"
  /\ UNCHANGED <<kit, call, mail>>

GnomeOpen   == Open("gnome")
KdeOpen     == Open("kde")
WindowsOpen == Open("windows")
MacOpen     == Open("macos")

Opened ==
  /\ act = "opened" /\ ui = "idle"
  /\ RefreshAll(shown.status, follow)
  /\ act' = "idle"
  /\ UNCHANGED <<vars, frameVars, wireVars>>

(* The macOS window is kept when it closes: reopened, it is only shown.     *)
MacPresent ==
  /\ kit = "macos" /\ win = "hidden"
  /\ Free /\ Len(mail) < MaxMail
  /\ win' = "open"
  /\ UNCHANGED <<vars, kit, made, wireVars, act, viewVars>>

(* Closing lets the machine run.  The callback goes first, and then the     *)
(* window itself ...                                                        *)
Unhook(k) ==
  /\ kit = k
  /\ Free /\ win = "open"
  /\ cb' = 0
  /\ act' = "closing"
  /\ UNCHANGED <<vars, frameVars, call, mail, viewVars>>

GnomeClose   == Unhook("gnome")
KdeClose     == Unhook("kde")
WindowsClose == Unhook("windows")

CloseResumes_Forgets ==
  /\ act = "closing" /\ ui = "idle"
  /\ win' = "none"
  /\ shown' = Blank /\ follow' = FALSE
  /\ act' = "idle"
  /\ UNCHANGED <<vars, kit, made, wireVars>>

CloseResumes ==
  /\ act = "closing"
  /\ Resume
  /\ win' = "none"
  /\ shown' = Blank /\ follow' = FALSE
  /\ act' = "idle"
  /\ UNCHANGED <<kit, made, wireVars>>

(* ... but on macOS both stay.                                              *)
MacClose ==
  /\ kit = "macos" /\ Free /\ win = "open"
  /\ Resume
  /\ win' = "hidden"
  /\ UNCHANGED <<kit, made, wireVars, act, viewVars>>

(* The session is stopped by the main window, whatever the debugger shows.  *)
SessionStops ==
  /\ act = "idle"
  /\ Stop
  /\ UNCHANGED winVars

Returns ==
  /\ UiStep
  /\ UNCHANGED winVars

-----------------------------------------------------------------------------
(* The emulator thread.  Reporting a stop, it copies the callback ...       *)

Reports == TakePause \/ Jammed \/ IntoDone \/ StepDone \/ RunToDone
           \/ BreakpointHit
Works == EmuTop \/ CoreFrame \/ LoopHead \/ Look \/ Unpark \/ Execute
         \/ NothingDone \/ NoBreakpoint

EmuReports ==
  /\ call = NoCall
  /\ Reports
  /\ call' = IF cb = 0 THEN NoCall ELSE [to |-> cb, pc |-> pc]
  /\ UNCHANGED <<frameVars, cb, mail, act, viewVars>>

EmuWorks ==
  /\ call = NoCall
  /\ Works
  /\ UNCHANGED winVars

Alive(w) == w = made /\ win # "none"

(* ... and then calls it.  GNOME's posts the event without looking at the   *)
(* window, macOS's finds its window always there.                           *)
Posts(k) ==
  /\ kit = k
  /\ call # NoCall
  /\ mail' = Append(mail, call)
  /\ call' = NoCall
  /\ UNCHANGED <<vars, frameVars, cb, act, viewVars>>

GnomeOnStop == Posts("gnome")
MacTrampoline == Posts("macos")

(* KDE's and Windows' read the window first.  If it is gone by now they     *)
(* read freed memory: taken here to lose the event.                         *)
Reaches(k) ==
  /\ kit = k
  /\ call # NoCall
  /\ mail' = IF Alive(call.to) THEN Append(mail, call) ELSE mail
  /\ call' = NoCall
  /\ UNCHANGED <<vars, frameVars, cb, act, viewVars>>

KdeTrampoline == Reaches("kde")
WindowsTrampoline == Reaches("windows")

(* The UI thread takes an event; one for a window that is gone is dropped.  *)
OnStopped_StaysPut ==
  /\ Free /\ mail # <<>>
  /\ mail' = Tail(mail)
  /\ IF Alive(Head(mail).to)
       THEN RefreshAll(Head(mail).pc, follow)
       ELSE UNCHANGED viewVars
  /\ UNCHANGED <<vars, frameVars, cb, call, act>>

OnStopped ==
  /\ Free /\ mail # <<>>
  /\ mail' = Tail(mail)
  /\ IF Alive(Head(mail).to)
       THEN RefreshAll(Head(mail).pc, TRUE)
       ELSE UNCHANGED viewVars
  /\ UNCHANGED <<vars, frameVars, cb, call, act>>

-----------------------------------------------------------------------------
WinInit ==
  /\ Init
  /\ kit \in Kits
  /\ win = "none" /\ made = 0 /\ cb = 0
  /\ call = NoCall /\ mail = <<>>
  /\ act = "idle" /\ follow = FALSE
  /\ shown = Blank

OpenOrClose == GnomeOpen \/ KdeOpen \/ WindowsOpen \/ MacOpen \/ MacPresent
               \/ GnomeClose \/ KdeClose \/ WindowsClose \/ MacClose
Press == OnRun \/ OnStep \/ OnRow \/ OpenOrClose \/ SessionStops
Handle == Returns \/ Ran \/ Toggled \/ Opened \/ CloseResumes \/ OnStopped
Tick == WindowsTick \/ MacTick
Trampoline == GnomeOnStop \/ KdeTrampoline \/ WindowsTrampoline \/ MacTrampoline
EmulatorThread == EmuReports \/ EmuWorks \/ Trampoline

WinNext == Press \/ Handle \/ Tick \/ EmulatorThread

WinSpec == WinInit /\ [][WinNext]_allVars

-----------------------------------------------------------------------------
Settled == Free /\ mail = <<>> /\ call = NoCall
Parked  == emu = "park" /\ Asleep /\ ~stop_flag

(* With nothing on its way, the window shows the stop the machine is at:    *)
(* Continue on the button, registers, memory and listing of that very PC,   *)
(* whichever of the requests, races and reopenings led there.  (The status  *)
(* line of a window opened onto a stopped machine still says Running.)      *)
WindowShowsTheStop ==
  Settled /\ win = "open" /\ Parked =>
    /\ shown.button = "Continue"
    /\ shown.status \in {pc, "Running"}
    /\ shown.regs = pc /\ shown.mem = pc
    /\ shown.disasm.at = pc

(* The marks in the listing are the breakpoints the engine looks for, also  *)
(* those an earlier window set.                                             *)
MarksAreBreakpoints ==
  Free /\ win = "open" => shown.disasm.marks = bp

(* "Leave the machine running": once the window is closed and no breakpoint *)
(* is left, the debugger is disengaged and frames go past it again.  That   *)
(* no thread is parked it does not say: NotStranded does not hold.          *)
ClosedLetsGo ==
  Free /\ win # "open" /\ bp = {} => ~dbg_engaged

(* "... and do not strand it paused".  Does not hold: a stop the emulator   *)
(* thread was reporting while the window closed sets paused after resume()  *)
(* cleared it, and the machine is parked with no window to continue it.     *)
NotStranded ==
  Settled /\ win # "open" /\ bp = {} => ~Parked

(* "... stop calling into a dead window".  Holds for GNOME and macOS only:  *)
(* KDE's and Windows' callbacks read a window that may have closed since    *)
(* the callback was copied.                                                 *)
DeadWindowNotRead ==
  kit \in {"kde", "windows"} /\ call # NoCall => Alive(call.to)
=============================================================================
