------------------------------ MODULE Session ------------------------------
(***************************************************************************)
(* The session: core/src/session.c with the part of fujinet_runtime.c that *)
(* runs under it.  Frontend threads (Callers) start, stop, reset and free  *)
(* the session under lifecycle_mtx; the emulator thread boots the AppleWin *)
(* core, applies latched resets between frames and exits when stop_flag is *)
(* set; FujiNet attaches to the SmartPort card from outside.               *)
(*                                                                         *)
(* A caller's step is one stretch of code between two points where another *)
(* thread can tell the difference: a lock, a wait, a join, a blocking call *)
(* into the FujiNet library.                                               *)
(***************************************************************************)
EXTENDS Integers

CONSTANTS
  Callers,       (* frontend threads that call the session's functions      *)
  NoCaller,      (* lifecycle_mtx is free                                   *)
  Ops,           (* the calls they make, a subset of AllOps                 *)
  Modes,         (* FujiNet settings start() may be given                   *)
  Cards,         (* is a FujiNet card in a slot: what start() may be given  *)
  LibKinds,      (* what dlopen of the FujiNet library may find             *)
  CoreMayWedge   (* may AppleWin's load hang for ever                       *)

AllOps == {"start", "stop", "warm", "cold", "free"}
AllModes == {"off", "internal", "external", "bad_address"}
AllLibKinds == {"incomplete", "complete"}

ASSUME SessionAssumption ==
  /\ Callers # {}
  /\ NoCaller \notin Callers
  /\ Ops \subseteq AllOps
  /\ Modes \subseteq AllModes
  /\ Cards \subseteq BOOLEAN
  /\ LibKinds \subseteq AllLibKinds
  /\ CoreMayWedge \in BOOLEAN

VARIABLES
  lifecycle,        (* who holds lifecycle_mtx                              *)
  pc, op,           (* where each caller is, and in which call              *)
  freed,            (* apple2session_free has returned                      *)
  mode, card,       (* s->opts: FujiNet setting, FujiNet card inserted      *)
  running, emu_thread_started, stop_flag, core_started,
  reset_request,    (* 0 none, 1 warm, 2 cold: the latch                    *)
  link_reboot,      (* an external FujiNet's first link cold-boots          *)
  fujinet_running, fujinet_external,
  backends,         (* SDL audio and gamepad threads are up                 *)
  dbg_engaged,      (* frames go through the debugger                       *)
  frame_sink, sp_sink,   (* the host's callbacks into this session          *)
  emu, req,         (* the emulator thread: where it is, the request read   *)
  core_up,          (* AppleWin is loaded, its SmartPort listener is bound  *)
  found,            (* the machine's last boot scan saw a FujiNet           *)
  sp_devices,       (* g_sp_devices: devices as of the last whole frame     *)
  linked,           (* a FujiNet is attached to the listener                *)
  lib               (* g_handle and g_start: "none", "usable", "unusable"   *)

callerVars == <<lifecycle, pc, op, freed>>
optVars    == <<mode, card>>
emuVars    == <<emu, req, core_up, found, sp_devices>>
sinkVars   == <<frame_sink, sp_sink>>
fujiVars   == <<fujinet_running, fujinet_external, linked, lib>>
runVars    == <<running, emu_thread_started, stop_flag, core_started>>
latchVars  == <<reset_request, link_reboot>>
deskVars   == <<backends, dbg_engaged>>
vars == <<callerVars, optVars, emuVars, sinkVars, fujiVars, runVars,
          latchVars, deskVars>>

CallerSteps == {"idle", "lock", "wait", "reap", "fuji", "setup", "backends",
                "join", "teardown", "restart", "request", "crash"}
EmuSteps == {"none", "init", "boot", "wedged", "failed", "up", "top", "clear",
             "apply", "frame", "link", "latch", "halt", "quit", "exited"}
(* The steps of the frame loop: the core is loaded and frames are pumped. *)
EmuLoop == {"top", "clear", "apply", "frame", "link", "latch"}

-----------------------------------------------------------------------------
(* Entering and leaving a call.  A caller holds lifecycle_mtx from its      *)
(* first step to the step that makes it idle again.                         *)

Enter(c, o) ==
  /\ pc[c] = "lock"
  /\ op[c] = o
  /\ lifecycle = NoCaller

Goto(c, step) ==
  /\ pc' = [pc EXCEPT ![c] = step]
  /\ lifecycle' = c
  /\ UNCHANGED <<op, freed>>

Return(c) ==
  /\ pc' = [pc EXCEPT ![c] = "idle"]
  /\ lifecycle' = NoCaller
  /\ freed' = (op[c] = "free")
  /\ UNCHANGED op

(* A frontend calls the session.  Only one call may be apple2session_free,  *)
(* and its caller sees to it that no other call is under way.               *)
Call(c) ==
  /\ pc[c] = "idle"
  /\ ~freed
  /\ \A d \in Callers : ~(pc[d] # "idle" /\ op[d] = "free")
  /\ \E o \in Ops :
       /\ o = "free" => \A d \in Callers : pc[d] = "idle"
       /\ pc' = [pc EXCEPT ![c] = "lock"]
       /\ op' = [op EXCEPT ![c] = o]
  /\ UNCHANGED <<lifecycle, freed, optVars, emuVars, sinkVars, fujiVars,
                 runVars, latchVars, deskVars>>

-----------------------------------------------------------------------------
(* apple2session_start *)

(* Already running: nothing to do. *)
StartAgain(c) ==
  /\ Enter(c, "start")
  /\ running
  /\ Return(c)
  /\ UNCHANGED <<optVars, emuVars, sinkVars, fujiVars, runVars, latchVars,
                 deskVars>>

(* The external FujiNet's address does not parse. *)
StartBadAddress(c) ==
  /\ Enter(c, "start")
  /\ ~running
  /\ "bad_address" \in Modes
  /\ fujinet_external' = FALSE
  /\ Return(c)
  /\ UNCHANGED <<optVars, emuVars, sinkVars, fujinet_running, linked, lib,
                 runVars, latchVars, deskVars>>

(* What start() assigns before it creates the emulator thread. *)
StartOptions ==
  /\ \E m \in Modes \ {"bad_address"} :
       /\ mode' = m
       /\ fujinet_external' = (m = "external")
       /\ link_reboot' = (m = "external")
  /\ card' \in Cards
  /\ stop_flag' = FALSE
  /\ reset_request' = 0
  /\ core_started' = 0

StartNoThread(c) ==
  /\ Enter(c, "start")
  /\ ~running
  /\ StartOptions
  /\ running' = FALSE
  /\ Return(c)
  /\ UNCHANGED <<emuVars, sinkVars, fujinet_running, linked, lib,
                 emu_thread_started, deskVars>>

StartThread_SkipsWait(c) ==
  /\ Enter(c, "start")
  /\ ~running
  /\ StartOptions
  /\ running' = TRUE
  /\ emu_thread_started' = TRUE
  /\ emu' = "init"
  /\ Goto(c, IF mode' = "internal" THEN "fuji" ELSE "backends")
  /\ UNCHANGED <<req, core_up, found, sp_devices, sinkVars, fujinet_running,
                 linked, lib, deskVars>>

StartThread(c) ==
  /\ Enter(c, "start")
  /\ ~running
  /\ StartOptions
  /\ running' = TRUE
  /\ emu_thread_started' = TRUE
  /\ emu' = "init"
  /\ Goto(c, "wait")
  /\ UNCHANGED <<req, core_up, found, sp_devices, sinkVars, fujinet_running,
                 linked, lib, deskVars>>

(* The core reported itself up: FujiNet may be started, since the card's    *)
(* listener is bound.                                                       *)
StartUp(c) ==
  /\ pc[c] = "wait"
  /\ core_started = 1
  /\ Goto(c, IF mode = "internal" THEN "fuji" ELSE "backends")
  /\ UNCHANGED <<optVars, emuVars, sinkVars, fujiVars, runVars, latchVars,
                 deskVars>>

StartDown_NoJoin(c) ==
  /\ pc[c] = "wait"
  /\ core_started # 1
  /\ stop_flag' = TRUE
  /\ sp_sink' = FALSE
  /\ emu_thread_started' = FALSE
  /\ running' = FALSE
  /\ Return(c)
  /\ UNCHANGED <<optVars, emuVars, frame_sink, fujiVars, core_started,
                 latchVars, deskVars>>

(* The core reported failure, or 15 s passed with no report. *)
StartDown(c) ==
  /\ pc[c] = "wait"
  /\ core_started # 1
  /\ stop_flag' = TRUE
  /\ Goto(c, "reap")
  /\ UNCHANGED <<optVars, emuVars, sinkVars, fujiVars, running,
                 emu_thread_started, core_started, latchVars, deskVars>>

StartReap_KeepsTrace(c) ==
  /\ pc[c] = "reap"
  /\ emu = "exited"
  /\ emu' = "none"
  /\ emu_thread_started' = FALSE
  /\ running' = FALSE
  /\ Return(c)
  /\ UNCHANGED <<optVars, req, core_up, found, sp_devices, sinkVars, fujiVars,
                 stop_flag, core_started, latchVars, deskVars>>

(* pthread_join of a thread that did not come up, and the -1 return. *)
StartReap(c) ==
  /\ pc[c] = "reap"
  /\ emu = "exited"
  /\ emu' = "none"
  /\ sp_sink' = FALSE
  /\ emu_thread_started' = FALSE
  /\ running' = FALSE
  /\ Return(c)
  /\ UNCHANGED <<optVars, req, core_up, found, sp_devices, frame_sink,
                 fujiVars, stop_flag, core_started, latchVars, deskVars>>

(* audio_start and gamepad_start: each may fail, the session runs on. *)
StartBackends(c) ==
  /\ pc[c] = "backends"
  /\ backends' \in BOOLEAN
  /\ Return(c)
  /\ UNCHANGED <<optVars, emuVars, sinkVars, fujiVars, runVars, latchVars,
                 dbg_engaged>>

-----------------------------------------------------------------------------
(* fujinet_start, called by start() and by a cold reset.  A caller comes    *)
(* here with fujinet_running clear (FujiStartedOnce), so its early return   *)
(* is never taken.                                                          *)

AfterFuji(c) == IF op[c] = "start" THEN "backends" ELSE "request"

(* Provisioning the runtime tree fails, or the library cannot be loaded.    *)
(* A library without the entry points stays mapped: g_handle is set.        *)
FujiUnavailable(c) ==
  /\ pc[c] = "fuji"
  /\ \/ lib' = lib
     \/ /\ lib = "none"
        /\ "incomplete" \in LibKinds
        /\ lib' = "unusable"
  /\ Goto(c, AfterFuji(c))
  /\ UNCHANGED <<optVars, emuVars, sinkVars, fujinet_running,
                 fujinet_external, linked, runVars, latchVars, deskVars>>

(* The library is loaded, now or since an earlier start. *)
FujiLoad(c) ==
  /\ pc[c] = "fuji"
  /\ \/ lib = "usable"
     \/ lib = "none" /\ "complete" \in LibKinds
  /\ lib' = "usable"
  /\ Goto(c, "setup")
  /\ UNCHANGED <<optVars, emuVars, sinkVars, fujinet_running,
                 fujinet_external, linked, runVars, latchVars, deskVars>>

(* load_library_locked returns 0 whenever g_handle is set; for a library    *)
(* found incomplete earlier, g_start is NULL and is called all the same.    *)
FujiNullCall(c) ==
  /\ pc[c] = "fuji"
  /\ lib = "unusable"
  /\ Goto(c, "crash")
  /\ UNCHANGED <<optVars, emuVars, sinkVars, fujiVars, runVars, latchVars,
                 deskVars>>

(* g_start returns false. *)
FujiSetupFails(c) ==
  /\ pc[c] = "setup"
  /\ Goto(c, AfterFuji(c))
  /\ UNCHANGED <<optVars, emuVars, sinkVars, fujiVars, runVars, latchVars,
                 deskVars>>

FujiSetupDone_NoColdBoot(c) ==
  /\ pc[c] = "setup"
  /\ core_up /\ card
  /\ fujinet_running' = TRUE
  /\ linked' = TRUE
  /\ Goto(c, AfterFuji(c))
  /\ UNCHANGED <<optVars, emuVars, sinkVars, fujinet_external, lib, runVars,
                 latchVars, deskVars>>

(* g_start returns true: it has blocked in FujiNet's setup until its SLIP   *)
(* client attached to the card's listener.  start() then asks for a cold    *)
(* boot, so that the autostart scan finds the device.                       *)
FujiSetupDone(c) ==
  /\ pc[c] = "setup"
  /\ core_up /\ card
  /\ fujinet_running' = TRUE
  /\ linked' = TRUE
  /\ reset_request' = IF op[c] = "start" THEN 2 ELSE reset_request
  /\ Goto(c, AfterFuji(c))
  /\ UNCHANGED <<optVars, emuVars, sinkVars, fujinet_external, lib, runVars,
                 link_reboot, deskVars>>

-----------------------------------------------------------------------------
(* apple2session_stop and apple2session_free *)

StopIdle(c) ==
  /\ Enter(c, "stop") \/ Enter(c, "free")
  /\ ~emu_thread_started
  /\ Return(c)
  /\ UNCHANGED <<optVars, emuVars, sinkVars, fujiVars, runVars, latchVars,
                 deskVars>>

StopSignal_NoFlag(c) ==
  /\ Enter(c, "stop") \/ Enter(c, "free")
  /\ emu_thread_started
  /\ core_started' = IF core_started = 0 THEN -1 ELSE core_started
  /\ Goto(c, "join")
  /\ UNCHANGED <<optVars, emuVars, sinkVars, fujiVars, running, stop_flag,
                 emu_thread_started, latchVars, deskVars>>

(* Raise stop_flag and wake whatever the emulator thread may wait on. *)
StopSignal(c) ==
  /\ Enter(c, "stop") \/ Enter(c, "free")
  /\ emu_thread_started
  /\ stop_flag' = TRUE
  /\ core_started' = IF core_started = 0 THEN -1 ELSE core_started
  /\ Goto(c, "join")
  /\ UNCHANGED <<optVars, emuVars, sinkVars, fujiVars, running,
                 emu_thread_started, latchVars, deskVars>>

StopJoin(c) ==
  /\ pc[c] = "join"
  /\ emu = "exited"
  /\ emu' = "none"
  /\ emu_thread_started' = FALSE
  /\ Goto(c, "teardown")
  /\ UNCHANGED <<optVars, req, core_up, found, sp_devices, sinkVars, fujiVars,
                 running, stop_flag, core_started, latchVars, deskVars>>

StopTeardown_KeepsBackends(c) ==
  /\ pc[c] = "teardown"
  /\ fujinet_running' = FALSE
  /\ linked' = (linked /\ ~fujinet_running)
  /\ sp_sink' = FALSE
  /\ fujinet_external' = FALSE
  /\ link_reboot' = FALSE
  /\ running' = FALSE
  /\ Return(c)
  /\ UNCHANGED <<optVars, emuVars, frame_sink, lib, emu_thread_started,
                 stop_flag, core_started, reset_request, deskVars>>

(* audio_stop, gamepad_stop, fujinet_stop, then the trace sink. *)
StopTeardown(c) ==
  /\ pc[c] = "teardown"
  /\ backends' = FALSE
  /\ fujinet_running' = FALSE
  /\ linked' = (linked /\ ~fujinet_running)
  /\ sp_sink' = FALSE
  /\ fujinet_external' = FALSE
  /\ link_reboot' = FALSE
  /\ running' = FALSE
  /\ Return(c)
  /\ UNCHANGED <<optVars, emuVars, frame_sink, lib, emu_thread_started,
                 stop_flag, core_started, reset_request, dbg_engaged>>

-----------------------------------------------------------------------------
(* apple2session_reset *)

ResetIgnored(c) ==
  /\ Enter(c, "warm") \/ Enter(c, "cold")
  /\ ~running
  /\ Return(c)
  /\ UNCHANGED <<optVars, emuVars, sinkVars, fujiVars, runVars, latchVars,
                 deskVars>>

ResetBegin_KeepsFujiNet(c) ==
  /\ Enter(c, "warm") \/ Enter(c, "cold")
  /\ running
  /\ Goto(c, IF op[c] = "cold" /\ fujinet_running THEN "fuji" ELSE "request")
  /\ UNCHANGED <<optVars, emuVars, sinkVars, fujiVars, runVars, latchVars,
                 deskVars>>

(* A cold reset restarts the built-in FujiNet with the machine. *)
ResetBegin(c) ==
  /\ Enter(c, "warm") \/ Enter(c, "cold")
  /\ running
  /\ Goto(c, IF op[c] = "cold" /\ fujinet_running THEN "restart" ELSE "request")
  /\ UNCHANGED <<optVars, emuVars, sinkVars, fujiVars, runVars, latchVars,
                 deskVars>>

(* fujinet_stop *)
ResetStopsFuji(c) ==
  /\ pc[c] = "restart"
  /\ fujinet_running' = FALSE
  /\ linked' = FALSE
  /\ Goto(c, "fuji")
  /\ UNCHANGED <<optVars, emuVars, sinkVars, fujinet_external, lib, runVars,
                 latchVars, deskVars>>

ResetRequest_Adds(c) ==
  /\ pc[c] = "request"
  /\ reset_request' = reset_request + (IF op[c] = "cold" THEN 2 ELSE 1)
  /\ Return(c)
  /\ UNCHANGED <<optVars, emuVars, sinkVars, fujiVars, runVars, link_reboot,
                 deskVars>>

(* The latch: whatever it held is overwritten. *)
ResetRequest(c) ==
  /\ pc[c] = "request"
  /\ reset_request' = IF op[c] = "cold" THEN 2 ELSE 1
  /\ Return(c)
  /\ UNCHANGED <<optVars, emuVars, sinkVars, fujiVars, runVars, link_reboot,
                 deskVars>>

-----------------------------------------------------------------------------
(* emu_thread_main *)

(* Push the options, install the sinks, then load the core. *)
EmuInit ==
  /\ emu = "init"
  /\ emu' = "boot"
  /\ frame_sink' = TRUE
  /\ sp_sink' = TRUE
  /\ UNCHANGED <<callerVars, optVars, req, core_up, found, sp_devices,
                 fujiVars, runVars, latchVars, deskVars>>

CoreLoads ==
  /\ emu = "boot"
  /\ emu' = "up"
  /\ core_up' = TRUE
  /\ found' = (card /\ linked)
  /\ UNCHANGED <<callerVars, optVars, req, sp_devices, sinkVars, fujiVars,
                 runVars, latchVars, deskVars>>

CoreFails ==
  /\ emu = "boot"
  /\ emu' = "failed"
  /\ frame_sink' = FALSE
  /\ UNCHANGED <<callerVars, optVars, req, core_up, found, sp_devices,
                 sp_sink, fujiVars, runVars, latchVars, deskVars>>

CoreWedges ==
  /\ CoreMayWedge
  /\ emu = "boot"
  /\ emu' = "wedged"
  /\ UNCHANGED <<callerVars, optVars, req, core_up, found, sp_devices,
                 sinkVars, fujiVars, runVars, latchVars, deskVars>>

(* Publish the result under start_mtx. *)
EmuPublish ==
  /\ emu \in {"up", "failed"}
  /\ emu' = IF emu = "up" THEN "top" ELSE "quit"
  /\ core_started' = IF emu = "up" THEN 1 ELSE -1
  /\ UNCHANGED <<callerVars, optVars, req, core_up, found, sp_devices,
                 sinkVars, fujiVars, running, emu_thread_started, stop_flag,
                 latchVars, deskVars>>

(* The loop's head: stop, or read the latch. *)
EmuTop ==
  /\ emu = "top"
  /\ \/ /\ stop_flag
        /\ emu' = "halt"
        /\ UNCHANGED req
     \/ /\ ~stop_flag
        /\ req' = reset_request
        /\ emu' = IF reset_request = 0 THEN "frame" ELSE "clear"
  /\ UNCHANGED <<callerVars, optVars, core_up, found, sp_devices, sinkVars,
                 fujiVars, runVars, latchVars, deskVars>>

(* The latch is cleared in a step of its own, after it was read. *)
EmuClear ==
  /\ emu = "clear"
  /\ reset_request' = 0
  /\ emu' = "apply"
  /\ UNCHANGED <<callerVars, optVars, req, core_up, found, sp_devices,
                 sinkVars, fujiVars, runVars, link_reboot, deskVars>>

(* A power cycle scans the slots again; Ctrl-Reset leaves the cards alone. *)
EmuApply ==
  /\ emu = "apply"
  /\ found' = IF req = 2 THEN card /\ linked ELSE found
  /\ emu' = "frame"
  /\ UNCHANGED <<callerVars, optVars, req, core_up, sp_devices, sinkVars,
                 fujiVars, runVars, latchVars, deskVars>>

(* One frame.  Only a frame run by the host refreshes g_sp_devices. *)
EmuFrame ==
  /\ emu = "frame"
  /\ sp_devices' = IF dbg_engaged THEN sp_devices ELSE card /\ linked
  /\ emu' = "link"
  /\ UNCHANGED <<callerVars, optVars, req, core_up, found, sinkVars, fujiVars,
                 runVars, latchVars, deskVars>>

(* An external FujiNet's first link within 60 s asks for a cold boot; the   *)
(* deadline is a choice, since frames are not timed here.                   *)
EmuLink ==
  /\ emu = "link"
  /\ \/ /\ ~link_reboot
        /\ emu' = "top"
        /\ UNCHANGED link_reboot
     \/ /\ link_reboot /\ sp_devices
        /\ emu' = "latch"
        /\ link_reboot' = FALSE
     \/ /\ link_reboot /\ ~sp_devices
        /\ emu' = "top"
        /\ link_reboot' \in BOOLEAN
  /\ UNCHANGED <<callerVars, optVars, req, core_up, found, sp_devices,
                 sinkVars, fujiVars, runVars, reset_request, deskVars>>

EmuLatch ==
  /\ emu = "latch"
  /\ reset_request' = 2
  /\ emu' = "top"
  /\ UNCHANGED <<callerVars, optVars, req, core_up, found, sp_devices,
                 sinkVars, fujiVars, runVars, link_reboot, deskVars>>

(* apple2host_core_stop *)
EmuHalt ==
  /\ emu = "halt"
  /\ core_up' = FALSE
  /\ found' = FALSE
  /\ sp_devices' = FALSE
  /\ emu' = "quit"
  /\ UNCHANGED <<callerVars, optVars, req, sinkVars, fujiVars, runVars,
                 latchVars, deskVars>>

(* Drop the frame sink, clear running, return from the thread. *)
EmuQuit ==
  /\ emu = "quit"
  /\ frame_sink' = FALSE
  /\ running' = FALSE
  /\ emu' = "exited"
  /\ UNCHANGED <<callerVars, optVars, req, core_up, found, sp_devices,
                 sp_sink, fujiVars, emu_thread_started, stop_flag,
                 core_started, latchVars, deskVars>>

-----------------------------------------------------------------------------
(* The outside: an external FujiNet dials the bound listener and may leave; *)
(* the frontend's debugger engages and disengages.                          *)

LinkChanges ==
  /\ ~fujinet_running
  /\ linked \/ (fujinet_external /\ card /\ core_up)
  /\ linked' = ~linked
  /\ UNCHANGED <<callerVars, optVars, emuVars, sinkVars, fujinet_running,
                 fujinet_external, lib, runVars, latchVars, deskVars>>

DebuggerToggles ==
  /\ ~freed
  /\ dbg_engaged' = ~dbg_engaged
  /\ UNCHANGED <<callerVars, optVars, emuVars, sinkVars, fujiVars, runVars,
                 latchVars, backends>>

-----------------------------------------------------------------------------
Init ==
  /\ lifecycle = NoCaller
  /\ pc = [c \in Callers |-> "idle"]
  /\ op = [c \in Callers |-> "stop"]
  /\ freed = FALSE
  /\ mode = "off" /\ card = FALSE
  /\ running = FALSE /\ emu_thread_started = FALSE
  /\ stop_flag = FALSE /\ core_started = 0
  /\ reset_request = 0 /\ link_reboot = FALSE
  /\ fujinet_running = FALSE /\ fujinet_external = FALSE
  /\ backends = FALSE /\ dbg_engaged = FALSE
  /\ frame_sink = FALSE /\ sp_sink = FALSE
  /\ emu = "none" /\ req = 0
  /\ core_up = FALSE /\ found = FALSE /\ sp_devices = FALSE
  /\ linked = FALSE /\ lib = "none"

Start(c) == StartAgain(c) \/ StartBadAddress(c) \/ StartNoThread(c)
            \/ StartThread(c) \/ StartUp(c) \/ StartDown(c) \/ StartReap(c)
            \/ StartBackends(c)
Fuji(c)  == FujiUnavailable(c) \/ FujiLoad(c) \/ FujiNullCall(c)
            \/ FujiSetupFails(c) \/ FujiSetupDone(c)
Stop(c)  == StopIdle(c) \/ StopSignal(c) \/ StopJoin(c) \/ StopTeardown(c)
Reset(c) == ResetIgnored(c) \/ ResetBegin(c) \/ ResetStopsFuji(c)
            \/ ResetRequest(c)
Emulator == EmuInit \/ CoreLoads \/ CoreFails \/ CoreWedges \/ EmuPublish
            \/ EmuTop \/ EmuClear \/ EmuApply \/ EmuFrame \/ EmuLink
            \/ EmuLatch \/ EmuHalt \/ EmuQuit
Outside  == LinkChanges \/ DebuggerToggles

Next == \/ \E c \in Callers : Call(c) \/ Start(c) \/ Fuji(c) \/ Stop(c) \/ Reset(c)
        \/ Emulator
        \/ Outside

Spec == Init /\ [][Next]_vars

(* Every thread is scheduled: a caller inside the session takes its next    *)
(* step, the emulator thread its own.  Nobody need call, nothing need fail, *)
(* and g_start returns only because FujiNet attached: when it cannot, it    *)
(* waits.                                                                   *)
Fairness ==
  /\ \A c \in Callers :
       /\ WF_vars(Start(c)) /\ WF_vars(Stop(c)) /\ WF_vars(Reset(c))
       /\ WF_vars(FujiUnavailable(c) \/ FujiLoad(c))
       /\ WF_vars(FujiSetupDone(c))
  /\ WF_vars(Emulator)

LiveSpec == Spec /\ Fairness
-----------------------------------------------------------------------------
ValuesOK ==
  /\ lifecycle \in Callers \cup {NoCaller}
  /\ pc \in [Callers -> CallerSteps]
  /\ op \in [Callers -> AllOps]
  /\ mode \in AllModes
  /\ lib \in {"none", "usable", "unusable"}
  /\ emu \in EmuSteps
  /\ core_started \in {-1, 0, 1}
  /\ reset_request \in 0..2
  /\ req \in 0..2

FlagsOK ==
  /\ freed \in BOOLEAN /\ card \in BOOLEAN
  /\ running \in BOOLEAN /\ emu_thread_started \in BOOLEAN
  /\ stop_flag \in BOOLEAN /\ link_reboot \in BOOLEAN
  /\ fujinet_running \in BOOLEAN /\ fujinet_external \in BOOLEAN
  /\ backends \in BOOLEAN /\ dbg_engaged \in BOOLEAN
  /\ frame_sink \in BOOLEAN /\ sp_sink \in BOOLEAN
  /\ core_up \in BOOLEAN /\ found \in BOOLEAN
  /\ sp_devices \in BOOLEAN /\ linked \in BOOLEAN

(* Every variable holds a value the C type and the code's assignments give  *)
(* it (session_internal.h, struct apple2session).                           *)
TypeOK == ValuesOK /\ FlagsOK

(* A session nobody is inside is either fully up or fully down: with no     *)
(* emulator thread there is no core, no sink into the session, no SDL       *)
(* thread and no FujiNet; with one, it is in its frame loop and nothing has *)
(* told it to stop.  Every path of start(), stop() and the thread's own     *)
(* exits has to restore this, whatever failed on the way.                   *)
SettledWhenFree ==
  lifecycle = NoCaller =>
    /\ running = emu_thread_started
    /\ IF emu_thread_started
       THEN emu \in EmuLoop /\ core_up /\ ~stop_flag
       ELSE /\ emu = "none"
            /\ ~core_up /\ ~frame_sink /\ ~sp_sink
            /\ ~backends /\ ~fujinet_running

(* FujiNet's setup blocks until the SmartPort listener accepts it, so it is *)
(* entered only while the core is up and its thread pumps frames: the order *)
(* start() insists on ("the emulator must be up before FujiNet"), which a   *)
(* cold reset has to keep as well.                                          *)
MachineBeforeFujiNet ==
  \A c \in Callers :
    pc[c] \in {"fuji", "setup"} => emu \in EmuLoop /\ core_up /\ ~stop_flag

(* fujinet_start is never entered while this session's FujiNet already      *)
(* runs: its early return would report success without a cold boot.         *)
FujiStartedOnce ==
  \A c \in Callers : pc[c] \in {"fuji", "setup"} => ~fujinet_running

(* Once apple2session_free has returned, nothing can reach the session: no  *)
(* frame or trace sink in the host, no SDL thread, no emulator thread.      *)
NothingReachesFreed ==
  freed => /\ ~frame_sink /\ ~sp_sink /\ ~backends
           /\ emu = "none" /\ ~fujinet_running

(* pthread_create overwrites s->emu_thread: it happens only after the       *)
(* previous thread has been joined, so the core never has two threads.      *)
OneEmulatorThread ==
  [][emu' = "init" /\ emu # "init" => emu = "none"]_vars

(* "Latched here and applied by the emulator thread between frames": what   *)
(* it clears from the latch is what it goes on to apply.  Does not hold: a  *)
(* reset latched between its read of the latch and its clear is dropped.    *)
LatchedResetApplied ==
  [][emu = "clear" /\ emu' = "apply" => reset_request = req]_vars

(* g_start is never called through the NULL pointer that marks a library    *)
(* without the runtime contract as unusable.                                *)
UnusableLibraryNotCalled ==
  \A c \in Callers : pc[c] # "crash"

(* Every call returns. *)
CallsReturn ==
  \A c \in Callers : pc[c] # "idle" ~> pc[c] = "idle"

(* When start() or a cold reset has brought the built-in FujiNet up, the    *)
(* machine scans its slots with the device on the bus, unless FujiNet is    *)
(* stopped first: the cold boot start() latches is neither lost nor applied *)
(* before the device is there.                                              *)
FujiNetIsFound == fujinet_running ~> (found \/ ~fujinet_running)

-----------------------------------------------------------------------------
(* What makes the safety properties inductive. *)

(* The holder of lifecycle_mtx is the one caller inside. *)
Inside(c) == pc[c] \notin {"idle", "lock"}
HolderInv == \A c \in Callers : (lifecycle = c) <=> Inside(c)

(* Which call a step belongs to, and that free() is alone. *)
OpInv ==
  \A c \in Callers :
    /\ pc[c] \in {"wait", "reap", "backends"} => op[c] = "start"
    /\ pc[c] \in {"join", "teardown"} => op[c] \in {"stop", "free"}
    /\ pc[c] = "request" => op[c] \in {"warm", "cold"}
    /\ pc[c] \in {"fuji", "setup", "restart"} => op[c] \in {"start", "cold"}
    /\ pc[c] # "idle" /\ op[c] = "free" =>
         \A d \in Callers \ {c} : pc[d] = "idle"
    /\ freed => pc[c] = "idle"
FreedInv == freed => ~emu_thread_started

(* The core and the sinks follow the emulator thread. *)
EmuInv ==
  /\ core_up <=> emu \in EmuLoop \cup {"up", "halt"}
  /\ emu \in {"none", "init", "failed", "exited"} => ~frame_sink

(* What holds at each step of the caller that is inside. *)
StageInv ==
  \A c \in Callers :
    /\ pc[c] = "wait" =>
         /\ emu_thread_started /\ ~stop_flag /\ ~backends /\ ~fujinet_running
         /\ core_started = 1 => running /\ emu \in EmuLoop
         /\ core_started = 0 =>
              running /\ emu \in {"init", "boot", "wedged", "failed", "up"}
         /\ core_started = -1 => emu \in {"quit", "exited"}
    /\ pc[c] = "reap" =>
         /\ emu_thread_started /\ ~backends /\ ~fujinet_running
         /\ emu # "none"
    /\ pc[c] \in {"fuji", "setup", "backends", "restart", "request", "crash"} =>
         emu_thread_started /\ running /\ ~stop_flag /\ emu \in EmuLoop
    /\ pc[c] \in {"fuji", "setup"} => ~fujinet_running
    /\ pc[c] = "join" =>
         emu_thread_started /\ emu \in EmuLoop \cup {"halt", "quit", "exited"}
    /\ pc[c] = "teardown" => ~emu_thread_started /\ emu = "none"

SessionInv ==
  TypeOK /\ HolderInv /\ OpInv /\ FreedInv /\ EmuInv /\ StageInv
  /\ SettledWhenFree
=============================================================================
