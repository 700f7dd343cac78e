---------------------------- MODULE FramePacing ----------------------------
(***************************************************************************)
(* The pacing of the emulator thread, session.c: after each frame of       *)
(* DebugEngine, whole or instruction by instruction, the thread waits for  *)
(* the frontend's next vsync tick while ticks arrive at about 60 Hz, and   *)
(* for its own schedule otherwise.  Ticks come from the UI's frame clock   *)
(* and stop whenever the window is hidden.                                 *)
(*                                                                         *)
(* Time is relative to now, in units of which a frame takes Frame.         *)
(***************************************************************************)
EXTENDS DebugEngine

CONSTANTS
  Frame,            (* frame_us, and the interval of ticks near 60 Hz      *)
  TimeOut,          (* how long a tick is waited for (40 ms)               *)
  Fresh,            (* for how long a tick counts as fresh (100 ms)        *)
  Late              (* bound: a schedule older than this is just late      *)

ASSUME PacingAssumption ==
  /\ Frame \in Nat \ {0} /\ TimeOut \in Nat /\ Fresh \in Nat /\ Late \in Nat
  /\ Frame < TimeOut /\ TimeOut < Fresh /\ Fresh <= Late

VARIABLES
  pace,             (* "go": run a frame; "due": one is done; "vsync" and  *)
                    (* "sleep": waiting                                    *)
  next,             (* next_us - now                                       *)
  age,              (* now - vs_ns, Fresh standing for all that is stale   *)
  steady,           (* vs_iv_us is within 15000..18500                     *)
  seen,             (* vs_ns <= vs_seen_ns                                 *)
  waited,           (* time in wait_next_vsync                             *)
  lead              (* machine time run since the last tick or start, less *)
                    (* the time that has passed                            *)

tickVars == <<age, steady, seen>>
paceVars == <<pace, next, waited, lead>>
pacedVars == <<vars, tickVars, paceVars>>

Later(t) == IF t < -Late THEN -Late ELSE t

-----------------------------------------------------------------------------
Clock ==
  /\ next' = Later(next - 1)
  /\ age' = IF age < Fresh THEN age + 1 ELSE age
  /\ waited' = IF pace = "vsync" /\ waited < TimeOut THEN waited + 1 ELSE waited
  /\ lead' = IF lead > 0 THEN lead - 1 ELSE 0
  /\ UNCHANGED <<vars, pace, steady, seen>>

(* apple2session_notify_vsync, from the UI or the render thread.            *)
NotifyVsync ==
  /\ steady' = (age = Frame)
  /\ age' = 0
  /\ seen' = FALSE
  /\ lead' = 0
  /\ UNCHANGED <<vars, pace, next, waited>>

VsyncFresh == age < Fresh /\ steady

-----------------------------------------------------------------------------
(* The emulator thread starts a frame when it is paced, and owes the wait   *)
(* for it when it is done.                                                  *)
FrameStarts ==
  /\ pace = "go"
  /\ EmuTop
  /\ UNCHANGED <<tickVars, paceVars>>

FrameGoesOn ==
  /\ emu # "top" /\ Emulator /\ emu' # "top"
  /\ UNCHANGED <<tickVars, paceVars>>

FrameDone ==
  /\ emu # "top" /\ Emulator /\ emu' = "top"
  /\ pace' = "due"
  /\ lead' = lead + Frame
  /\ UNCHANGED <<tickVars, next, waited>>

PaceBehind_OwesFrames ==
  /\ pace = "due" /\ ~VsyncFresh /\ next + Frame <= 0
  /\ next' = next + Frame
  /\ pace' = "go"
  /\ UNCHANGED <<vars, tickVars, waited, lead>>

(* Behind its schedule, the thread forgets the debt ...                     *)
PaceBehind ==
  /\ pace = "due" /\ ~VsyncFresh /\ next + Frame <= 0
  /\ next' = 0
  /\ pace' = "go"
  /\ UNCHANGED <<vars, tickVars, waited, lead>>

(* ... ahead of it, sleeps it off, ...                                      *)
PaceByClock ==
  /\ pace = "due" /\ ~VsyncFresh /\ next + Frame > 0
  /\ next' = next + Frame
  /\ pace' = "sleep"
  /\ UNCHANGED <<vars, tickVars, waited, lead>>

Awake ==
  /\ pace = "sleep" /\ next <= 0
  /\ pace' = "go"
  /\ UNCHANGED <<vars, tickVars, next, waited, lead>>

(* ... and while ticks are fresh waits for one it has not seen yet.         *)
PaceByVsync ==
  /\ pace = "due" /\ VsyncFresh
  /\ next' = next + Frame
  /\ pace' = "vsync"
  /\ UNCHANGED <<vars, tickVars, waited, lead>>

WaitEnds_OnATick ==
  /\ pace = "vsync"
  /\ stop_flag \/ ~seen
  /\ seen' = TRUE
  /\ next' = Later(-age)
  /\ waited' = 0
  /\ pace' = "go"
  /\ UNCHANGED <<vars, age, steady, lead>>

(* wait_next_vsync returns the tick's time, however old that is.            *)
WaitEnds ==
  /\ pace = "vsync"
  /\ stop_flag \/ ~seen \/ waited = TimeOut
  /\ seen' = TRUE
  /\ next' = Later(-age)
  /\ waited' = 0
  /\ pace' = "go"
  /\ UNCHANGED <<vars, age, steady, lead>>

(* apple2session_start forgets the ticks, and the new thread's schedule     *)
(* begins now.                                                              *)
ThreadStarts ==
  /\ Start
  /\ age' = Fresh /\ steady' = FALSE /\ seen' = TRUE
  /\ next' = 0 /\ lead' = 0
  /\ UNCHANGED <<pace, waited>>

PacedCalls ==
  /\ UiCall /\ emu' = emu
  /\ UNCHANGED <<tickVars, paceVars>>

UiReturns ==
  /\ UiStep
  /\ UNCHANGED <<tickVars, paceVars>>

-----------------------------------------------------------------------------
PacingInit ==
  /\ Init
  /\ pace = "go" /\ next = 0 /\ waited = 0 /\ lead = 0
  /\ age = Fresh /\ steady = FALSE /\ seen = TRUE

Thread == FrameStarts \/ FrameGoesOn \/ FrameDone
          \/ PaceBehind \/ PaceByClock \/ Awake \/ PaceByVsync \/ WaitEnds

PacingNext ==
  Clock \/ NotifyVsync \/ Thread \/ ThreadStarts \/ PacedCalls \/ UiReturns

PacingSpec == PacingInit /\ [][PacingNext]_pacedVars

(* Time passes, the emulator thread is scheduled, and calls go on to their  *)
(* end; nothing is assumed of ticks, nor of the user.                       *)
PacingLiveSpec ==
  PacingSpec /\ WF_pacedVars(Clock) /\ WF_pacedVars(Thread) /\ WF_pacedVars(UiReturns)

-----------------------------------------------------------------------------
(* "Don't accumulate debt": whatever held the machine up (the debugger, a   *)
(* slow frame, ticks that stopped) it never catches up.  After the last     *)
(* tick it gets ahead of time by no more than the frame under way, one for  *)
(* that tick and one for a schedule that had passed.                        *)
NeverCatchesUp == lead <= 3 * Frame

(* "It can never hang if the ticks stop mid-wait": the thread always gets   *)
(* back to running frames, or ends.                                         *)
FramesGoOn == emu = "top" ~> emu # "top"
=============================================================================
