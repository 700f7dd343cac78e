---------------------------- MODULE DebugEngine ----------------------------
(***************************************************************************)
(* The debugger's run control, core/debugger/debugger.c, with the part of  *)
(* session.c's frame loop that hands frames to it.  A frontend's UI thread *)
(* asks (pause, resume, step, run to, breakpoints, stop, start); the       *)
(* emulator thread executes instructions one by one while dbg_engaged and  *)
(* parks while paused.  Most fields are volatile and written without the   *)
(* mutex, so a call is two steps: one under d->mtx, one that engages.      *)
(*                                                                         *)
(* The 6502 is its PC, its SP and the kind of the instruction it executes. *)
(***************************************************************************)
EXTENDS Integers, FiniteSets

CONSTANTS
  Addrs,            (* program counter values                              *)
  Nowhere,          (* no stop was reported since the machine moved        *)
  StackTop,         (* SP with nothing pushed (it grows down to 0)         *)
  Budget,           (* instructions in a frame                             *)
  MaxBreakpoints,
  Ops,              (* the calls the UI makes, a subset of AllOps          *)
  Kinds             (* instructions it meets, a subset of AllKinds         *)

AllSteps == {"into", "over", "out"}
AllOps   == {"pause", "resume", "run_to", "bp_set", "bp_clear", "bp_clear_all",
             "stop", "start"} \cup AllSteps
AllKinds == {"jsr", "rts", "other", "jam"}

ASSUME DebugAssumption ==
  /\ Addrs # {} /\ IsFiniteSet(Addrs) /\ Nowhere \notin Addrs
  /\ StackTop \in Nat /\ Budget \in Nat \ {0} /\ MaxBreakpoints \in Nat
  /\ Ops \subseteq AllOps
  /\ Kinds \subseteq AllKinds

VARIABLES
  dbg_engaged, paused, want_pause, resume_for_stop,
  step,             (* step_into, step_over, step_out: those pending       *)
  have_run_to, run_to_addr, step_sp_target,
  bp,               (* the set of d->bp[0 .. bp_count)                     *)
  stop_flag,
  ui, engage,       (* the UI thread: what it is in the middle of, and     *)
                    (* what it goes on to pass to engage()                 *)
  emu, spent,       (* the emulator thread: where it is, cycles spent      *)
  pc, sp, jammed,   (* the 6502                                            *)
  told,             (* the PC of the last stop the callback reported, if   *)
                    (* the machine has not moved since                     *)
  call_sp           (* SP at the JSR a step over was asked for, else -1    *)

flagVars == <<paused, want_pause>>
stepVars == <<step, have_run_to, run_to_addr, step_sp_target, call_sp>>
uiVars   == <<ui, engage>>
cpuVars  == <<pc, sp, jammed>>
sesVars  == <<stop_flag, resume_for_stop>>
vars == <<flagVars, stepVars, uiVars, cpuVars, sesVars,
          dbg_engaged, bp, emu, spent, told>>

-----------------------------------------------------------------------------
(* The UI thread.  Calls that stop the machine engage first ... *)

Ask(o) == ui = "idle" /\ o \in Ops

EngageFirst_Forgets(o) ==
  /\ Ask(o)
  /\ ui' = o
  /\ UNCHANGED <<flagVars, stepVars, engage, cpuVars, sesVars, dbg_engaged, bp,
                 emu, spent, told>>

EngageFirst(o) ==
  /\ Ask(o)
  /\ dbg_engaged' = TRUE
  /\ ui' = o
  /\ UNCHANGED <<flagVars, stepVars, engage, cpuVars, sesVars, bp, emu, spent,
                 told>>

Pause == EngageFirst("pause")
RequestStep == \E which \in AllSteps : EngageFirst(which)
RunTo == EngageFirst("run_to")

PauseWanted ==
  /\ ui = "pause"
  /\ want_pause' = TRUE
  /\ ui' = "idle"
  /\ UNCHANGED <<paused, stepVars, engage, cpuVars, sesVars,
                 dbg_engaged, bp, emu, spent, told>>

StepRequested ==
  /\ ui \in AllSteps
  /\ paused' = TRUE
  /\ step' = step \cup {ui}
  /\ call_sp' = -1
  /\ ui' = "idle"
  /\ UNCHANGED <<want_pause, have_run_to, run_to_addr, step_sp_target, engage,
                 cpuVars, sesVars, dbg_engaged, bp, emu, spent, told>>

RunToRequested ==
  /\ ui = "run_to"
  /\ run_to_addr' \in Addrs
  /\ have_run_to' = TRUE
  /\ paused' = FALSE
  /\ ui' = "idle"
  /\ UNCHANGED <<want_pause, step, step_sp_target, call_sp, engage,
                 cpuVars, sesVars, dbg_engaged, bp, emu, spent, told>>

(* ... calls that let it go engage last, with what they saw under the mutex. *)

Settle ==
  /\ ui = "settle"
  /\ dbg_engaged' = engage
  /\ engage' = FALSE
  /\ ui' = "idle"
  /\ UNCHANGED <<flagVars, stepVars, cpuVars, sesVars, bp, emu, spent, told>>

Resume_Disengages ==
  /\ Ask("resume")
  /\ paused' = FALSE
  /\ want_pause' = FALSE
  /\ engage' = FALSE
  /\ ui' = "settle"
  /\ UNCHANGED <<stepVars, cpuVars, sesVars, dbg_engaged, bp, emu, spent, told>>

Resume ==
  /\ Ask("resume")
  /\ paused' = FALSE
  /\ want_pause' = FALSE
  /\ engage' = (bp # {})
  /\ ui' = "settle"
  /\ UNCHANGED <<stepVars, cpuVars, sesVars, dbg_engaged, bp, emu, spent, told>>

ChangeBreakpoints(o, changed, on) ==
  /\ Ask(o)
  /\ bp' = changed
  /\ engage' = on
  /\ ui' = "settle"
  /\ UNCHANGED <<flagVars, stepVars, cpuVars, sesVars, dbg_engaged, emu, spent,
                 told>>

SetAt_NoLimit(a) == ChangeBreakpoints("bp_set", bp \cup {a}, TRUE)

(* A full table drops the breakpoint silently. *)
SetAt(a) ==
  LET room == Cardinality(bp) < MaxBreakpoints IN
  ChangeBreakpoints("bp_set", IF room THEN bp \cup {a} ELSE bp, TRUE)

ClearAt(a) ==
  LET rest == bp \ {a} IN
  ChangeBreakpoints("bp_clear", rest, rest # {} \/ paused)

BpSet   == \E a \in Addrs : SetAt(a)
BpClear == \E a \in Addrs : ClearAt(a)
BpClearAll == ChangeBreakpoints("bp_clear_all", {}, paused)

(* apple2session_stop: raise stop_flag, release the parked thread, join. *)

Stop ==
  /\ Ask("stop")
  /\ emu # "off"
  /\ stop_flag' = TRUE
  /\ ui' = "release"
  /\ UNCHANGED <<flagVars, stepVars, engage, cpuVars, resume_for_stop,
                 dbg_engaged, bp, emu, spent, told>>

ResumeForStop ==
  /\ ui = "release"
  /\ resume_for_stop' = TRUE
  /\ ui' = "join"
  /\ UNCHANGED <<flagVars, stepVars, engage, cpuVars, stop_flag,
                 dbg_engaged, bp, emu, spent, told>>

Join ==
  /\ ui = "join"
  /\ emu = "off"
  /\ ui' = "idle"
  /\ UNCHANGED <<flagVars, stepVars, engage, cpuVars, sesVars,
                 dbg_engaged, bp, emu, spent, told>>

(* apple2session_start: the machine is new, the debugger is not. *)
Start ==
  /\ Ask("start")
  /\ emu = "off"
  /\ stop_flag' = FALSE
  /\ emu' = "top"
  /\ pc' \in Addrs
  /\ sp' = StackTop
  /\ jammed' = FALSE
  /\ told' = Nowhere
  /\ UNCHANGED <<flagVars, stepVars, ui, engage, resume_for_stop, dbg_engaged,
                 bp, spent>>

-----------------------------------------------------------------------------
(* The emulator thread: the head of session.c's loop ... *)

EmuTop ==
  /\ emu = "top"
  /\ emu' = IF stop_flag THEN "off" ELSE IF dbg_engaged THEN "loop" ELSE "core"
  /\ spent' = 0
  /\ UNCHANGED <<flagVars, stepVars, uiVars, cpuVars, sesVars, dbg_engaged, bp,
                 told>>

(* A whole frame by the host: no breakpoint is looked at. *)
CoreFrame ==
  /\ emu = "core"
  /\ pc' \in Addrs
  /\ sp' \in {s \in 0..StackTop : s % 2 = StackTop % 2}
  /\ told' = Nowhere
  /\ emu' = "top"
  /\ UNCHANGED <<flagVars, stepVars, uiVars, jammed, sesVars, dbg_engaged, bp,
                 spent>>

(* ... and apple2debug_session_frame.  The loop's head looks at stop_flag   *)
(* and takes a wanted pause: cleared here, ...                              *)
LoopHead ==
  /\ emu = "loop"
  /\ emu' = IF stop_flag THEN "top" ELSE IF want_pause THEN "pausing" ELSE "look"
  /\ want_pause' = (want_pause /\ stop_flag)
  /\ UNCHANGED <<paused, stepVars, uiVars, cpuVars, sesVars, dbg_engaged, bp,
                 spent, told>>

(* ... paused and reported in a step of its own. *)
TakePause ==
  /\ emu = "pausing"
  /\ paused' = TRUE
  /\ told' = pc
  /\ emu' = "look"
  /\ UNCHANGED <<want_pause, stepVars, uiVars, cpuVars, sesVars, dbg_engaged,
                 bp, spent>>

Asleep == paused /\ step = {} /\ ~have_run_to

Look_IgnoresRequests ==
  /\ emu = "look"
  /\ emu' = IF paused THEN "park" ELSE "execute"
  /\ UNCHANGED <<flagVars, stepVars, uiVars, cpuVars, sesVars, dbg_engaged, bp,
                 spent, told>>

Look ==
  /\ emu = "look"
  /\ emu' = IF Asleep THEN "park" ELSE "execute"
  /\ UNCHANGED <<flagVars, stepVars, uiVars, cpuVars, sesVars, dbg_engaged, bp,
                 spent, told>>

Unpark_WaitsForResume ==
  /\ emu = "park"
  /\ ~Asleep
  /\ emu' = "loop"
  /\ UNCHANGED <<flagVars, stepVars, uiVars, cpuVars, sesVars, dbg_engaged, bp,
                 spent, told>>

(* park(): woken by a broadcast, or within 100 ms by its timed wait. *)
Unpark ==
  /\ emu = "park"
  /\ ~Asleep \/ stop_flag \/ resume_for_stop
  /\ emu' = IF stop_flag \/ resume_for_stop THEN "top" ELSE "loop"
  /\ UNCHANGED <<flagVars, stepVars, uiVars, cpuVars, sesVars, dbg_engaged, bp,
                 spent, told>>

(* What a step over or out still has to reach, worked out before each       *)
(* instruction from the instruction and the stack of that moment.           *)
AimStep(kind) ==
  IF "out" \in step
    THEN step_sp_target' = sp + 2 /\ UNCHANGED step
  ELSE IF "over" \notin step
    THEN UNCHANGED <<step, step_sp_target>>
  ELSE IF kind = "jsr"
    THEN step_sp_target' = sp /\ UNCHANGED step
  ELSE step' = (step \ {"over"}) \cup {"into"} /\ UNCHANGED step_sp_target

Instruction(kind) ==
  \/ /\ jammed \/ kind = "jam"
     /\ jammed' = TRUE
     /\ UNCHANGED <<pc, sp>>
  \/ /\ ~jammed /\ kind # "jam"
     /\ pc' \in Addrs
     /\ sp' = CASE kind = "jsr" -> sp - 2
                [] kind = "rts" -> sp + 2
                [] kind = "other" -> sp
     /\ sp' \in 0..StackTop
     /\ UNCHANGED jammed

Execute ==
  /\ emu = "execute"
  /\ \E kind \in Kinds :
       /\ AimStep(kind)
       /\ Instruction(kind)
       /\ call_sp' = IF "over" \in step /\ kind = "jsr" /\ told # Nowhere
                     THEN sp ELSE call_sp
  /\ spent' = IF spent < Budget THEN spent + 1 ELSE spent
  /\ told' = Nowhere
  /\ emu' = "done"
  /\ UNCHANGED <<flagVars, uiVars, have_run_to, run_to_addr, sesVars,
                 dbg_engaged, bp>>

(* After the instruction: the first reason to stop that applies. *)

StopAndTell(pending, run_to) ==
  /\ paused' = TRUE
  /\ step' = pending
  /\ have_run_to' = run_to
  /\ told' = pc
  /\ call_sp' = -1
  /\ emu' = "loop"
  /\ UNCHANGED <<want_pause, run_to_addr, step_sp_target, uiVars, cpuVars,
                 sesVars, dbg_engaged, bp, spent>>

Unwound == step \cap {"over", "out"} # {} /\ sp >= step_sp_target
Arrived == have_run_to /\ pc = run_to_addr

Jammed   == emu = "done" /\ jammed /\ StopAndTell({}, FALSE)
IntoDone == emu = "done" /\ ~jammed /\ "into" \in step
            /\ StopAndTell(step \ {"into"}, have_run_to)
StepDone == emu = "done" /\ ~jammed /\ "into" \notin step /\ Unwound
            /\ StopAndTell({}, have_run_to)
RunToDone_Silent ==
  /\ emu = "done" /\ ~jammed /\ "into" \notin step /\ ~Unwound /\ Arrived
  /\ paused' = TRUE
  /\ have_run_to' = FALSE
  /\ emu' = "loop"
  /\ UNCHANGED <<want_pause, step, run_to_addr, step_sp_target, call_sp, uiVars,
                 cpuVars, sesVars, dbg_engaged, bp, spent, told>>
RunToDone == emu = "done" /\ ~jammed /\ "into" \notin step /\ ~Unwound /\ Arrived
             /\ StopAndTell(step, FALSE)

NothingDone ==
  /\ emu = "done"
  /\ ~jammed /\ "into" \notin step /\ ~Unwound /\ ~Arrived
  /\ emu' = "check"
  /\ UNCHANGED <<flagVars, stepVars, uiVars, cpuVars, sesVars, dbg_engaged, bp,
                 spent, told>>

(* The table is searched under the mutex. *)
BreakpointHit ==
  /\ emu = "check"
  /\ pc \in bp
  /\ StopAndTell(step \ {"over", "out"}, FALSE)

(* The frame's cycles are spent: let the session pace and publish. *)
NoBreakpoint ==
  /\ emu = "check"
  /\ pc \notin bp
  /\ emu' = IF ~paused /\ spent >= Budget THEN "top" ELSE "loop"
  /\ UNCHANGED <<flagVars, stepVars, uiVars, cpuVars, sesVars, dbg_engaged, bp,
                 spent, told>>

-----------------------------------------------------------------------------
Init ==
  /\ dbg_engaged = FALSE /\ paused = FALSE /\ want_pause = FALSE
  /\ resume_for_stop = FALSE /\ stop_flag = FALSE
  /\ step = {} /\ have_run_to = FALSE
  /\ step_sp_target = 0 /\ call_sp = -1 /\ bp = {}
  /\ ui = "idle" /\ engage = FALSE
  /\ emu = "top" /\ spent = 0
  /\ pc \in Addrs /\ sp = StackTop /\ jammed = FALSE
  /\ run_to_addr = pc        \* no matter: it is read only while have_run_to
  /\ told = Nowhere

UiStep == PauseWanted \/ StepRequested \/ RunToRequested \/ Settle
          \/ ResumeForStop \/ Join
UiCall == Pause \/ RequestStep \/ RunTo \/ Resume \/ BpSet \/ BpClear
          \/ BpClearAll \/ Stop \/ Start
Emulator == EmuTop \/ CoreFrame \/ LoopHead \/ TakePause \/ Look \/ Unpark
            \/ Execute \/ Jammed \/ IntoDone \/ StepDone \/ RunToDone
            \/ NothingDone \/ BreakpointHit \/ NoBreakpoint

Next == UiCall \/ UiStep \/ Emulator

Spec == Init /\ [][Next]_vars

(* The emulator thread is scheduled, and so is a call once it was made.     *)
LiveSpec == Spec /\ WF_vars(Emulator) /\ WF_vars(UiStep)

-----------------------------------------------------------------------------
UiSteps  == {"idle", "pause", "run_to", "settle", "release", "join"} \cup AllSteps
EmuSteps == {"off", "top", "core", "loop", "pausing", "look", "park", "execute",
             "done", "check"}

(* struct apple2debug keeps to its bounds, the breakpoint table included. *)
TypeOK ==
  /\ step \subseteq AllSteps
  /\ run_to_addr \in Addrs
  /\ step_sp_target \in 0..(StackTop + 2)
  /\ bp \subseteq Addrs /\ Cardinality(bp) <= MaxBreakpoints
  /\ ui \in UiSteps
  /\ emu \in EmuSteps /\ spent \in 0..Budget
  /\ pc \in Addrs /\ sp \in 0..StackTop
  /\ told \in Addrs \cup {Nowhere}
  /\ call_sp \in -1..StackTop
  /\ dbg_engaged \in BOOLEAN /\ paused \in BOOLEAN /\ want_pause \in BOOLEAN
  /\ resume_for_stop \in BOOLEAN /\ have_run_to \in BOOLEAN
  /\ stop_flag \in BOOLEAN /\ engage \in BOOLEAN /\ jammed \in BOOLEAN

(* Whatever the UI asked for last, a set breakpoint is looked for: frames   *)
(* go through the debugger once the call that set it has returned.          *)
BreakpointsArmed ==
  ui = "idle" /\ bp # {} => dbg_engaged

(* "Fired on the emulator thread when execution stops": when the emulator   *)
(* thread is asleep in park(), the callback has reported the very PC the    *)
(* machine stands at, whichever of the requests and races stopped it.       *)
ParkedWhereReported ==
  emu = "park" /\ Asleep /\ ~stop_flag /\ ~resume_for_stop => told = pc

(* A machine the debugger holds paused is never run as a whole frame by the *)
(* host; only a restart, which leaves resume_for_stop set, lets that go.    *)
PausedIsNotRun ==
  [][emu = "top" /\ emu' = "core" => ~paused \/ resume_for_stop]_vars

(* A step over a JSR that ends as a step ends with the call returned.       *)
StepOverReturns ==
  [][call_sp # -1 /\ (IntoDone \/ StepDone) => sp >= call_sp]_vars

(* apple2session_stop returns, paused or running. *)
StopReturns == ui = "join" ~> ui = "idle"

(* A wanted pause takes effect unless it is taken back.  Stated for a UI    *)
(* that clears no breakpoint meanwhile: clearing the last one before the    *)
(* pause is taken disengages the debugger (it looks at paused, not at       *)
(* want_pause), and the pause then waits for the next call that engages.    *)
PauseTakesEffect ==
  want_pause ~> (paused \/ ~want_pause \/ stop_flag)

(* A single step asked for is done, unless resume() disengages it first or  *)
(* the session is stopped.                                                  *)
StepIsDone ==
  "into" \in step ~> ("into" \notin step \/ ~dbg_engaged \/ stop_flag)
=============================================================================
