----------------------------- MODULE DebugProofs -----------------------------
(***************************************************************************)
(* Proofs about DebugEngine, for any addresses, stack, budget, breakpoint  *)
(* table, calls and kinds of instruction; about DebuggerWindow over it,    *)
(* for any number of windows and events on the way; and about FramePacing  *)
(* over it, for any length of a frame, time-out and age of a tick.         *)
(*                                                                         *)
(* DebugInv is inductive for the engine: what the emulator thread knows of *)
(* a pause when it is at each of its places, and what the UI thread owes   *)
(* to engage() when it is in the middle of a call.  WinInv relates what a  *)
(* window shows, and what is on its way to it, to the machine it shows.    *)
(* PaceInv relates the machine's lead on time to its schedule, the ticks   *)
(* and the waits.                                                          *)
(***************************************************************************)
EXTENDS DebuggerWindow, FramePacing, FiniteSetTheorems, TLAPS

-----------------------------------------------------------------------------
(* The engine: its inductive invariant. *)

ValuesOK ==
  /\ step \subseteq AllSteps
  /\ run_to_addr \in Addrs
  /\ step_sp_target \in 0..(StackTop + 2)
  /\ ui \in UiSteps
  /\ emu \in EmuSteps /\ spent \in 0..Budget
  /\ pc \in Addrs /\ sp \in 0..StackTop
  /\ told \in Addrs \cup {Nowhere}
  /\ call_sp \in -1..StackTop

TableOK == bp \subseteq Addrs /\ Cardinality(bp) <= MaxBreakpoints

FlagsOK ==
  /\ dbg_engaged \in BOOLEAN /\ paused \in BOOLEAN /\ want_pause \in BOOLEAN
  /\ resume_for_stop \in BOOLEAN /\ have_run_to \in BOOLEAN
  /\ stop_flag \in BOOLEAN /\ engage \in BOOLEAN /\ jammed \in BOOLEAN

(* Whether the debugger is engaged once the call under way is over. *)
EngagedAfter == IF ui = "settle" THEN engage ELSE dbg_engaged

ArmedInv ==
  /\ bp # {} => EngagedAfter
  /\ ui \in {"pause", "run_to"} \cup AllSteps => dbg_engaged

(* A stop is seen through: the thread is gone only by stop_flag, and        *)
(* resume_for_stop is up before anything else is asked.                     *)
StopInv ==
  /\ stop_flag => ui = "release" \/ resume_for_stop
  /\ ui = "join" => resume_for_stop
  /\ emu = "off" => stop_flag

Stopping == stop_flag \/ resume_for_stop

(* A machine that sleeps has reported its PC; between the loop's head and   *)
(* the next instruction it may have gone to sleep, elsewhere it has not.    *)
SleepInv ==
  ~Stopping /\ Asleep =>
    /\ emu \in {"loop", "pausing", "look", "park"}
    /\ told = pc

(* At the head of a frame, a machine that is to stay paused is engaged, and *)
(* stays so when the call under way is over.                                *)
PauseInv ==
  ~Stopping /\ paused /\ emu \in {"top", "core"} => dbg_engaged /\ EngagedAfter

DebugInv ==
  ValuesOK /\ TableOK /\ FlagsOK /\ ArmedInv /\ StopInv /\ SleepInv /\ PauseInv

USE DEF AllSteps, AllOps, AllKinds, UiSteps, EmuSteps, flagVars, stepVars,
        uiVars, cpuVars, sesVars

-----------------------------------------------------------------------------
(* The breakpoint table. *)

(* A table within its bounds is a finite set. *)
LEMMA TableIsFinite == TableOK => IsFiniteSet(bp) /\ Cardinality(bp) \in Nat
BY FS_Subset, FS_CardinalityType, DebugAssumption DEF TableOK

(* Setting a breakpoint keeps the table within its bounds ... *)
LEMMA SetKeepsTable ==
  ASSUME TableOK, NEW a \in Addrs, SetAt(a)
  PROVE  TableOK'
<1>1. IsFiniteSet(bp) /\ Cardinality(bp) \in Nat
  BY TableIsFinite
<1>2. Cardinality(bp \cup {a}) <= Cardinality(bp) + 1
  BY <1>1, FS_AddElement
<1>3. Cardinality(bp \cup {a}) \in Nat
  BY <1>1, FS_AddElement, FS_CardinalityType
<1> QED
  BY <1>1, <1>2, <1>3, DebugAssumption DEF TableOK, SetAt, ChangeBreakpoints

(* ... and so does clearing one. *)
LEMMA ClearKeepsTable ==
  ASSUME TableOK, NEW a \in Addrs, ClearAt(a)
  PROVE  TableOK'
<1>1. IsFiniteSet(bp) /\ Cardinality(bp) \in Nat
  BY TableIsFinite
<1>2. IsFiniteSet(bp \ {a}) /\ Cardinality(bp \ {a}) <= Cardinality(bp)
  BY <1>1, FS_Subset
<1>3. Cardinality(bp \ {a}) \in Nat
  BY <1>2, FS_CardinalityType
<1> QED
  BY <1>1, <1>2, <1>3, DebugAssumption DEF TableOK, ClearAt, ChangeBreakpoints

-----------------------------------------------------------------------------
(* A debugger just created satisfies the invariant. *)
LEMMA InitInv == Init => DebugInv
<1> SUFFICES ASSUME Init PROVE DebugInv
  OBVIOUS
<1> USE DebugAssumption DEF Init
<1>1. ValuesOK
  BY DEF ValuesOK
<1>2. TableOK
  BY FS_EmptySet DEF TableOK
<1>3. FlagsOK
  BY Zenon DEF FlagsOK
<1>4. ArmedInv /\ StopInv /\ SleepInv /\ PauseInv
  BY DEF ArmedInv, EngagedAfter, StopInv, SleepInv, Stopping, Asleep, PauseInv
<1> QED
  BY <1>1, <1>2, <1>3, <1>4 DEF DebugInv

(* A stop, whatever its reason, is reported where the machine stands. *)
LEMMA StopAndTellInv ==
  ASSUME DebugInv, emu \in {"done", "check"},
         NEW pending \in SUBSET AllSteps, NEW r \in BOOLEAN,
         StopAndTell(pending, r)
  PROVE  DebugInv'
<1> USE DebugAssumption DEF DebugInv, ValuesOK, FlagsOK, ArmedInv, StopInv,
        SleepInv, PauseInv, EngagedAfter, Stopping, Asleep, StopAndTell
<1>1. ValuesOK'
  OBVIOUS
<1>2. TableOK'
  BY DEF TableOK
<1>3. FlagsOK'
  OBVIOUS
<1>4. ArmedInv' /\ StopInv' /\ SleepInv' /\ PauseInv'
  OBVIOUS
<1> QED
  BY <1>1, <1>2, <1>3, <1>4

(* No step of the UI thread or of the emulator thread breaks it. *)
LEMMA StepInv == DebugInv /\ [Next]_vars => DebugInv'
<1> SUFFICES ASSUME DebugInv, [Next]_vars PROVE DebugInv'
  OBVIOUS
<1> USE DebugAssumption DEF DebugInv, ValuesOK, FlagsOK, ArmedInv, StopInv,
        SleepInv, PauseInv, EngagedAfter, Stopping, Asleep
<1>1. ASSUME NEW o \in {"pause", "run_to"} \cup AllSteps, EngageFirst(o) PROVE DebugInv'
  BY <1>1 DEF EngageFirst, Ask, TableOK
<1>2. CASE Resume
  BY <1>2 DEF Resume, Ask, TableOK
<1>3. ASSUME NEW a \in Addrs, SetAt(a) PROVE DebugInv'
  <2>1. TableOK'
    BY <1>3, SetKeepsTable
  <2> QED
    BY <1>3, <2>1 DEF SetAt, ChangeBreakpoints, Ask
<1>4. ASSUME NEW a \in Addrs, ClearAt(a) PROVE DebugInv'
  <2>1. TableOK'
    BY <1>4, ClearKeepsTable
  <2> QED
    BY <1>4, <2>1 DEF ClearAt, ChangeBreakpoints, Ask
<1>5. CASE BpClearAll
  <2>1. TableOK'
    BY <1>5, FS_EmptySet DEF BpClearAll, ChangeBreakpoints, TableOK
  <2> QED
    BY <1>5, <2>1 DEF BpClearAll, ChangeBreakpoints, Ask
<1>6. CASE Stop
  BY <1>6 DEF Stop, Ask, TableOK
<1>7. CASE Start
  <2> USE <1>7 DEF Start, Ask
  <2>1. ValuesOK'
    OBVIOUS
  <2>2. TableOK'
    BY DEF TableOK
  <2>3. FlagsOK'
    OBVIOUS
  <2>4. ArmedInv' /\ StopInv' /\ SleepInv' /\ PauseInv'
    OBVIOUS
  <2> QED
    BY <2>1, <2>2, <2>3, <2>4
<1>8. CASE PauseWanted
  BY <1>8 DEF PauseWanted, TableOK
<1>9. CASE StepRequested
  BY <1>9 DEF StepRequested, TableOK
<1>10. CASE RunToRequested
  BY <1>10 DEF RunToRequested, TableOK
<1>11. CASE Settle
  BY <1>11 DEF Settle, TableOK
<1>12. CASE ResumeForStop
  BY <1>12 DEF ResumeForStop, TableOK
<1>13. CASE Join
  BY <1>13 DEF Join, TableOK
<1>14. CASE EmuTop
  BY <1>14 DEF EmuTop, TableOK
<1>15. CASE CoreFrame
  BY <1>15 DEF CoreFrame, TableOK
<1>16. CASE LoopHead
  BY <1>16 DEF LoopHead, TableOK
<1>17. CASE TakePause
  BY <1>17 DEF TakePause, TableOK
<1>18. CASE Look
  BY <1>18 DEF Look, TableOK
<1>19. CASE Unpark
  BY <1>19 DEF Unpark, TableOK
<1>20. CASE Execute
  <2>1. PICK kind \in Kinds : AimStep(kind) /\ Instruction(kind)
    BY <1>20 DEF Execute
  <2> USE <1>20, <2>1 DEF Execute
  <2>2. step' \subseteq AllSteps /\ (step # {} => step' # {})
    BY DEF AimStep
  <2>3. step_sp_target' \in 0..(StackTop + 2)
    BY DEF AimStep
  <2>4. pc' \in Addrs /\ sp' \in 0..StackTop /\ jammed' \in BOOLEAN
    BY DEF Instruction
  <2>5. call_sp' \in -1..StackTop
    OBVIOUS
  <2>6. ValuesOK'
    BY <2>2, <2>3, <2>4, <2>5
  <2>7. TableOK'
    BY DEF TableOK
  <2>8. FlagsOK'
    BY <2>4
  <2>9. ~Asleep \/ Stopping
    OBVIOUS
  <2>10. ArmedInv' /\ StopInv' /\ SleepInv' /\ PauseInv'
    BY <2>2, <2>9
  <2> QED
    BY <2>6, <2>7, <2>8, <2>10
<1>21. CASE Jammed
  BY <1>21, StopAndTellInv DEF Jammed
<1>22. CASE IntoDone
  BY <1>22, StopAndTellInv DEF IntoDone
<1>23. CASE StepDone
  BY <1>23, StopAndTellInv DEF StepDone
<1>24. CASE RunToDone
  BY <1>24, StopAndTellInv DEF RunToDone
<1>25. CASE NothingDone
  BY <1>25 DEF NothingDone, TableOK
<1>26. CASE BreakpointHit
  BY <1>26, StopAndTellInv DEF BreakpointHit
<1>27. CASE NoBreakpoint
  BY <1>27 DEF NoBreakpoint, TableOK
<1>28. CASE UNCHANGED vars
  BY <1>28 DEF vars, TableOK
<1> QED
  BY <1>1, <1>2, <1>3, <1>4, <1>5, <1>6, <1>7, <1>8, <1>9, <1>10, <1>11,
     <1>12, <1>13, <1>14, <1>15, <1>16, <1>17, <1>18, <1>19, <1>20, <1>21,
     <1>22, <1>23, <1>24, <1>25, <1>26, <1>27, <1>28
  DEF Next, UiCall, UiStep, Emulator, Pause, RequestStep, RunTo, BpSet, BpClear

(* Holds in every reachable state. *)
THEOREM DebugInvariant == Spec => []DebugInv
  BY InitInv, StepInv, PTL DEF Spec
-----------------------------------------------------------------------------
(* struct apple2debug keeps to its bounds, whatever is asked of it and when. *)
THEOREM TypeCorrect == Spec => []TypeOK
<1>1. DebugInv => TypeOK
  BY DEF DebugInv, ValuesOK, TableOK, FlagsOK, TypeOK
<1> QED
  BY <1>1, DebugInvariant, PTL

(* A breakpoint that is set is looked for once the call that set it has     *)
(* returned, although engage() is applied outside the mutex.                *)
THEOREM Armed == Spec => []BreakpointsArmed
<1>1. DebugInv => BreakpointsArmed
  BY DEF DebugInv, ArmedInv, EngagedAfter, BreakpointsArmed
<1> QED
  BY <1>1, DebugInvariant, PTL

(* A machine asleep in park() has reported the PC it stands at, whichever   *)
(* request, race or reason put it to sleep.                                 *)
THEOREM Reported == Spec => []ParkedWhereReported
<1>1. DebugInv => ParkedWhereReported
  BY DEF DebugInv, SleepInv, Stopping, ParkedWhereReported
<1> QED
  BY <1>1, DebugInvariant, PTL

(* The host never runs a whole frame of a machine the debugger has paused,  *)
(* short of a restart.                                                      *)
THEOREM PausedStays == Spec => PausedIsNotRun
<1>1. DebugInv /\ [Next]_vars
        => [emu = "top" /\ emu' = "core" => ~paused \/ resume_for_stop]_vars
  <2> SUFFICES ASSUME DebugInv, Next, emu = "top", emu' = "core"
               PROVE  ~paused \/ resume_for_stop
    BY DEF vars
  <2>1. EmuTop
    BY DEF Next, UiCall, UiStep, Emulator, Pause, RequestStep, RunTo, Resume,
           BpSet, SetAt, BpClear, ClearAt, BpClearAll, ChangeBreakpoints, Stop,
           Start, EngageFirst, PauseWanted, StepRequested, RunToRequested,
           Settle, ResumeForStop, Join, CoreFrame, LoopHead, TakePause, Look,
           Unpark, Execute, Jammed, IntoDone, StepDone, RunToDone, NothingDone,
           BreakpointHit, NoBreakpoint, StopAndTell
  <2>2. ~stop_flag /\ ~dbg_engaged
    BY <2>1 DEF EmuTop
  <2> QED
    BY <2>2 DEF DebugInv, PauseInv, Stopping
<1> QED
  BY <1>1, DebugInvariant, PTL DEF Spec, PausedIsNotRun

-----------------------------------------------------------------------------
(* The window: its inductive invariant. *)

Events == [to : Nat \ {0}, pc : Addrs]

WinValues ==
  /\ kit \in AllKits
  /\ win \in {"none", "open", "hidden"} /\ made \in Nat
  /\ act \in {"idle", "ran", "toggled", "opened", "closing"}
  /\ call \in {NoCall} \cup Events /\ mail \in Seq(Events)
  /\ shown \in [button : {"Pause", "Continue"},
                status : Addrs \cup {"Running"},
                regs   : Addrs \cup {Nowhere},
                disasm : [at : Addrs \cup {Nowhere}, marks : SUBSET Addrs],
                mem    : Addrs \cup {Nowhere}]

(* The callback is the live window's, from its opening to its closing.      *)
HookInv ==
  /\ cb \in {0, made}
  /\ win # "none" => made # 0
  /\ win # "none" /\ act # "closing" => cb = made
  /\ act # "idle" => win = "open"

(* The last word on its way from the emulator thread to the UI thread.      *)
LastWord == IF call # NoCall THEN call
            ELSE IF mail # <<>> THEN mail[Len(mail)] ELSE NoCall

(* For a live window, nothing for a dead one is behind what is for it.      *)
OrderInv ==
  /\ call.to <= made
  /\ \A i \in 1..Len(mail) :
       /\ mail[i].to <= made
       /\ win # "none" /\ mail[i].to = made => LastWord.to = made

Sleeping == ~Stopping /\ Asleep
Told     == LastWord # NoCall /\ LastWord.to = made

(* Of a machine that sleeps, the last word to the window is the right one,  *)
LastInv ==
  Sleeping /\ win # "none" /\ act # "closing" /\ Told => LastWord.pc = pc

ShowsThePc ==
  /\ shown.button = "Continue"
  /\ shown.status \in {pc, "Running"}
  /\ shown.regs = pc /\ shown.mem = pc /\ shown.disasm.at = pc

(* and with no word on its way the window shows it already.                 *)
ShownInv ==
  Sleeping /\ win # "none" /\ act \notin {"opened", "closing"} /\ ~Told
    => ShowsThePc

OpenedInv == act = "opened" => shown = Blank /\ follow

MarksInv ==
  win # "none" /\ act \notin {"toggled", "opened"} => shown.disasm.marks = bp

(* With no window open, the UI thread is at most letting go.                *)
LetGoInv ==
  win # "open" =>
    /\ bp = {} => ~EngagedAfter
    /\ ui \in {"idle", "settle", "release", "join"}

(* No session is started again here: one that is being stopped stays so.    *)
OverInv ==
  (resume_for_stop => stop_flag) /\ (ui \in {"release", "join"} => stop_flag)

WinInv ==
  /\ WinValues /\ HookInv /\ OrderInv /\ LastInv /\ ShownInv /\ OpenedInv
  /\ MarksInv /\ LetGoInv /\ OverInv

-----------------------------------------------------------------------------
(* The engine under the window. *)

USE DEF frameVars, wireVars, viewVars, winVars

UiCalls == Pause \/ RequestStep \/ Resume \/ Stop
           \/ \E a \in Addrs : SetAt(a) \/ ClearAt(a)

(* Only a report puts the machine to sleep, and asleep it does not move.    *)
LEMMA SleepByReport ==
  ASSUME DebugInv, UiCalls \/ UiStep \/ Works
  PROVE  Sleeping' => Sleeping /\ pc' = pc
<1> USE DebugAssumption DEF Sleeping, Stopping, Asleep
<1>1. CASE UiCalls
  BY <1>1 DEF UiCalls, Pause, RequestStep, EngageFirst, Resume, Stop, SetAt,
              ClearAt, ChangeBreakpoints, Ask
<1>2. CASE UiStep
  BY <1>2 DEF UiStep, PauseWanted, StepRequested, RunToRequested, Settle,
              ResumeForStop, Join
<1>3. CASE Execute \/ CoreFrame
  BY <1>3 DEF Execute, AimStep, CoreFrame, DebugInv, SleepInv
<1>4. CASE Works /\ ~(Execute \/ CoreFrame)
  BY <1>4 DEF Works, EmuTop, LoopHead, Look, Unpark, NothingDone, NoBreakpoint
<1> QED
  BY <1>1, <1>2, <1>3, <1>4

(* A report leaves the PC, the table and the UI thread where they are, ...  *)
LEMMA ReportEffect ==
  ASSUME Reports
  PROVE  UNCHANGED <<pc, bp, uiVars, sesVars, dbg_engaged>>
BY DEF Reports, TakePause, Jammed, IntoDone, StepDone, RunToDone,
       BreakpointHit, StopAndTell

(* ... and so does all else of the emulator thread, but for the PC.         *)
LEMMA WorksEffect ==
  ASSUME Works
  PROVE  UNCHANGED <<bp, uiVars, sesVars, dbg_engaged>>
BY DEF Works, EmuTop, CoreFrame, LoopHead, Look, Unpark, Execute, NothingDone,
       NoBreakpoint

(* A window's step is one the engine allows: a call, a step of one of the   *)
(* two threads, or none.                                                    *)
LEMMA WindowStep == [WinNext]_allVars => [Next]_vars
<1> SUFFICES ASSUME [WinNext]_allVars PROVE [Next]_vars
  OBVIOUS
<1> USE DEF Next, UiCall, Emulator
<1>1. CASE Press
  BY <1>1 DEF Press, OnRun, OnStep, OnRow, OpenOrClose, GnomeOpen, KdeOpen,
     WindowsOpen, MacOpen, MacPresent, GnomeClose, KdeClose, WindowsClose,
     MacClose, SessionStops, Open, Unhook, BpSet, BpClear
<1>2. CASE Handle
  BY <1>2 DEF Handle, Returns, Ran, Toggled, Opened, CloseResumes, OnStopped
<1>3. CASE Tick
  BY <1>3 DEF Tick, WindowsTick, MacTick
<1>4. CASE EmulatorThread
  BY <1>4 DEF EmulatorThread, EmuReports, EmuWorks, Trampoline, GnomeOnStop,
     KdeTrampoline, WindowsTrampoline, MacTrampoline, Posts, Reaches, Reports,
     Works
<1>5. CASE UNCHANGED allVars
  BY <1>5 DEF allVars
<1> QED
  BY <1>1, <1>2, <1>3, <1>4, <1>5 DEF WinNext

(* The engine under a debugger window behaves as the engine alone.          *)
THEOREM EngineUnderWindow == WinSpec => Spec
<1>1. WinInit => Init
  BY DEF WinInit
<1> QED
  BY <1>1, WindowStep, PTL DEF WinSpec, Spec

-----------------------------------------------------------------------------
(* Before a window is opened, nothing is shown and nothing on its way.      *)
LEMMA WinInitInv == WinInit => WinInv
<1> SUFFICES ASSUME WinInit PROVE WinInv
  OBVIOUS
<1> USE DEF WinInit
<1>1. WinValues
  BY WindowAssumption DEF WinValues, NoCall, Blank
<1>2. OrderInv
  BY DEF OrderInv, NoCall
<1>3. HookInv /\ LastInv /\ ShownInv /\ OpenedInv /\ MarksInv
  BY DEF HookInv, LastInv, ShownInv, OpenedInv, MarksInv
<1>4. LetGoInv /\ OverInv
  BY DEF Init, LetGoInv, OverInv, EngagedAfter
<1> QED
  BY <1>1, <1>2, <1>3, <1>4 DEF WinInv

-----------------------------------------------------------------------------
(* The wire. *)

(* Nothing is sent and nothing taken: the last word is the same.            *)
LEMMA WireKept ==
  ASSUME UNCHANGED <<call, mail, made>>, win' # "none" => win # "none"
  PROVE  UNCHANGED <<LastWord, Told>> /\ (OrderInv => OrderInv')
BY DEF LastWord, Told, OrderInv

(* What is on the wire are events, of windows that were made.               *)
LEMMA WordsAreEvents ==
  ASSUME WinValues
  PROVE  /\ call.to \in Nat
         /\ mail # <<>> => mail[Len(mail)] \in Events /\ mail[Len(mail)] # NoCall
         /\ \A i \in 1..Len(mail) : mail[i] \in Events /\ mail[i].to \in Nat
<1>1. call.to \in Nat
  BY DEF WinValues, Events, NoCall
<1>2. ASSUME NEW i \in 1..Len(mail) PROVE mail[i] \in Events
  BY <1>2 DEF WinValues
<1>3. \A e \in Events : e.to \in Nat /\ e # NoCall
  BY DEF Events, NoCall
<1>4. mail # <<>> => Len(mail) \in 1..Len(mail)
  BY DEF WinValues
<1> QED
  BY <1>1, <1>2, <1>3, <1>4

(* Taking the first of several leaves the last word what it is.             *)
LEMMA FirstTaken ==
  ASSUME WinValues, OrderInv, mail # <<>>, mail' = Tail(mail),
         UNCHANGED <<call, made, win>>
  PROVE  /\ mail' \in Seq(Events) /\ OrderInv'
         /\ IF Len(mail) = 1 THEN mail' = <<>> /\ LastWord' = call
            ELSE mail' # <<>> /\ LastWord' = LastWord
<1>1. /\ mail \in Seq(Events) /\ Len(mail) \in Nat \ {0}
      /\ mail' \in Seq(Events) /\ Len(mail') = Len(mail) - 1
      /\ \A i \in 1..Len(mail') : mail'[i] = mail[i + 1]
  BY DEF WinValues
<1>2. CASE Len(mail) = 1
  BY <1>1, <1>2 DEF LastWord, OrderInv
<1>3. CASE Len(mail) # 1
  <2>1. mail' # <<>> /\ mail'[Len(mail')] = mail[Len(mail)]
    <3>1. Len(mail') \in 1..Len(mail') /\ Len(mail') + 1 = Len(mail)
      BY <1>1, <1>3
    <3>2. mail'[Len(mail')] = mail[Len(mail') + 1]
      BY <1>1, <3>1, Zenon
    <3>3. mail' # <<>>
      BY <1>1, <1>3
    <3> QED
      BY <3>1, <3>2, <3>3
  <2>2. LastWord' = LastWord
    BY <2>1 DEF LastWord
  <2> QED
    BY <1>1, <1>3, <2>1, <2>2 DEF OrderInv
<1> QED
  BY <1>1, <1>2, <1>3

-----------------------------------------------------------------------------
(* Every step of the window, of the machine and between them keeps it.      *)
LEMMA WinStepInv == DebugInv /\ WinInv /\ [WinNext]_allVars => WinInv'
<1> SUFFICES ASSUME DebugInv, WinInv, [WinNext]_allVars PROVE WinInv'
  OBVIOUS
<1> USE DEF WinInv, HookInv, LastInv, ShownInv, OpenedInv, MarksInv, LetGoInv,
            OverInv, EngagedAfter, ShowsThePc
<1>0. pc \in Addrs /\ bp \subseteq Addrs /\ ui \in UiSteps
  BY DEF DebugInv, ValuesOK, TableOK
<1> USE <1>0
<1>1. CASE OnRun
  <2>1. OrderInv' /\ UNCHANGED <<LastWord, Told>>
    BY <1>1, WireKept DEF OnRun
  <2>2. Sleeping' => Sleeping /\ pc' = pc
    BY <1>1, SleepByReport DEF OnRun, UiCalls
  <2>3. WinValues'
    BY <1>1 DEF OnRun, WinValues
  <2> QED
    BY <1>1, <2>1, <2>2, <2>3
       DEF OnRun, User, Free, Resume, Pause, EngageFirst, Ask
<1>2. CASE Ran
  <2>1. OrderInv' /\ UNCHANGED <<LastWord, Told, Sleeping>>
    BY <1>2, WireKept DEF Ran, vars, Sleeping, Stopping, Asleep
  <2>2. WinValues'
    BY <1>2 DEF Ran, WinValues, RefreshAll, RenderRegs, RenderMem, RenderDisasm
  <2> QED
    BY <1>2, <2>1, <2>2
       DEF Ran, RefreshAll, RenderRegs, RenderMem, RenderDisasm, vars, WinValues,
           Sleeping, Asleep
<1>3. CASE OnStep
  <2>1. OrderInv' /\ UNCHANGED <<LastWord, Told>>
    BY <1>3, WireKept DEF OnStep
  <2>2. Sleeping' => Sleeping /\ pc' = pc
    BY <1>3, SleepByReport DEF OnStep, UiCalls
  <2>3. WinValues'
    BY <1>3 DEF OnStep, WinValues
  <2> QED
    BY <1>3, <2>1, <2>2, <2>3
       DEF OnStep, User, Free, RequestStep, EngageFirst, Ask
<1>4. CASE OnRow
  <2>1. OrderInv' /\ UNCHANGED <<LastWord, Told>>
    BY <1>4, WireKept DEF OnRow
  <2>2. Sleeping' => Sleeping /\ pc' = pc
    BY <1>4, SleepByReport DEF OnRow, UiCalls
  <2>3. WinValues'
    BY <1>4 DEF OnRow, WinValues
  <2> QED
    BY <1>4, <2>1, <2>2, <2>3
       DEF OnRow, User, Free, SetAt, ClearAt, ChangeBreakpoints, Ask
<1>5. CASE Toggled
  <2>1. OrderInv' /\ UNCHANGED <<LastWord, Told, Sleeping>>
    BY <1>5, WireKept DEF Toggled, vars, Sleeping, Stopping, Asleep
  <2>2. WinValues'
    BY <1>5 DEF Toggled, WinValues, RenderDisasm
  <2> QED
    BY <1>5, <2>1, <2>2 DEF Toggled, RenderDisasm, vars, WinValues
<1>6. CASE WindowsTick \/ MacTick
  <2>1. OrderInv' /\ UNCHANGED <<LastWord, Told, Sleeping>>
    BY <1>6, WireKept DEF WindowsTick, MacTick, vars, Sleeping, Stopping, Asleep
  <2>2. WinValues'
    BY <1>6 DEF WindowsTick, MacTick, WinValues, RenderRegs
  <2> QED
    BY <1>6, <2>1, <2>2
       DEF WindowsTick, MacTick, RenderRegs, vars, WinValues, Sleeping, Asleep,
           Free
<1>7. ASSUME NEW k \in AllKits, Open(k) PROVE WinInv'
  <2>1. WinValues'
    BY <1>7 DEF Open, WinValues, Blank
  <2>2. OrderInv'
    <3>1. made \in Nat /\ made' = made + 1 /\ UNCHANGED <<call, mail>>
      BY <1>7 DEF Open, WinValues
    <3>2. call.to \in Nat /\ \A i \in 1..Len(mail) : mail[i].to \in Nat
      BY WordsAreEvents
    <3> QED
      BY <3>1, <3>2 DEF OrderInv
  <2> QED
    BY <1>7, <2>1, <2>2
       DEF Open, Pause, EngageFirst, Ask, WinValues, Events, NoCall, Told,
           LastWord, OrderInv
<1>8. CASE Opened
  <2>1. OrderInv' /\ UNCHANGED <<LastWord, Told, Sleeping>>
    BY <1>8, WireKept DEF Opened, vars, Sleeping, Stopping, Asleep
  <2>2. WinValues'
    BY <1>8 DEF Opened, WinValues, RefreshAll, RenderRegs, RenderMem,
       RenderDisasm
  <2> QED
    BY <1>8, <2>1, <2>2
       DEF Opened, RefreshAll, RenderRegs, RenderMem, RenderDisasm, vars, Blank,
           WinValues, Sleeping, Asleep
<1>9. CASE MacPresent
  <2>1. OrderInv' /\ UNCHANGED <<LastWord, Told, Sleeping>>
    BY <1>9, WireKept DEF MacPresent, vars, Sleeping, Stopping, Asleep
  <2> QED
    BY <1>9, <2>1 DEF MacPresent, vars, Free, WinValues
<1>10. ASSUME NEW k \in AllKits, Unhook(k) PROVE WinInv'
  <2>1. OrderInv' /\ UNCHANGED <<LastWord, Told, Sleeping>>
    BY <1>10, WireKept DEF Unhook, vars, Sleeping, Stopping, Asleep
  <2> QED
    BY <1>10, <2>1 DEF Unhook, vars, Free, WinValues
<1>11. CASE CloseResumes
  <2>1. OrderInv'
    BY <1>11, WireKept DEF CloseResumes
  <2>2. WinValues'
    BY <1>11 DEF CloseResumes, WinValues, Blank
  <2> QED
    BY <1>11, <2>1, <2>2 DEF CloseResumes, Resume, Ask
<1>12. CASE MacClose
  <2>1. OrderInv' /\ UNCHANGED <<LastWord, Told>>
    BY <1>12, WireKept DEF MacClose
  <2>2. Sleeping' => Sleeping /\ pc' = pc
    BY <1>12, SleepByReport DEF MacClose, UiCalls
  <2>3. WinValues'
    BY <1>12 DEF MacClose, WinValues
  <2> QED
    BY <1>12, <2>1, <2>2, <2>3 DEF MacClose, Free, Resume, Ask
<1>13. CASE SessionStops
  <2>1. OrderInv' /\ UNCHANGED <<LastWord, Told>>
    BY <1>13, WireKept DEF SessionStops
  <2>2. Sleeping' => Sleeping /\ pc' = pc
    BY <1>13, SleepByReport DEF SessionStops, UiCalls
  <2>3. WinValues'
    BY <1>13 DEF SessionStops, WinValues
  <2> QED
    BY <1>13, <2>1, <2>2, <2>3 DEF SessionStops, Stop, Ask
<1>14. CASE Returns
  <2>1. OrderInv' /\ UNCHANGED <<LastWord, Told>>
    BY <1>14, WireKept DEF Returns
  <2>2. Sleeping' => Sleeping /\ pc' = pc
    BY <1>14, SleepByReport DEF Returns
  <2>3. WinValues'
    BY <1>14 DEF Returns, WinValues
  <2> QED
    BY <1>14, <2>1, <2>2, <2>3
       DEF Returns, UiStep, PauseWanted, StepRequested, RunToRequested, Settle,
           ResumeForStop, Join
<1>15. CASE EmuReports
  <2>1. UNCHANGED <<pc, bp, uiVars, sesVars, dbg_engaged>>
    BY <1>15, ReportEffect DEF EmuReports
  <2>2. WinValues'
    BY <1>15 DEF EmuReports, WinValues, Events, HookInv
  <2>3. CASE cb = 0
    <3>1. OrderInv' /\ UNCHANGED <<LastWord, Told>>
      BY <1>15, <2>3, WireKept DEF EmuReports
    <3> QED
      BY <1>15, <2>1, <2>2, <2>3, <3>1 DEF EmuReports
  <2>4. CASE cb # 0
    <3>1. call' = [to |-> made, pc |-> pc] /\ made \in Nat
      BY <1>15, <2>4 DEF EmuReports, WinValues
    <3>2. LastWord' = call' /\ call' # NoCall /\ Told'
      BY <1>15, <3>1, DebugAssumption DEF EmuReports, LastWord, NoCall, Told
    <3>3. OrderInv'
      BY <1>15, <3>1, <3>2 DEF EmuReports, OrderInv
    <3> QED
      BY <1>15, <2>1, <2>2, <2>4, <3>1, <3>2, <3>3 DEF EmuReports
  <2> QED
    BY <2>3, <2>4
<1>16. CASE EmuWorks
  <2>1. OrderInv' /\ UNCHANGED <<LastWord, Told>>
    BY <1>16, WireKept DEF EmuWorks
  <2>2. Sleeping' => Sleeping /\ pc' = pc
    BY <1>16, SleepByReport DEF EmuWorks
  <2>3. UNCHANGED <<bp, uiVars, sesVars, dbg_engaged>>
    BY <1>16, WorksEffect DEF EmuWorks
  <2>4. WinValues'
    BY <1>16 DEF EmuWorks, WinValues
  <2> QED
    BY <1>16, <2>1, <2>2, <2>3, <2>4 DEF EmuWorks
<1>17. ASSUME NEW k \in AllKits, Posts(k) PROVE WinInv'
  <2>1. WinValues' /\ mail' = Append(mail, call) /\ call' = NoCall
    BY <1>17 DEF Posts, WinValues
  <2>2. UNCHANGED <<LastWord, Told>>
    BY <1>17, <2>1 DEF Posts, LastWord, Told, WinValues
  <2>3. OrderInv'
    BY <1>17, <2>1, <2>2 DEF Posts, OrderInv, LastWord, WinValues, NoCall
  <2>4. UNCHANGED Sleeping
    BY <1>17 DEF Posts, vars, Sleeping, Stopping, Asleep
  <2> QED
    BY <1>17, <2>1, <2>2, <2>3, <2>4 DEF Posts, vars
<1>18. ASSUME NEW k \in AllKits, Reaches(k) PROVE WinInv'
  <2>1. UNCHANGED Sleeping
    BY <1>18 DEF Reaches, vars, Sleeping, Stopping, Asleep
  <2>2. CASE Alive(call.to)
    <3>1. WinValues' /\ mail' = Append(mail, call) /\ call' = NoCall
      BY <1>18, <2>2 DEF Reaches, WinValues
    <3>2. UNCHANGED <<LastWord, Told>>
      BY <1>18, <3>1 DEF Reaches, LastWord, Told, WinValues
    <3>3. OrderInv'
      BY <1>18, <3>1, <3>2 DEF Reaches, OrderInv, LastWord, WinValues, NoCall
    <3> QED
      BY <1>18, <2>1, <3>1, <3>2, <3>3 DEF Reaches, vars
  <2>3. CASE ~Alive(call.to)
    <3>1. WinValues' /\ mail' = mail /\ call' = NoCall
      BY <1>18, <2>3 DEF Reaches, WinValues
    <3>2. win # "none" => ~Told
      BY <1>18, <2>3 DEF Reaches, Alive, Told, LastWord
    <3>3. win # "none" => ~Told'
      BY <1>18, <3>1, <3>2 DEF Reaches, OrderInv, LastWord, Told, WinValues
    <3>4. OrderInv'
      <4>1. UNCHANGED <<win, made>> /\ NoCall.to = 0 /\ made \in Nat
        BY <1>18 DEF Reaches, NoCall, WinValues
      <4>2. win # "none" => LastWord.to # made
        BY <1>18, <2>3 DEF Reaches, Alive, LastWord
      <4> QED
        BY <3>1, <4>1, <4>2 DEF OrderInv
    <3> QED
      BY <1>18, <2>1, <3>1, <3>2, <3>3, <3>4 DEF Reaches, vars
  <2> QED
    BY <2>2, <2>3
<1>19. CASE OnStopped
  <2>1. UNCHANGED Sleeping
    BY <1>19 DEF OnStopped, vars, Sleeping, Stopping, Asleep
  <2>2. /\ mail # <<>> /\ mail' = Tail(mail) /\ Head(mail) = mail[1]
        /\ 1 \in 1..Len(mail) /\ mail[1] \in Events
        /\ UNCHANGED <<vars, frameVars, cb, call, act>>
    BY <1>19, WordsAreEvents DEF OnStopped, WinValues
  <2>3. /\ mail' \in Seq(Events) /\ OrderInv'
        /\ IF Len(mail) = 1 THEN mail' = <<>> /\ LastWord' = call
           ELSE mail' # <<>> /\ LastWord' = LastWord
    BY <2>2, FirstTaken
  <2>4. CASE Alive(Head(mail).to)
    <3>1. shown' = [button |-> IF paused THEN "Continue" ELSE "Pause",
                    status |-> mail[1].pc, regs |-> pc,
                    disasm |-> [at |-> pc, marks |-> bp], mem |-> pc]
          /\ ~follow' /\ mail[1].pc \in Addrs
      BY <1>19, <2>2, <2>4
         DEF OnStopped, RefreshAll, RenderRegs, RenderMem, RenderDisasm, Events
    <3>2. WinValues'
      BY <2>2, <2>3, <3>1 DEF WinValues
    <3>3. Told /\ (~Told' => LastWord = mail[1])
      <4>1. LastWord.to = made
        BY <2>2, <2>4 DEF OrderInv, Alive
      <4>2. LastWord # NoCall
        BY <2>2, WordsAreEvents DEF LastWord
      <4>3. Len(mail) = 1 /\ call = NoCall => LastWord = mail[1]
        BY <2>2 DEF LastWord
      <4>4. Len(mail) # 1 => Told'
        BY <2>2, <2>3, <4>1, <4>2 DEF Told, frameVars
      <4>5. Len(mail) = 1 /\ call # NoCall => Told'
        BY <2>2, <2>3, <4>1 DEF Told, LastWord, frameVars
      <4> QED
        BY <4>1, <4>2, <4>3, <4>4, <4>5 DEF Told
    <3>4. Told' => LastWord' = LastWord
      BY <2>2, <2>3 DEF Told, LastWord
    <3>5. ShownInv'
      BY <2>1, <2>2, <3>1, <3>3 DEF vars, Sleeping, Asleep
    <3>6. LastInv' /\ HookInv'
      BY <2>1, <2>2, <2>3, <3>3, <3>4 DEF vars
    <3>7. OpenedInv' /\ MarksInv' /\ LetGoInv' /\ OverInv'
      BY <1>19, <2>2, <3>1 DEF OnStopped, vars, Free
    <3> QED
      BY <2>3, <3>2, <3>5, <3>6, <3>7
  <2>5. CASE ~Alive(Head(mail).to)
    <3>1. UNCHANGED viewVars
      BY <1>19, <2>5 DEF OnStopped
    <3>2. WinValues'
      BY <2>2, <2>3, <3>1 DEF WinValues
    <3>3. win # "none" => UNCHANGED Told /\ (Told => LastWord' = LastWord)
      BY <2>2, <2>3, <2>5 DEF Told, LastWord, Alive
    <3> QED
      BY <1>19, <2>1, <2>2, <2>3, <3>1, <3>2, <3>3 DEF OnStopped, vars
  <2> QED
    BY <2>4, <2>5
<1>20. CASE UNCHANGED allVars
  <2>1. OrderInv' /\ UNCHANGED <<LastWord, Told, Sleeping>>
    BY <1>20, WireKept DEF allVars, vars, Sleeping, Stopping, Asleep
  <2> QED
    BY <1>20, <2>1 DEF allVars, vars, WinValues
<1> QED
  BY <1>1, <1>2, <1>3, <1>4, <1>5, <1>6, <1>7, <1>8, <1>9, <1>10, <1>11, <1>12,
     <1>13, <1>14, <1>15, <1>16, <1>17, <1>18, <1>19, <1>20
  DEF AllKits, WinNext, Press, OpenOrClose, GnomeOpen, KdeOpen, WindowsOpen,
      MacOpen, GnomeClose, KdeClose, WindowsClose, Handle, Tick, EmulatorThread,
      Trampoline, GnomeOnStop, KdeTrampoline, WindowsTrampoline, MacTrampoline

-----------------------------------------------------------------------------
(* What is on its way to the window and what it shows agree with the        *)
(* machine, in every reachable state.                                       *)
THEOREM WindowInvariant == WinSpec => []WinInv
  BY EngineUnderWindow, DebugInvariant, WinInitInv, WinStepInv, PTL DEF WinSpec

(* With nothing on its way, an open window shows the stop the machine is    *)
(* parked at, whichever requests, races and reopenings led there.           *)
THEOREM ShowsTheStop == WinSpec => []WindowShowsTheStop
<1>1. DebugInv /\ WinInv => WindowShowsTheStop
  BY DEF WinInv, ShownInv, OverInv, ShowsThePc, Told, LastWord, Sleeping,
     Stopping, WindowShowsTheStop, Settled, Free, Parked
<1> QED
  BY <1>1, EngineUnderWindow, DebugInvariant, WindowInvariant, PTL

(* The marks in the listing are the engine's breakpoints.                   *)
THEOREM MarksAgree == WinSpec => []MarksAreBreakpoints
<1>1. WinInv => MarksAreBreakpoints
  BY DEF WinInv, MarksInv, MarksAreBreakpoints, Free
<1> QED
  BY <1>1, WindowInvariant, PTL

(* A closed window with no breakpoint left lets frames go past the          *)
(* debugger.                                                                *)
THEOREM LetsGo == WinSpec => []ClosedLetsGo
<1>1. WinInv => ClosedLetsGo
  BY DEF WinInv, LetGoInv, EngagedAfter, ClosedLetsGo, Free
<1> QED
  BY <1>1, WindowInvariant, PTL

-----------------------------------------------------------------------------
(* The pacing: its inductive invariant. *)

PaceValues ==
  /\ pace \in {"go", "due", "vsync", "sleep"}
  /\ next \in Int /\ next <= Frame /\ age \in 0..Fresh
  /\ waited \in 0..TimeOut /\ lead \in Nat

TickFlags == steady \in BOOLEAN /\ seen \in BOOLEAN

(* A frame is run by a thread that is paced, and whose schedule is due.     *)
TurnInv ==
  /\ emu # "top" => pace = "go"
  /\ pace # "vsync" => waited = 0
  /\ pace \in {"go", "due"} => next <= 0

(* How far the schedule, with a frame to come, is ahead of now.             *)
Slack == IF next > -Frame THEN Frame + next ELSE 0

(* No frame of this schedule will be run any more. *)
Over == emu = "off" \/ (emu = "top" /\ stop_flag)

(* The machine is ahead of time by a frame more than its schedule. *)
ScheduleInv ==
  /\ pace \in {"go", "sleep"} => \/ lead <= Frame + Slack
                                 \/ Over /\ lead <= 2 * Frame
  /\ pace = "due" => lead <= 2 * Frame + Slack

(* While ticks are fresh, it ran one frame since the last at the most, and  *)
(* one more if it has seen that tick.                                       *)
TicksInv ==
  VsyncFresh =>
    /\ pace \in {"go", "sleep"} => lead <= (IF seen THEN Frame ELSE 0) \/ Over
    /\ pace = "due" => lead <= (IF seen THEN 2 * Frame ELSE Frame)

(* A wait that times out has made up for the frame that was too many. *)
WaitInv ==
  pace = "vsync" =>
    /\ lead = 0 \/ lead + waited <= 2 * Frame
    /\ ~seen => lead <= Frame

PaceInv ==
  PaceValues /\ TickFlags /\ TurnInv /\ ScheduleInv /\ TicksInv /\ WaitInv

-----------------------------------------------------------------------------
(* The engine under the pacing. *)

USE DEF tickVars, paceVars

(* A step of the paced thread is one the engine allows, or none. *)
LEMMA PacedStep == [PacingNext]_pacedVars => [Next]_vars
BY DEF PacingNext, Next, Clock, NotifyVsync, Thread, FrameStarts, FrameGoesOn,
   FrameDone, PaceBehind, PaceByClock, Awake, PaceByVsync, WaitEnds,
   ThreadStarts, PacedCalls, UiReturns, UiCall, Emulator, pacedVars

(* The engine whose frames are paced behaves as the engine alone.           *)
THEOREM EngineUnderPacing == PacingSpec => Spec
<1>1. PacingInit => Init
  BY DEF PacingInit
<1> QED
  BY <1>1, PacedStep, PTL DEF PacingSpec, Spec

(* Only a start takes the flag of a stop back. *)
LEMMA StopStays ==
  ASSUME PacedCalls \/ UiReturns
  PROVE  emu' = emu /\ (stop_flag => stop_flag')
<1>1. CASE PacedCalls
  BY <1>1 DEF PacedCalls, UiCall, Pause, RequestStep, RunTo, EngageFirst, Resume,
     BpSet, BpClear, BpClearAll, SetAt, ClearAt, ChangeBreakpoints, Stop, Start,
     Ask, sesVars
<1>2. CASE UiReturns
  BY <1>2 DEF UiReturns, UiStep, PauseWanted, StepRequested, RunToRequested,
     Settle, ResumeForStop, Join, sesVars
<1> QED
  BY <1>1, <1>2

(* A session that was never started owes no time and waits for no tick. *)
LEMMA PaceInitInv == PacingInit => PaceInv
<1> SUFFICES ASSUME PacingInit PROVE PaceInv
  OBVIOUS
<1> USE PacingAssumption DEF PacingInit, PaceValues
<1>1. PaceValues
  OBVIOUS
<1>2. TickFlags
  BY Zenon DEF TickFlags
<1>3. TurnInv /\ WaitInv
  BY DEF TurnInv, WaitInv
<1>4. ScheduleInv
  BY DEF ScheduleInv, Slack
<1>5. TicksInv
  BY DEF TicksInv, VsyncFresh
<1> QED
  BY <1>1, <1>2, <1>3, <1>4, <1>5 DEF PaceInv

(* Time that passes takes as much off the lead as off the schedule. *)
LEMMA ClockInv == ASSUME PaceInv, Clock PROVE PaceInv'
<1> USE PacingAssumption DEF PaceInv, PaceValues, Clock, vars
<1>1. PaceValues' /\ TickFlags'
  BY DEF Later, TickFlags
<1>2. TurnInv'
  BY DEF TurnInv, Later
<1>3. lead' <= lead /\ (lead' = lead - 1 \/ lead' = 0)
  OBVIOUS
<1>4. Slack' >= Slack - 1
  BY DEF Slack, Later
<1>5. Slack \in Nat /\ Slack' \in Nat
  BY <1>1 DEF Slack
<1>6. Over => Over'
  BY DEF Over, sesVars
<1>7. ScheduleInv'
  <2>1. pace' = pace /\ ScheduleInv
    OBVIOUS
  <2>2. Frame \in Nat /\ 2 * Frame \in Nat /\ lead \in Nat /\ lead' \in Nat
    BY <1>1
  <2> HIDE DEF PaceInv, PaceValues, Clock
  <2>3. ASSUME NEW k \in Nat, lead <= k + Slack PROVE lead' <= k + Slack'
    <3>1. \A l, m, s, t \in Nat :
            /\ l <= k + s /\ t >= s - 1 /\ (m = l - 1 \/ m = 0)
            => m <= k + t
      OBVIOUS
    <3> QED
      BY <3>1, <1>3, <1>4, <1>5, <2>2, <2>3
  <2>4. pace' = "due" => lead' <= 2 * Frame + Slack'
    BY <2>1, <2>2, <2>3 DEF ScheduleInv
  <2>5. ASSUME pace' \in {"go", "sleep"}
        PROVE  lead' <= Frame + Slack' \/ (Over' /\ lead' <= 2 * Frame)
    BY <1>1, <1>3, <1>6, <2>1, <2>2, <2>3, <2>5
       DEF ScheduleInv, PaceInv, PaceValues
  <2> QED
    BY <2>4, <2>5 DEF ScheduleInv
<1>8. TicksInv'
  BY <1>1, <1>3, <1>6 DEF TicksInv, VsyncFresh
<1>9. WaitInv'
  BY <1>1, <1>3 DEF WaitInv
<1> QED
  BY <1>1, <1>2, <1>7, <1>8, <1>9

(* Frames, ticks, waits and calls keep the lead within what is allowed. *)
LEMMA PaceStepInv == PaceInv /\ [PacingNext]_pacedVars => PaceInv'
<1> SUFFICES ASSUME PaceInv, [PacingNext]_pacedVars PROVE PaceInv'
  OBVIOUS
<1> USE PacingAssumption DEF PaceInv, PaceValues, TurnInv, ScheduleInv,
        TicksInv, WaitInv, Slack, Over, VsyncFresh, TickFlags, vars, sesVars
<1>1. CASE Clock
  BY <1>1, ClockInv
<1>2. CASE NotifyVsync
  <2>1. TickFlags'
    BY <1>2 DEF NotifyVsync
  <2>2. lead' = 0 /\ UNCHANGED <<vars, pace, next, waited>> /\ age' = 0
    BY <1>2 DEF NotifyVsync
  <2> QED
    BY <2>1, <2>2
<1>3. CASE FrameStarts
  BY <1>3 DEF FrameStarts, EmuTop
<1>4. CASE FrameGoesOn
  <2>1. emu # "off" /\ emu' \notin {"top", "off"}
    BY <1>4 DEF FrameGoesOn, Emulator, EmuTop, CoreFrame, LoopHead, TakePause,
       Look, Unpark, Execute, Jammed, IntoDone, StepDone, RunToDone,
       NothingDone, BreakpointHit, NoBreakpoint, StopAndTell
  <2> QED
    BY <1>4, <2>1 DEF FrameGoesOn
<1>5. CASE FrameDone
  <2>1. emu # "off"
    BY <1>5 DEF FrameDone, Emulator, EmuTop, CoreFrame, LoopHead, TakePause,
       Look, Unpark, Execute, Jammed, IntoDone, StepDone, RunToDone,
       NothingDone, BreakpointHit, NoBreakpoint, StopAndTell
  <2> QED
    BY <1>5, <2>1 DEF FrameDone
<1>6. CASE PaceBehind
  BY <1>6 DEF PaceBehind
<1>7. CASE PaceByClock
  BY <1>7 DEF PaceByClock
<1>8. CASE Awake
  BY <1>8 DEF Awake
<1>9. CASE PaceByVsync
  BY <1>9 DEF PaceByVsync
<1>10. CASE WaitEnds
  BY <1>10 DEF WaitEnds, Later
<1>11. CASE ThreadStarts
  <2>1. /\ TickFlags' /\ ~VsyncFresh'
        /\ next' = 0 /\ lead' = 0 /\ age' = Fresh /\ UNCHANGED <<pace, waited>>
        /\ pace = "go"
    BY <1>11 DEF ThreadStarts, Start
  <2> QED
    BY <2>1
<1>12. CASE PacedCalls \/ UiReturns
  BY <1>12, StopStays DEF PacedCalls, UiReturns
<1>13. CASE UNCHANGED pacedVars
  BY <1>13 DEF pacedVars
<1> QED
  BY <1>1, <1>2, <1>3, <1>4, <1>5, <1>6, <1>7, <1>8, <1>9, <1>10, <1>11,
     <1>12, <1>13 DEF PacingNext, Thread

(* The lead, the schedule, the ticks and the waits agree. *)
THEOREM PaceInvariant == PacingSpec => []PaceInv
  BY PaceInitInv, PaceStepInv, PTL DEF PacingSpec

(* However long the debugger, a slow frame or missing ticks held the        *)
(* machine up, it never runs fast to catch up.                              *)
THEOREM DoesNotCatchUp == PacingSpec => []NeverCatchesUp
<1>1. PaceInv => NeverCatchesUp
  BY PacingAssumption DEF PaceInv, PaceValues, TurnInv, ScheduleInv, WaitInv,
     Slack, NeverCatchesUp
<1> QED
  BY <1>1, PaceInvariant, PTL
=============================================================================
