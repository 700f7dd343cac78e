---------------------------- MODULE SessionProofs ----------------------------
(***************************************************************************)
(* Proofs about Session, for any set of callers and any choice of calls,   *)
(* options, libraries and wedging: SessionInv is inductive, and the safety *)
(* properties follow from it.  StepInv has one step per action; a leaf     *)
(* that the provers cannot take whole is split by conjunct of SessionInv.  *)
(***************************************************************************)
EXTENDS Session, TLAPS

USE DEF AllOps, AllModes, AllLibKinds, CallerSteps, EmuSteps, EmuLoop,
        callerVars, optVars, emuVars, sinkVars, fujiVars, runVars,
        latchVars, deskVars

(* A session just created satisfies the inductive invariant. *)
LEMMA InitInv == Init => SessionInv
<1> SUFFICES ASSUME Init PROVE SessionInv
  OBVIOUS
<1> USE SessionAssumption DEF Init
<1>1. ValuesOK
  BY DEF ValuesOK, Inside
<1>2. FlagsOK
  BY Zenon DEF FlagsOK, Inside
<1>3. HolderInv
  BY DEF HolderInv, Inside
<1>4. OpInv
  BY DEF OpInv, Inside
<1>5. FreedInv
  BY DEF FreedInv, Inside
<1>6. EmuInv
  BY DEF EmuInv, Inside
<1>7. StageInv
  BY DEF StageInv, Inside
<1>8. SettledWhenFree
  BY DEF SettledWhenFree, Inside
<1> QED
  BY <1>1, <1>2, <1>3, <1>4, <1>5, <1>6, <1>7, <1>8 DEF SessionInv, TypeOK

(* No step of a caller, of the emulator thread or of the outside breaks it. *)
LEMMA StepInv == SessionInv /\ [Next]_vars => SessionInv'
<1> SUFFICES ASSUME SessionInv, [Next]_vars PROVE SessionInv'
  OBVIOUS
<1> USE SessionAssumption DEF SessionInv, TypeOK, ValuesOK, FlagsOK, HolderInv,
        OpInv, FreedInv, EmuInv, StageInv, SettledWhenFree, Inside
<1>1. ASSUME NEW c \in Callers, Call(c) PROVE SessionInv'
  BY <1>1 DEF Call
<1>2. ASSUME NEW c \in Callers, StartAgain(c) PROVE SessionInv'
  <2> USE <1>2 DEF StartAgain, Enter, Return
  <2>1. ValuesOK'
    OBVIOUS
  <2>2. FlagsOK'
    OBVIOUS
  <2>3. HolderInv'
    OBVIOUS
  <2>4. OpInv'
    OBVIOUS
  <2>5. FreedInv'
    OBVIOUS
  <2>6. EmuInv'
    OBVIOUS
  <2>7. StageInv'
    OBVIOUS
  <2>8. SettledWhenFree'
    OBVIOUS
  <2> QED
    BY <2>1, <2>2, <2>3, <2>4, <2>5, <2>6, <2>7, <2>8
<1>3. ASSUME NEW c \in Callers, StartBadAddress(c) PROVE SessionInv'
  <2> USE <1>3 DEF StartBadAddress, Enter, Return
  <2>1. ValuesOK'
    OBVIOUS
  <2>2. FlagsOK'
    <3>1. fujinet_external' \in BOOLEAN
      OBVIOUS
    <3> QED
      BY <3>1
  <2>3. HolderInv'
    OBVIOUS
  <2>4. OpInv'
    OBVIOUS
  <2>5. FreedInv'
    OBVIOUS
  <2>6. EmuInv'
    OBVIOUS
  <2>7. StageInv'
    OBVIOUS
  <2>8. SettledWhenFree'
    OBVIOUS
  <2> QED
    BY <2>1, <2>2, <2>3, <2>4, <2>5, <2>6, <2>7, <2>8
<1>4. ASSUME NEW c \in Callers, StartNoThread(c) PROVE SessionInv'
  <2> USE <1>4 DEF StartNoThread, Enter, Return, StartOptions
  <2>1. ValuesOK'
    OBVIOUS
  <2>2. FlagsOK'
    OBVIOUS
  <2>3. HolderInv'
    OBVIOUS
  <2>4. OpInv'
    OBVIOUS
  <2>5. FreedInv'
    OBVIOUS
  <2>6. EmuInv'
    OBVIOUS
  <2>7. StageInv'
    OBVIOUS
  <2>8. SettledWhenFree'
    OBVIOUS
  <2> QED
    BY <2>1, <2>2, <2>3, <2>4, <2>5, <2>6, <2>7, <2>8
<1>5. ASSUME NEW c \in Callers, StartThread(c) PROVE SessionInv'
  <2> USE <1>5 DEF StartThread, Enter, Goto, StartOptions
  <2>1. ValuesOK'
    OBVIOUS
  <2>2. FlagsOK'
    OBVIOUS
  <2>3. HolderInv'
    OBVIOUS
  <2>4. OpInv'
    OBVIOUS
  <2>5. FreedInv'
    OBVIOUS
  <2>6. EmuInv'
    OBVIOUS
  <2>7. StageInv'
    OBVIOUS
  <2>8. SettledWhenFree'
    OBVIOUS
  <2> QED
    BY <2>1, <2>2, <2>3, <2>4, <2>5, <2>6, <2>7, <2>8
<1>6. ASSUME NEW c \in Callers, StartUp(c) PROVE SessionInv'
  BY <1>6 DEF StartUp, Goto
<1>7. ASSUME NEW c \in Callers, StartDown(c) PROVE SessionInv'
  BY <1>7 DEF StartDown, Goto
<1>8. ASSUME NEW c \in Callers, StartReap(c) PROVE SessionInv'
  <2> USE <1>8 DEF StartReap, Return
  <2>1. ValuesOK'
    OBVIOUS
  <2>2. FlagsOK'
    OBVIOUS
  <2>3. HolderInv'
    OBVIOUS
  <2>4. OpInv'
    OBVIOUS
  <2>5. FreedInv'
    OBVIOUS
  <2>6. EmuInv'
    OBVIOUS
  <2>7. StageInv'
    OBVIOUS
  <2>8. SettledWhenFree'
    OBVIOUS
  <2> QED
    BY <2>1, <2>2, <2>3, <2>4, <2>5, <2>6, <2>7, <2>8
<1>9. ASSUME NEW c \in Callers, StartBackends(c) PROVE SessionInv'
  BY <1>9 DEF StartBackends, Return
<1>10. ASSUME NEW c \in Callers, FujiUnavailable(c) PROVE SessionInv'
  BY <1>10 DEF FujiUnavailable, Goto, AfterFuji
<1>11. ASSUME NEW c \in Callers, FujiLoad(c) PROVE SessionInv'
  BY <1>11 DEF FujiLoad, Goto
<1>12. ASSUME NEW c \in Callers, FujiNullCall(c) PROVE SessionInv'
  BY <1>12 DEF FujiNullCall, Goto
<1>13. ASSUME NEW c \in Callers, FujiSetupFails(c) PROVE SessionInv'
  BY <1>13 DEF FujiSetupFails, Goto, AfterFuji
<1>14. ASSUME NEW c \in Callers, FujiSetupDone(c) PROVE SessionInv'
  BY <1>14 DEF FujiSetupDone, Goto, AfterFuji
<1>15. ASSUME NEW c \in Callers, StopIdle(c) PROVE SessionInv'
  BY <1>15 DEF StopIdle, Enter, Return
<1>16. ASSUME NEW c \in Callers, StopSignal(c) PROVE SessionInv'
  <2> USE <1>16 DEF StopSignal, Enter, Goto
  <2>1. ValuesOK'
    OBVIOUS
  <2>2. FlagsOK'
    OBVIOUS
  <2>3. HolderInv'
    OBVIOUS
  <2>4. OpInv'
    OBVIOUS
  <2>5. FreedInv'
    OBVIOUS
  <2>6. EmuInv'
    OBVIOUS
  <2>7. StageInv'
    OBVIOUS
  <2>8. SettledWhenFree'
    OBVIOUS
  <2> QED
    BY <2>1, <2>2, <2>3, <2>4, <2>5, <2>6, <2>7, <2>8
<1>17. ASSUME NEW c \in Callers, StopJoin(c) PROVE SessionInv'
  <2> USE <1>17 DEF StopJoin, Goto
  <2>1. ValuesOK'
    OBVIOUS
  <2>2. FlagsOK'
    <3>1. emu_thread_started' \in BOOLEAN
      OBVIOUS
    <3> QED
      BY <3>1
  <2>3. HolderInv'
    OBVIOUS
  <2>4. OpInv'
    OBVIOUS
  <2>5. FreedInv'
    OBVIOUS
  <2>6. EmuInv'
    OBVIOUS
  <2>7. StageInv'
    OBVIOUS
  <2>8. SettledWhenFree'
    OBVIOUS
  <2> QED
    BY <2>1, <2>2, <2>3, <2>4, <2>5, <2>6, <2>7, <2>8
<1>18. ASSUME NEW c \in Callers, StopTeardown(c) PROVE SessionInv'
  <2> USE <1>18 DEF StopTeardown, Return
  <2>1. ValuesOK'
    OBVIOUS
  <2>2. FlagsOK'
    OBVIOUS
  <2>3. HolderInv'
    OBVIOUS
  <2>4. OpInv'
    OBVIOUS
  <2>5. FreedInv'
    OBVIOUS
  <2>6. EmuInv'
    OBVIOUS
  <2>7. StageInv'
    OBVIOUS
  <2>8. SettledWhenFree'
    OBVIOUS
  <2> QED
    BY <2>1, <2>2, <2>3, <2>4, <2>5, <2>6, <2>7, <2>8
<1>19. ASSUME NEW c \in Callers, ResetIgnored(c) PROVE SessionInv'
  BY <1>19 DEF ResetIgnored, Enter, Return
<1>20. ASSUME NEW c \in Callers, ResetBegin(c) PROVE SessionInv'
  <2> USE <1>20 DEF ResetBegin, Enter, Goto
  <2>1. ValuesOK'
    OBVIOUS
  <2>2. FlagsOK'
    OBVIOUS
  <2>3. HolderInv'
    OBVIOUS
  <2>4. OpInv'
    OBVIOUS
  <2>5. FreedInv'
    OBVIOUS
  <2>6. EmuInv'
    OBVIOUS
  <2>7. StageInv'
    OBVIOUS
  <2>8. SettledWhenFree'
    OBVIOUS
  <2> QED
    BY <2>1, <2>2, <2>3, <2>4, <2>5, <2>6, <2>7, <2>8
<1>21. ASSUME NEW c \in Callers, ResetStopsFuji(c) PROVE SessionInv'
  <2> USE <1>21 DEF ResetStopsFuji, Goto
  <2>1. ValuesOK'
    OBVIOUS
  <2>2. FlagsOK'
    <3>1. fujinet_running' \in BOOLEAN /\ linked' \in BOOLEAN
      OBVIOUS
    <3> QED
      BY <3>1
  <2>3. HolderInv'
    OBVIOUS
  <2>4. OpInv'
    OBVIOUS
  <2>5. FreedInv'
    OBVIOUS
  <2>6. EmuInv'
    OBVIOUS
  <2>7. StageInv'
    OBVIOUS
  <2>8. SettledWhenFree'
    OBVIOUS
  <2> QED
    BY <2>1, <2>2, <2>3, <2>4, <2>5, <2>6, <2>7, <2>8
<1>22. ASSUME NEW c \in Callers, ResetRequest(c) PROVE SessionInv'
  BY <1>22 DEF ResetRequest, Return
<1>23. CASE EmuInit
  BY <1>23 DEF EmuInit
<1>24. CASE CoreLoads
  BY <1>24 DEF CoreLoads
<1>25. CASE CoreFails
  <2> USE <1>25 DEF CoreFails
  <2>1. ValuesOK'
    OBVIOUS
  <2>2. FlagsOK'
    <3>1. frame_sink' \in BOOLEAN
      OBVIOUS
    <3> QED
      BY <3>1
  <2>3. HolderInv'
    OBVIOUS
  <2>4. OpInv'
    OBVIOUS
  <2>5. FreedInv'
    OBVIOUS
  <2>6. EmuInv'
    OBVIOUS
  <2>7. StageInv'
    OBVIOUS
  <2>8. SettledWhenFree'
    OBVIOUS
  <2> QED
    BY <2>1, <2>2, <2>3, <2>4, <2>5, <2>6, <2>7, <2>8
<1>26. CASE CoreWedges
  BY <1>26 DEF CoreWedges
<1>27. CASE EmuPublish
  BY <1>27 DEF EmuPublish
<1>28. CASE EmuTop
  BY <1>28 DEF EmuTop
<1>29. CASE EmuClear
  BY <1>29 DEF EmuClear
<1>30. CASE EmuApply
  BY <1>30 DEF EmuApply
<1>31. CASE EmuFrame
  BY <1>31 DEF EmuFrame
<1>32. CASE EmuLink
  <2> USE <1>32 DEF EmuLink
  <2>1. ValuesOK'
    OBVIOUS
  <2>2. FlagsOK'
    <3>1. link_reboot' \in BOOLEAN
      OBVIOUS
    <3> QED
      BY <3>1
  <2>3. HolderInv'
    OBVIOUS
  <2>4. OpInv'
    OBVIOUS
  <2>5. FreedInv'
    OBVIOUS
  <2>6. EmuInv'
    OBVIOUS
  <2>7. StageInv'
    OBVIOUS
  <2>8. SettledWhenFree'
    OBVIOUS
  <2> QED
    BY <2>1, <2>2, <2>3, <2>4, <2>5, <2>6, <2>7, <2>8
<1>33. CASE EmuLatch
  BY <1>33 DEF EmuLatch
<1>34. CASE EmuHalt
  <2> USE <1>34 DEF EmuHalt
  <2>1. ValuesOK'
    OBVIOUS
  <2>2. FlagsOK'
    OBVIOUS
  <2>3. HolderInv'
    OBVIOUS
  <2>4. OpInv'
    OBVIOUS
  <2>5. FreedInv'
    OBVIOUS
  <2>6. EmuInv'
    OBVIOUS
  <2>7. StageInv'
    OBVIOUS
  <2>8. SettledWhenFree'
    OBVIOUS
  <2> QED
    BY <2>1, <2>2, <2>3, <2>4, <2>5, <2>6, <2>7, <2>8
<1>35. CASE EmuQuit
  <2> USE <1>35 DEF EmuQuit
  <2>1. ValuesOK'
    OBVIOUS
  <2>2. FlagsOK'
    OBVIOUS
  <2>3. HolderInv'
    OBVIOUS
  <2>4. OpInv'
    OBVIOUS
  <2>5. FreedInv'
    OBVIOUS
  <2>6. EmuInv'
    OBVIOUS
  <2>7. StageInv'
    OBVIOUS
  <2>8. SettledWhenFree'
    OBVIOUS
  <2> QED
    BY <2>1, <2>2, <2>3, <2>4, <2>5, <2>6, <2>7, <2>8
<1>36. CASE LinkChanges
  BY <1>36 DEF LinkChanges
<1>37. CASE DebuggerToggles
  BY <1>37 DEF DebuggerToggles
<1>38. CASE UNCHANGED vars
  BY <1>38 DEF vars
<1> QED
  BY <1>1, <1>2, <1>3, <1>4, <1>5, <1>6, <1>7, <1>8, <1>9, <1>10, <1>11,
     <1>12, <1>13, <1>14, <1>15, <1>16, <1>17, <1>18, <1>19, <1>20, <1>21,
     <1>22, <1>23, <1>24, <1>25, <1>26, <1>27, <1>28, <1>29, <1>30, <1>31,
     <1>32, <1>33, <1>34, <1>35, <1>36, <1>37, <1>38 DEF Next, Start, Fuji,
     Stop, Reset, Emulator, Outside

(* The session's type, holder, stage and settledness invariant holds in     *)
(* every reachable state.                                                   *)
THEOREM SessionInvariant == Spec => []SessionInv
  BY InitInv, StepInv, PTL DEF Spec

-----------------------------------------------------------------------------
(* Every variable stays within the values session_internal.h gives it. *)
THEOREM TypeCorrect == Spec => []TypeOK
<1>1. SessionInv => TypeOK
  BY DEF SessionInv
<1> QED
  BY <1>1, SessionInvariant, PTL

(* Between calls the session is fully up or fully down, after any failure   *)
(* of start(), stop() or the emulator thread.                               *)
THEOREM Settled == Spec => []SettledWhenFree
<1>1. SessionInv => SettledWhenFree
  BY DEF SessionInv
<1> QED
  BY <1>1, SessionInvariant, PTL

(* FujiNet's blocking setup is entered only while the machine pumps frames, *)
(* from start() and from a cold reset alike.                                *)
THEOREM MachineFirst == Spec => []MachineBeforeFujiNet
<1>1. SessionInv => MachineBeforeFujiNet
  BY DEF SessionInv, StageInv, EmuInv, MachineBeforeFujiNet
<1> QED
  BY <1>1, SessionInvariant, PTL

(* fujinet_start is never entered while this session's FujiNet runs. *)
THEOREM StartedOnce == Spec => []FujiStartedOnce
<1>1. SessionInv => FujiStartedOnce
  BY DEF SessionInv, StageInv, FujiStartedOnce
<1> QED
  BY <1>1, SessionInvariant, PTL

(* After apple2session_free nothing reaches the session. *)
THEOREM FreedIsUnreachable == Spec => []NothingReachesFreed
<1>1. ASSUME SessionInv, freed PROVE lifecycle = NoCaller
  <2>1. \A c \in Callers : lifecycle # c
    BY <1>1 DEF SessionInv, HolderInv, OpInv, Inside
  <2> QED
    BY <1>1, <2>1 DEF SessionInv, TypeOK, ValuesOK
<1>2. SessionInv => NothingReachesFreed
  BY <1>1 DEF SessionInv, FreedInv, SettledWhenFree, NothingReachesFreed
<1> QED
  BY <1>2, SessionInvariant, PTL

(* start() creates an emulator thread only when the last one was joined. *)
THEOREM ThreadsAreJoined == Spec => OneEmulatorThread
<1>1. ASSUME SessionInv, [Next]_vars, emu' = "init", emu # "init"
      PROVE  emu = "none"
  <2>1. PICK c \in Callers : StartThread(c)
    BY <1>1
    DEF Next, vars, Call, Start, StartAgain, StartBadAddress, StartNoThread,
        StartUp, StartDown, StartReap, StartBackends, Fuji, FujiUnavailable,
        FujiLoad, FujiNullCall, FujiSetupFails, FujiSetupDone, Stop, StopIdle,
        StopSignal, StopJoin, StopTeardown, Reset, ResetIgnored, ResetBegin,
        ResetStopsFuji, ResetRequest, Emulator, EmuInit, CoreLoads, CoreFails,
        CoreWedges, EmuPublish, EmuTop, EmuClear, EmuApply, EmuFrame, EmuLink,
        EmuLatch, EmuHalt, EmuQuit, Outside, LinkChanges, DebuggerToggles
  <2>2. lifecycle = NoCaller /\ ~running
    BY <2>1 DEF StartThread, Enter
  <2> QED
    BY <1>1, <2>2 DEF SessionInv, SettledWhenFree
<1>2. SessionInv /\ [Next]_vars
        => [emu' = "init" /\ emu # "init" => emu = "none"]_vars
  BY <1>1
<1> QED
  BY <1>2, SessionInvariant, PTL DEF Spec, OneEmulatorThread
==============================================================================
