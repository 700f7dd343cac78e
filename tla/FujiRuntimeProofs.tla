-------------------------- MODULE FujiRuntimeProofs --------------------------
(***************************************************************************)
(* Proofs about FujiRuntime, for any supply of threads, length of          *)
(* utterance, time-outs, speech and reboots.  FujiInv is inductive: it     *)
(* says which call of the host holds which thread, and that a thread that  *)
(* lives is held by one or was left to itself by a stop.                   *)
(***************************************************************************)
EXTENDS FujiRuntime, TLAPS

ValuesOK ==
  /\ host \in HostSteps
  /\ setup \in {"pending", "complete", "failed"}
  /\ handle \in Threads \cup {NoThread} /\ taken \in Threads \cup {NoThread}
  /\ detached \subseteq Threads
  /\ th \in [Threads -> ThreadSteps]
  /\ queued \in 0..MaxSamples

FlagsOK ==
  /\ again \in BOOLEAN /\ fujinet_running \in BOOLEAN /\ audio_on \in BOOLEAN
  /\ running \in BOOLEAN /\ shutdown \in BOOLEAN

(* g_runtime_thread is joinable only from the start that assigned it to the *)
(* stop that takes it.                                                      *)
HandleInv ==
  /\ handle # NoThread => \/ host \in {"starting", "stop"}
                          \/ host = "idle" /\ fujinet_running
  /\ host = "starting" => handle # NoThread

(* A call that took the thread holds it until it is joined or detached. *)
TakenInv == taken # NoThread <=> host \in {"reap", "stopping", "join"}

(* No thread is lost. *)
LiveInv ==
  \A t \in Threads : Live(t) => t \in detached \/ t = handle \/ t = taken

FujiInv ==
  ValuesOK /\ FlagsOK /\ RunningIsBacked /\ HandleInv /\ TakenInv /\ LiveInv

USE DEF HostSteps, ThreadSteps, Alive, Serving, hostVars, entryVars

-----------------------------------------------------------------------------
(* A process in which FujiNet was never started satisfies the invariant. *)
LEMMA InitInv == Init => FujiInv
<1> SUFFICES ASSUME Init PROVE FujiInv
  OBVIOUS
<1> USE RuntimeAssumption DEF Init
<1>1. ValuesOK
  BY DEF ValuesOK
<1>2. FlagsOK
  BY Zenon DEF FlagsOK
<1>3. RunningIsBacked /\ HandleInv /\ TakenInv /\ LiveInv
  BY DEF RunningIsBacked, HandleInv, TakenInv, LiveInv, Live
<1> QED
  BY <1>1, <1>2, <1>3 DEF FujiInv

(* No step of the host, of a runtime thread or of SDL's callback breaks it. *)
LEMMA StepInv == FujiInv /\ [Next]_vars => FujiInv'
<1> SUFFICES ASSUME FujiInv, [Next]_vars PROVE FujiInv'
  OBVIOUS
<1> USE RuntimeAssumption DEF FujiInv, ValuesOK, FlagsOK, RunningIsBacked,
        HandleInv, TakenInv, LiveInv, Live, Stopped
<1>1. CASE StartAgain
  BY <1>1 DEF StartAgain
<1>2. CASE StartThread
  <2> USE <1>2 DEF StartThread
  <2>1. ValuesOK'
    OBVIOUS
  <2>2. FlagsOK'
    OBVIOUS
  <2>3. RunningIsBacked'
    OBVIOUS
  <2>4. HandleInv' /\ TakenInv'
    OBVIOUS
  <2>5. LiveInv'
    OBVIOUS
  <2> QED
    BY <2>1, <2>2, <2>3, <2>4, <2>5
<1>3. CASE StartReturns
  BY <1>3 DEF StartReturns
<1>4. CASE StartFails
  BY <1>4 DEF StartFails
<1>5. CASE StartReaps
  BY <1>5 DEF StartReaps
<1>6. CASE StopNothing
  <2> USE <1>6 DEF StopNothing
  <2>1. ValuesOK'
    OBVIOUS
  <2>2. FlagsOK'
    OBVIOUS
  <2>3. RunningIsBacked'
    OBVIOUS
  <2>4. HandleInv' /\ TakenInv'
    OBVIOUS
  <2>5. LiveInv'
    OBVIOUS
  <2> QED
    BY <2>1, <2>2, <2>3, <2>4, <2>5
<1>7. CASE StopRequest
  BY <1>7 DEF StopRequest
<1>8. CASE StopSeen
  BY <1>8 DEF StopSeen
<1>9. CASE StopTimesOut
  <2> USE <1>9 DEF StopTimesOut
  <2>1. ValuesOK'
    OBVIOUS
  <2>2. FlagsOK'
    OBVIOUS
  <2>3. RunningIsBacked'
    OBVIOUS
  <2>4. HandleInv' /\ TakenInv'
    OBVIOUS
  <2>5. LiveInv'
    OBVIOUS
  <2> QED
    BY <2>1, <2>2, <2>3, <2>4, <2>5
<1>10. CASE StopJoins
  BY <1>10 DEF StopJoins
<1>11. CASE StopFinishes
  <2> USE <1>11 DEF StopFinishes
  <2>1. ValuesOK'
    OBVIOUS
  <2>2. FlagsOK'
    OBVIOUS
  <2>3. RunningIsBacked'
    OBVIOUS
  <2>4. HandleInv' /\ TakenInv'
    OBVIOUS
  <2>5. LiveInv'
    OBVIOUS
  <2> QED
    BY <2>1, <2>2, <2>3, <2>4, <2>5
<1>12. CASE HostStarts
  BY <1>12 DEF HostStarts
<1>13. CASE HostStops
  BY <1>13 DEF HostStops
<1>14. CASE AudioChanges
  BY <1>14 DEF AudioChanges
<1>15. CASE Read
  BY <1>15 DEF Read
<1>16. ASSUME NEW t \in Threads, SetupReturns(t) PROVE FujiInv'
  BY <1>16 DEF SetupReturns
<1>17. ASSUME NEW t \in Threads, SetupFails(t) PROVE FujiInv'
  <2> USE <1>17 DEF SetupFails
  <2>1. ValuesOK'
    OBVIOUS
  <2>2. FlagsOK'
    OBVIOUS
  <2>3. RunningIsBacked'
    OBVIOUS
  <2>4. HandleInv' /\ TakenInv' /\ LiveInv'
    OBVIOUS
  <2> QED
    BY <2>1, <2>2, <2>3, <2>4
<1>18. ASSUME NEW t \in Threads, FailedEnds(t) PROVE FujiInv'
  BY <1>18 DEF FailedEnds
<1>19. ASSUME NEW t \in Threads, SubmitWakes(t) PROVE FujiInv'
  BY <1>19 DEF SubmitWakes
<1>20. ASSUME NEW t \in Threads, ServiceEnds(t) PROVE FujiInv'
  BY <1>20 DEF ServiceEnds
<1>21. ASSUME NEW t \in Threads, ShutdownHandled(t) PROVE FujiInv'
  BY <1>21 DEF ShutdownHandled
<1>22. ASSUME NEW t \in Threads, ThreadEnds(t) PROVE FujiInv'
  BY <1>22 DEF ThreadEnds
<1>23. ASSUME NEW t \in Threads, Speak(t) PROVE FujiInv'
  BY <1>23 DEF Speak
<1>24. ASSUME NEW t \in Threads, Reboot(t) PROVE FujiInv'
  BY <1>24 DEF Reboot
<1>25. CASE StartNoThread
  <2> USE <1>25 DEF StartNoThread
  <2>1. ValuesOK' /\ RunningIsBacked'
    OBVIOUS
  <2>2. FlagsOK'
    OBVIOUS
  <2>3. HandleInv' /\ TakenInv' /\ LiveInv'
    OBVIOUS
  <2> QED
    BY <2>1, <2>2, <2>3
<1>26. CASE UNCHANGED vars
  BY <1>26 DEF vars
<1> QED
  BY <1>1, <1>2, <1>3, <1>4, <1>5, <1>6, <1>7, <1>8, <1>9, <1>10, <1>11,
     <1>12, <1>13, <1>14, <1>15, <1>16, <1>17, <1>18, <1>19, <1>20, <1>21,
     <1>22, <1>23, <1>24, <1>25, <1>26
  DEF Next, HostStep, HostCall, ThreadStep, FujiNet

(* Holds in every reachable state. *)
THEOREM FujiInvariant == Spec => []FujiInv
  BY InitInv, StepInv, PTL DEF Spec

-----------------------------------------------------------------------------
(* The host, the runtime's globals and its threads keep their types. *)
THEOREM TypeCorrect == Spec => []TypeOK
<1>1. FujiInv => TypeOK
  BY DEF FujiInv, ValuesOK, FlagsOK, TypeOK
<1> QED
  BY <1>1, FujiInvariant, PTL

(* g_running is never left set by a thread that is gone: a start trusts it. *)
THEOREM Backed == Spec => []RunningIsBacked
<1>1. FujiInv => RunningIsBacked
  BY DEF FujiInv
<1> QED
  BY <1>1, FujiInvariant, PTL

(* No start assigns over a joinable thread, however the last one ended.     *)
THEOREM AssignsOverNothing == Spec => []NeverTerminated
<1>1. FujiInv => NeverTerminated
  BY DEF FujiInv, HandleInv, NeverTerminated
<1> QED
  BY <1>1, FujiInvariant, PTL

(* With FujiNet stopped, a thread that still runs is one that a timed-out   *)
(* stop detached.                                                           *)
THEOREM NothingLeft == Spec => []StoppedLeavesNothing
<1>1. FujiInv => StoppedLeavesNothing
  BY RuntimeAssumption
  DEF FujiInv, HandleInv, TakenInv, LiveInv, StoppedLeavesNothing
<1> QED
  BY <1>1, FujiInvariant, PTL
=============================================================================
