---------------------------- MODULE FujiRuntime ----------------------------
(***************************************************************************)
(* The FujiNet runtime inside the host process: the entry points of        *)
(* tools/fujinet/support/fujinet_desktop_entry.cpp and the half of         *)
(* core/src/fujinet_runtime.c that calls them.  The host starts and stops  *)
(* the runtime (one call at a time: lifecycle_mtx), a runtime thread runs  *)
(* FujiNet's setup and service loop, and SDL's audio thread drains the     *)
(* speech (SAM) that FujiNet submits.                                      *)
(*                                                                         *)
(* A step is what happens under one hold of g_mutex or g_audio_mutex, or a *)
(* wait that returned.  An utterance is the number of its samples left.    *)
(***************************************************************************)
EXTENDS Integers, FiniteSets

CONSTANTS
  Threads,        (* runtime threads that may come to exist                *)
  NoThread,
  MaxSamples,     (* the longest utterance                                 *)
  MayTimeOut,     (* may a stop time out on a thread busy elsewhere        *)
  Speech,         (* does FujiNet speak                                    *)
  Reboots         (* is FujiNet told to reboot itself                      *)

ASSUME RuntimeAssumption ==
  /\ NoThread \notin Threads
  /\ MaxSamples \in Nat \ {0}
  /\ MayTimeOut \in BOOLEAN /\ Speech \in BOOLEAN /\ Reboots \in BOOLEAN

VARIABLES
  host,             (* where the host's call is                            *)
  again,            (* a cold reset: the stop is followed by a start       *)
  fujinet_running,  (* s->fujinet_running                                  *)
  audio_on,         (* the SDL audio thread runs                           *)
  running,          (* g_running                                           *)
  handle,           (* g_runtime_thread, if joinable                       *)
  taken,            (* the thread a stop or a failed start took to join    *)
  detached,         (* threads left to themselves by a stop                *)
  setup,            (* g_setup_complete, g_setup_failed                    *)
  shutdown,         (* fnSystem's shutdown request                         *)
  th,               (* where each runtime thread is                        *)
  queued            (* g_audio_queued_samples: samples of the one          *)
                    (* utterance that may be queued                        *)

hostVars  == <<host, again, fujinet_running, audio_on>>
entryVars == <<running, handle, taken, detached, setup, shutdown>>
vars == <<hostVars, entryVars, th, queued>>

HostSteps == {"idle", "start", "starting", "reap", "stop", "stopping", "join",
              "finish"}
ThreadSteps == {"unborn", "setup", "service", "submit", "leaving", "ending",
                "failed", "gone"}
Alive == {"setup", "service", "submit", "leaving", "ending", "failed"}

-----------------------------------------------------------------------------
(* fujinet_start and fujinet_desktop_start_runtime *)

HostStarts ==
  /\ host = "idle" /\ ~fujinet_running
  /\ host' = "start"
  /\ again' = FALSE
  /\ UNCHANGED <<fujinet_running, audio_on, entryVars, th, queued>>

(* A runtime that runs already is reported as started. *)
StartAgain ==
  /\ host = "start"
  /\ running
  /\ fujinet_running' = TRUE
  /\ host' = "idle"
  /\ UNCHANGED <<again, audio_on, entryVars, th, queued>>

(* A runtime thread is created and put in g_runtime_thread. *)
StartThread ==
  /\ host = "start"
  /\ ~running
  /\ \E t \in Threads :
       /\ th[t] = "unborn"
       /\ handle' = t
       /\ th' = [th EXCEPT ![t] = "setup"]
  /\ setup' = "pending"
  /\ shutdown' = FALSE
  /\ queued' = 0
  /\ host' = "starting"
  /\ UNCHANGED <<again, fujinet_running, audio_on, running, taken, detached>>

(* No thread can be created: the start fails at once.                       *)
StartNoThread ==
  /\ host = "start"
  /\ ~running
  /\ setup' = "failed"
  /\ shutdown' = FALSE
  /\ queued' = 0
  /\ host' = "idle"
  /\ UNCHANGED <<again, fujinet_running, audio_on, running, handle, taken,
                 detached, th>>

StartReturns ==
  /\ host = "starting"
  /\ setup = "complete"
  /\ fujinet_running' = TRUE
  /\ host' = "idle"
  /\ UNCHANGED <<again, audio_on, entryVars, th, queued>>

StartFails_Forgets ==
  /\ host = "starting"
  /\ setup = "failed"
  /\ host' = "idle"
  /\ UNCHANGED <<again, fujinet_running, audio_on, entryVars, th, queued>>

StartFails ==
  /\ host = "starting"
  /\ setup = "failed"
  /\ taken' = handle
  /\ handle' = NoThread
  /\ host' = "reap"
  /\ UNCHANGED <<again, fujinet_running, audio_on, running, detached, setup,
                 shutdown, th, queued>>

StartReaps ==
  /\ host = "reap"
  /\ th[taken] = "gone"
  /\ taken' = NoThread
  /\ host' = "idle"
  /\ UNCHANGED <<again, fujinet_running, audio_on, running, handle, detached,
                 setup, shutdown, th, queued>>

-----------------------------------------------------------------------------
(* fujinet_stop and fujinet_desktop_stop_runtime *)

(* A session stop, or the stop a cold reset begins with. *)
HostStops ==
  /\ host = "idle" /\ fujinet_running
  /\ fujinet_running' = FALSE
  /\ again' \in BOOLEAN
  /\ host' = "stop"
  /\ UNCHANGED <<audio_on, entryVars, th, queued>>

(* The last step of a stop, fujinet_clear_audio included. *)
Stopped ==
  /\ queued' = 0
  /\ host' = IF again THEN "start" ELSE "idle"
  /\ again' = FALSE

StopNothing ==
  /\ host = "stop"
  /\ ~running /\ handle = NoThread
  /\ Stopped
  /\ UNCHANGED <<fujinet_running, audio_on, entryVars, th>>

StopRequest_RunningOnly ==
  /\ host = "stop"
  /\ IF running
     THEN /\ shutdown' = TRUE
          /\ taken' = handle
          /\ handle' = NoThread
          /\ host' = IF handle # NoThread THEN "stopping" ELSE "finish"
          /\ UNCHANGED <<queued, again>>
     ELSE Stopped /\ UNCHANGED <<shutdown, taken, handle>>
  /\ UNCHANGED <<fujinet_running, audio_on, running, detached, setup, th>>

(* Ask the service loop to end and take the thread.  One that was detached  *)
(* by an earlier stop is not waited for.                                    *)
StopRequest ==
  /\ host = "stop"
  /\ running \/ handle # NoThread
  /\ shutdown' = TRUE
  /\ taken' = handle
  /\ handle' = NoThread
  /\ host' = IF handle # NoThread THEN "stopping" ELSE "finish"
  /\ UNCHANGED <<again, fujinet_running, audio_on, running, detached, setup,
                 th, queued>>

StopSeen ==
  /\ host = "stopping"
  /\ ~running
  /\ host' = "join"
  /\ UNCHANGED <<again, fujinet_running, audio_on, entryVars, th, queued>>

StopTimesOut_Never == FALSE

(* Five seconds passed: the thread is detached, g_running left set.         *)
StopTimesOut ==
  /\ host = "stopping"
  /\ running
  /\ MayTimeOut \/ th[taken] = "submit"
  /\ detached' = detached \cup {taken}
  /\ taken' = NoThread
  /\ Stopped
  /\ UNCHANGED <<fujinet_running, audio_on, running, handle, setup, shutdown,
                 th>>

StopJoins ==
  /\ host = "join"
  /\ th[taken] = "gone"
  /\ taken' = NoThread
  /\ host' = "finish"
  /\ UNCHANGED <<again, fujinet_running, audio_on, running, handle, detached,
                 setup, shutdown, th, queued>>

StopFinishes ==
  /\ host = "finish"
  /\ shutdown' = FALSE
  /\ running' = FALSE
  /\ Stopped
  /\ UNCHANGED <<fujinet_running, audio_on, handle, taken, detached, setup, th>>

(* audio_start and audio_stop, around the runtime's life. *)
AudioChanges ==
  /\ host = "idle"
  /\ audio_on' = ~audio_on
  /\ UNCHANGED <<host, again, fujinet_running, entryVars, th, queued>>

-----------------------------------------------------------------------------
(* The runtime thread *)

(* main_setup returned: the SLIP client has attached to the machine. *)
SetupReturns(t) ==
  /\ th[t] = "setup"
  /\ th' = [th EXCEPT ![t] = "service"]
  /\ running' = TRUE
  /\ setup' = "complete"
  /\ UNCHANGED <<hostVars, handle, taken, detached, shutdown, queued>>

(* chdir fails, or main_setup throws (and g_running is cleared).            *)
SetupFails(t) ==
  /\ th[t] = "setup"
  /\ th' = [th EXCEPT ![t] = "failed"]
  /\ setup' = "failed"
  /\ running' \in {running, FALSE}
  /\ UNCHANGED <<hostVars, handle, taken, detached, shutdown, queued>>

FailedEnds(t) ==
  /\ th[t] = "failed"
  /\ th' = [th EXCEPT ![t] = "gone"]
  /\ UNCHANGED <<hostVars, entryVars, queued>>

Speak_Queues(t) ==
  /\ Speech
  /\ th[t] = "service"
  /\ \E n \in 1..MaxSamples : queued' = queued + n
  /\ UNCHANGED <<hostVars, entryVars, th>>

(* fujinet_desktop_submit_sam_audio: one utterance at a time, the next one  *)
(* waits until the samples of the last are read.                            *)
Speak(t) ==
  /\ Speech
  /\ th[t] = "service"
  /\ \/ queued = 0 /\ queued' \in 1..MaxSamples /\ UNCHANGED th
     \/ queued > 0 /\ th' = [th EXCEPT ![t] = "submit"] /\ UNCHANGED queued
  /\ UNCHANGED <<hostVars, entryVars>>

SubmitWakes(t) ==
  /\ th[t] = "submit"
  /\ queued = 0
  /\ queued' \in 1..MaxSamples
  /\ th' = [th EXCEPT ![t] = "service"]
  /\ UNCHANGED <<hostVars, entryVars>>

(* SystemManager::reboot, embedded: ask the own service loop to end. *)
Reboot(t) ==
  /\ Reboots
  /\ th[t] = "service"
  /\ shutdown' = TRUE
  /\ UNCHANGED <<hostVars, running, handle, taken, detached, setup, th, queued>>

ServiceEnds(t) ==
  /\ th[t] = "service"
  /\ shutdown
  /\ th' = [th EXCEPT ![t] = "leaving"]
  /\ UNCHANGED <<hostVars, entryVars, queued>>

ShutdownHandled(t) ==
  /\ th[t] = "leaving"
  /\ shutdown' = FALSE
  /\ th' = [th EXCEPT ![t] = "ending"]
  /\ UNCHANGED <<hostVars, running, handle, taken, detached, setup, queued>>

ThreadEnds_Silent(t) ==
  /\ th[t] = "ending"
  /\ th' = [th EXCEPT ![t] = "gone"]
  /\ UNCHANGED <<hostVars, entryVars, queued>>

ThreadEnds(t) ==
  /\ th[t] = "ending"
  /\ running' = FALSE
  /\ th' = [th EXCEPT ![t] = "gone"]
  /\ UNCHANGED <<hostVars, handle, taken, detached, setup, shutdown, queued>>

Read_Peeks ==
  /\ audio_on /\ fujinet_running
  /\ queued > 0
  /\ queued' \in 1..queued
  /\ UNCHANGED <<hostVars, entryVars, th>>

(* The audio callback mixes in some of what is queued, while the session    *)
(* has FujiNet running.                                                     *)
Read ==
  /\ audio_on /\ fujinet_running
  /\ queued > 0
  /\ queued' \in 0..(queued - 1)
  /\ UNCHANGED <<hostVars, entryVars, th>>

-----------------------------------------------------------------------------
Init ==
  /\ host = "idle" /\ again = FALSE
  /\ fujinet_running = FALSE /\ audio_on = FALSE
  /\ running = FALSE /\ setup = "pending" /\ shutdown = FALSE
  /\ handle = NoThread /\ taken = NoThread /\ detached = {}
  /\ th = [t \in Threads |-> "unborn"]
  /\ queued = 0

HostStep == StartAgain \/ StartThread \/ StartNoThread \/ StartReturns
            \/ StartFails \/ StartReaps \/ StopNothing \/ StopRequest
            \/ StopSeen \/ StopTimesOut \/ StopJoins \/ StopFinishes
HostCall == HostStarts \/ HostStops \/ AudioChanges
ThreadStep(t) == SetupReturns(t) \/ SetupFails(t) \/ FailedEnds(t)
                 \/ SubmitWakes(t) \/ ServiceEnds(t) \/ ShutdownHandled(t)
                 \/ ThreadEnds(t)
FujiNet(t) == Speak(t) \/ Reboot(t)

Next == HostStep \/ HostCall \/ Read
        \/ \E t \in Threads : ThreadStep(t) \/ FujiNet(t)

Spec == Init /\ [][Next]_vars

(* The host's calls and the runtime threads are scheduled, setup ends, and  *)
(* SDL calls the audio callback.  Nobody need call, and FujiNet need not    *)
(* speak or reboot.                                                         *)
LiveSpec == /\ Spec /\ WF_vars(HostStep) /\ WF_vars(Read)
            /\ \A t \in Threads : WF_vars(ThreadStep(t))

-----------------------------------------------------------------------------
Live(t) == th[t] \in Alive

TypeOK ==
  /\ host \in HostSteps
  /\ setup \in {"pending", "complete", "failed"}
  /\ handle \in Threads \cup {NoThread} /\ taken \in Threads \cup {NoThread}
  /\ detached \subseteq Threads
  /\ th \in [Threads -> ThreadSteps]
  /\ queued \in 0..MaxSamples
  /\ again \in BOOLEAN /\ fujinet_running \in BOOLEAN /\ audio_on \in BOOLEAN
  /\ running \in BOOLEAN /\ shutdown \in BOOLEAN

Serving == {"service", "submit", "leaving", "ending"}

(* g_running is what a start trusts to report success without starting: it  *)
(* is never left set by a thread that is gone.                              *)
RunningIsBacked ==
  running => \E t \in Threads : th[t] \in Serving

(* Assigning to a joinable std::thread ends the process: a start never does *)
(* that, however the last thread ended.  FujiNet rebooting itself ends its  *)
(* thread with nobody there to join it.                                     *)
NeverTerminated == host = "start" /\ ~running => handle = NoThread

(* Between calls with FujiNet stopped, every thread that still runs is one  *)
(* a timed-out stop detached: no call loses a thread it could have joined.  *)
StoppedLeavesNothing ==
  host = "idle" /\ ~fujinet_running =>
    /\ \A t \in Threads : Live(t) => t \in detached
    /\ handle = NoThread

(* "A subsequent start must not spawn a second thread on top of" one that a *)
(* timed-out stop left behind.  Does not hold: a second stop finds nothing  *)
(* joinable, clears g_running at once, and the start after it spawns one.   *)
OneRuntimeThread ==
  \A t, u \in Threads : Live(t) /\ Live(u) => t = u

InStop == host \in {"stop", "stopping", "join", "finish"}

(* "So a wedged FujiNet runtime cannot hang the whole host process on exit" *)
(* (lines 700 to 708).  Does not hold: g_running may be cleared while a     *)
(* thread serves, by a second stop after one that timed out and by the end  *)
(* of the thread that one left behind.  The wait for it then ends at once,  *)
(* and the join after it waits for a thread that waits to speak, or that    *)
(* never sees the shutdown request the other one took.                      *)
StopNeverHangs == InStop ~> host \in {"idle", "start"}

(* A stop returns to the host, however FujiNet is stuck, also after stops   *)
(* that timed out and with a thread they left behind: but for one that has  *)
(* taken a thread that serves while g_running says that none does.          *)
Disowned == ~running /\ \E t \in Threads : taken = t /\ th[t] \in Serving

StopReturns == InStop ~> (host \in {"idle", "start"} \/ Disowned)

(* FujiNet's speech goes on while the session runs it and plays audio,      *)
(* unless another thread speaks that a timed-out stop left behind: the two  *)
(* take turns as they come, and one may always be second.                   *)
SubmitReturns ==
  \A t \in Threads :
    th[t] = "submit" ~>
      \/ th[t] # "submit" \/ ~audio_on \/ ~fujinet_running
      \/ \E u \in Threads \ {t} : th[u] \in {"service", "submit"}
=============================================================================
