------------------------------ MODULE Gamepad ------------------------------
(***************************************************************************)
(* The gamepad backend (core/src/gamepad_sdl.c) on its polling thread, the *)
(* host's input state it writes (core/applewin/apple2_host.cpp), and the   *)
(* session's start and stop around both: pads come and go, the user picks  *)
(* one (no frontend offers it yet, but the session's interface does), and  *)
(* the emulator thread clears the input state when its core goes.          *)
(*                                                                         *)
(* A reading is the position of the stick, or of the d-pad standing in for *)
(* it, and the set of buttons held.  A step of the polling thread is one   *)
(* hold of its mutex or one call into the session.                         *)
(***************************************************************************)
EXTENDS Naturals, Sequences, FiniteSets

CONSTANTS
  MaxIds,     (* bound: instance ids SDL gives, in order                   *)
  MaxPads,    (* MAX_PADS                                                  *)
  Positions,  (* of a stick; 0 is the centre                               *)
  MaxStarts   (* bound: starts of the session                              *)

ASSUME GamepadAssumption ==
  /\ MaxIds \in Nat /\ MaxPads \in Nat \ {0}
  /\ 0 \in Positions /\ MaxStarts \in Nat \ {0}

Ids == 1..MaxIds
Buttons == {0, 1}     (* Open Apple and Closed Apple                       *)
Reading == [stick : Positions, held : SUBSET Buttons]
Idle == [stick |-> 0, held |-> {}]
Paddles == 2          (* pushed as one, before the buttons                  *)
Automatic == 0        (* explicit_idx is counted from 1 here               *)

VARIABLES
  ui,         (* where the frontend's start or stop is                     *)
  emu,        (* "none", "loading", "loop", "cleared" by core_stop, "gone" *)
  running,    (* s->running                                                *)
  starts,
  axes,       (* g_axes[0]                                                 *)
  buttons,    (* g_buttons[0]: those held down                             *)
  given,      (* ids given so far; a pad plugged in again gets a new one   *)
  plugged,    (* pads SDL sees                                             *)
  thread,     (* "none", or where the polling thread is: "poll", "read",   *)
              (* "push"                                                    *)
  pads,       (* g->pads, by id                                            *)
  assigned,   (* those whose assigned flag is set                          *)
  explicit,   (* explicit_idx                                              *)
  last,       (* g->last                                                   *)
  have_last,
  pushing,    (* what the thread still pushes of the last reading          *)
  clean       (* this session began with nothing held, and nobody has      *)
              (* changed the selection since                               *)

sessionVars == <<ui, emu, running, starts>>
inputVars   == <<axes, buttons>>
worldVars   == <<given, plugged>>
padVars     == <<thread, pads, assigned, explicit, last, have_last, pushing>>
vars == <<sessionVars, inputVars, worldVars, padVars, clean>>

-----------------------------------------------------------------------------
(* The session around it *)

Start ==
  /\ ui = "down" /\ starts < MaxStarts
  /\ ui' = "starting" /\ starts' = starts + 1
  /\ running' = TRUE /\ emu' = "loading"
  /\ clean' = (buttons = {})
  /\ UNCHANGED <<inputVars, worldVars, padVars>>

CoreUp ==
  /\ emu = "loading"
  /\ emu' = "loop"
  /\ UNCHANGED <<ui, running, starts, inputVars, worldVars, padVars, clean>>

PadsStart_KeepsLast ==
  /\ ui = "starting" /\ emu = "loop"
  /\ ui' = "up"
  /\ thread' = "poll"
  /\ UNCHANGED <<pads, assigned, explicit, last, have_last, pushing>>
  /\ UNCHANGED <<emu, running, starts, inputVars, worldVars, clean>>

(* gamepad_start, once the core is up; the backend is optional. *)
PadsStart ==
  /\ ui = "starting" /\ emu = "loop"
  /\ ui' = "up"
  /\ \/ /\ thread' = "poll"
        /\ pads' = <<>> /\ assigned' = {} /\ explicit' = Automatic
        /\ have_last' = FALSE /\ last' = Idle /\ pushing' = <<>>
     \/ UNCHANGED padVars
  /\ UNCHANGED <<emu, running, starts, inputVars, worldVars, clean>>

Stop ==
  /\ ui = "up"
  /\ ui' = "stopping"
  /\ UNCHANGED <<emu, running, starts, inputVars, worldVars, padVars, clean>>

(* apple2host_core_stop releases everything held ... *)
CoreStop ==
  /\ ui = "stopping" /\ emu = "loop"
  /\ emu' = "cleared"
  /\ axes' = 0 /\ buttons' = {}
  /\ UNCHANGED <<ui, running, starts, worldVars, padVars, clean>>

(* ... and only then does the emulator thread say that it does not run. *)
EmuEnds ==
  /\ emu = "cleared"
  /\ emu' = "gone" /\ running' = FALSE
  /\ UNCHANGED <<ui, starts, inputVars, worldVars, padVars, clean>>

(* gamepad_stop, after the emulator thread was joined: the polling thread   *)
(* ends where it tests g->run.                                              *)
PadsStop ==
  /\ ui = "stopping" /\ emu = "gone"
  /\ thread \in {"none", "poll"}
  /\ ui' = "down" /\ thread' = "none"
  /\ UNCHANGED <<emu, running, starts, inputVars, worldVars, pads, assigned,
                 explicit, last, have_last, pushing, clean>>

-----------------------------------------------------------------------------
(* The polling thread *)

Position(i) == IF i \in 1..Len(pads) THEN i ELSE 1

(* sync_devices: drop the pads that vanished, open those that appeared, if  *)
(* SDL can open them (ok), as far as there is room.                         *)
InOrder(S) ==
  [k \in 1..Cardinality(S) |->
     CHOOSE n \in S : Cardinality({m \in S : m <= n}) = k]

Kept ==
  LET at == InOrder({i \in 1..Len(pads) : pads[i] \in plugged})
  IN  [k \in 1..Len(at) |-> pads[at[k]]]
KeptIds == {Kept[i] : i \in 1..Len(Kept)}

New == plugged \ KeptIds

Opened_OneMore(ok) ==
  LET room == MaxPads + 1 - Len(Kept)
      those == InOrder(ok)
  IN  [k \in 1..(IF Len(those) <= room THEN Len(those) ELSE room) |-> those[k]]

Opened(ok) ==
  LET room == MaxPads - Len(Kept)
      those == InOrder(ok)
  IN  [k \in 1..(IF Len(those) <= room THEN Len(those) ELSE room) |-> those[k]]

Sync ==
  /\ thread = "poll"
  /\ \E ok \in SUBSET New : pads' = Kept \o Opened(ok)
  /\ assigned' = assigned \cap KeptIds
  /\ thread' = "read"
  /\ UNCHANGED <<sessionVars, inputVars, worldVars, explicit, last, have_last,
                 pushing, clean>>

(* Most passes do not enumerate. *)
NoSync ==
  /\ thread = "poll"
  /\ thread' = "read"
  /\ UNCHANGED <<sessionVars, inputVars, worldVars, pads, assigned, explicit,
                 last, have_last, pushing, clean>>

(* read_pad: the stick, else the d-pad, wherever the player has them; a     *)
(* pad that was unplugged since the last enumeration reads idle.            *)
Readings(p) == IF p \in plugged THEN Reading ELSE {Idle}

Was(b) == have_last /\ b \in last.held

(* The reading of the pad that drives, if it changed, is to be pushed: the  *)
(* paddles, and each button that changed.                                   *)
Poll ==
  /\ thread = "read"
  /\ IF pads = <<>> THEN /\ thread' = "poll"
                         /\ UNCHANGED <<last, have_last, pushing>>
     ELSE \E r \in Readings(pads[Position(explicit)]) :
              IF have_last /\ r = last
              THEN thread' = "poll" /\ UNCHANGED <<last, have_last, pushing>>
              ELSE /\ thread' = "push"
                   /\ last' = r /\ have_last' = TRUE
                   /\ pushing' = <<Paddles>>
                        \o (IF (0 \in r.held) # Was(0) THEN <<0>> ELSE <<>>)
                        \o (IF (1 \in r.held) # Was(1) THEN <<1>> ELSE <<>>)
  /\ UNCHANGED <<sessionVars, inputVars, worldVars, pads, assigned, explicit,
                 clean>>

(* apple2session_paddle and apple2session_paddle_button, outside the lock,  *)
(* with what was read: nothing is written when the session does not run.    *)
Push(r) ==
  /\ thread = "push"
  /\ IF Head(pushing) = Paddles
     THEN axes' = (IF running THEN r.stick ELSE axes) /\ UNCHANGED buttons
     ELSE /\ buttons' = IF ~running THEN buttons
                        ELSE IF Head(pushing) \in r.held
                             THEN buttons \cup {Head(pushing)}
                             ELSE buttons \ {Head(pushing)}
          /\ UNCHANGED axes
  /\ pushing' = Tail(pushing)
  /\ thread' = IF Len(pushing) = 1 THEN "poll" ELSE "push"
  /\ UNCHANGED <<sessionVars, worldVars, pads, assigned, explicit, last,
                 have_last, clean>>

-----------------------------------------------------------------------------
(* apple2session_gamepad_assign *)

Assign(i) ==
  /\ ui = "up" /\ thread # "none"
  /\ IF i \in 1..Len(pads)
     THEN assigned' = {pads[i]} /\ explicit' = i
     ELSE assigned' = {} /\ explicit' = Automatic
  /\ have_last' = FALSE
  /\ clean' = FALSE
  /\ UNCHANGED <<sessionVars, inputVars, worldVars, thread, pads, last, pushing>>

(* The world *)

Plug ==
  /\ given < MaxIds
  /\ given' = given + 1 /\ plugged' = plugged \cup {given + 1}
  /\ UNCHANGED <<sessionVars, inputVars, padVars, clean>>

Unplug(p) ==
  /\ p \in plugged
  /\ plugged' = plugged \ {p}
  /\ UNCHANGED <<sessionVars, inputVars, given, padVars, clean>>

-----------------------------------------------------------------------------
Init ==
  /\ ui = "down" /\ emu = "none" /\ running = FALSE /\ starts = 0
  /\ axes = 0 /\ buttons = {}
  /\ given = 0 /\ plugged = {}
  /\ thread = "none" /\ pads = <<>> /\ assigned = {} /\ explicit = Automatic
  /\ last = Idle /\ have_last = FALSE /\ pushing = <<>>
  /\ clean = TRUE

Session == Start \/ CoreUp \/ PadsStart \/ Stop \/ CoreStop \/ EmuEnds \/ PadsStop
Thread == Sync \/ NoSync \/ Poll \/ Push(last)
User == \/ \E i \in 0..MaxPads : Assign(i)
        \/ Plug
        \/ \E p \in Ids : Unplug(p)

Next == Session \/ Thread \/ User

Spec == Init /\ [][Next]_vars

-----------------------------------------------------------------------------
(* Every variable keeps its type; the pads open are at most MAX_PADS and no  *)
(* pad is open twice, however they come and go.                             *)
TypeOK ==
  /\ ui \in {"down", "starting", "up", "stopping"}
  /\ emu \in {"none", "loading", "loop", "cleared", "gone"}
  /\ running \in BOOLEAN /\ have_last \in BOOLEAN /\ clean \in BOOLEAN
  /\ axes \in Positions /\ buttons \subseteq Buttons
  /\ thread \in {"none", "poll", "read", "push"}
  /\ given \in 0..MaxIds /\ plugged \subseteq 1..given
  /\ pads \in Seq(Ids) /\ Len(pads) <= MaxPads
  /\ Cardinality({pads[i] : i \in 1..Len(pads)}) = Len(pads)
  /\ assigned \subseteq Ids /\ explicit \in 0..MaxPads
  /\ last \in Reading /\ Len(pushing) <= 3

(* Between pushes the machine has the paddles and the buttons of the last   *)
(* reading, through plugging, selecting and restarts; a button the pad does *)
(* not hold may be left over only from before a selection, or from the      *)
(* session before.                                                          *)
PadDrives ==
  emu = "loop" /\ thread \in {"poll", "read"} /\ have_last =>
    /\ axes = last.stick
    /\ last.held \subseteq buttons
    /\ clean => buttons = last.held

(* "Exactly one pad drives the single pair of paddles: the explicitly       *)
(* assigned one, else the first connected."  It is not so: *)
(* a pad removed from before the assigned one moves that one up, and         *)
(* explicit_idx is left (line 95).                                          *)
AssignedPadDrives ==
  thread = "read" /\ assigned # {} => pads[Position(explicit)] \in assigned
=============================================================================
