----------------------------- MODULE FrameStore -----------------------------
(***************************************************************************)
(* The session's latest-frame store (core/src/session.c): the emulator     *)
(* thread stores each changed frame and calls the one registered frame     *)
(* callback, frontends copy the frame when its serial differs from the one *)
(* they hold, and a restart begins the serials again.                      *)
(*                                                                         *)
(* A picture is the number of changed frames the core had produced when it *)
(* came; NoPicture stands for an empty buffer (frame_w = 0).               *)
(***************************************************************************)
EXTENDS Naturals

CONSTANTS
  Views,        (* who may be registered, and copies frames                *)
  NoView,
  MaxPictures,  (* bound: changed frames in a run                          *)
  MaxStarts     (* bound: starts of the session                            *)

ASSUME StoreAssumption ==
  /\ NoView \notin Views
  /\ MaxPictures \in Nat \ {0} /\ MaxStarts \in Nat \ {0}

NoPicture == 0

VARIABLES
  session,    (* "down", "starting", "up" or "freed"                       *)
  starts,     (* how often it was started                                  *)
  produced,   (* changed frames the core has produced                      *)
  stored,     (* frame, frame_w, frame_h: the picture in the store         *)
  serial,     (* frame_serial                                              *)
  emu,        (* "run", or where on_core_frame is: "notify", "calling"     *)
  callback    (* frame_cb_ctx, NoView when frame_cb is NULL                *)

storeVars == <<session, starts, produced, stored, serial, emu, callback>>

-----------------------------------------------------------------------------
StoreInit ==
  /\ session = "down" /\ starts = 0
  /\ produced = 0 /\ stored = NoPicture /\ serial = 0
  /\ emu = "run" /\ callback = NoView

(* apple2session_start resets the store without its mutex: a render thread  *)
(* may look in between.                                                     *)
StartSerial ==
  /\ session = "down" /\ starts < MaxStarts
  /\ session' = "starting" /\ starts' = starts + 1
  /\ serial' = 0
  /\ UNCHANGED <<produced, stored, emu, callback>>

StartEmpty ==
  /\ session = "starting"
  /\ session' = "up"
  /\ stored' = NoPicture
  /\ UNCHANGED <<starts, produced, serial, emu, callback>>

(* on_core_frame: under frame_mtx ... *)
Store ==
  /\ session = "up" /\ emu = "run"
  /\ produced < MaxPictures
  /\ produced' = produced + 1
  /\ stored' = produced + 1
  /\ serial' = serial + 1
  /\ emu' = "notify"
  /\ UNCHANGED <<session, starts, callback>>

(* ... and then under frame_cb_mtx, which a call in flight ("calling")      *)
(* holds.                                                                   *)
Notify ==
  /\ emu = "notify"
  /\ emu' = IF callback = NoView THEN "run" ELSE "calling"
  /\ UNCHANGED <<session, starts, produced, stored, serial, callback>>

CallReturns ==
  /\ emu = "calling"
  /\ emu' = "run"
  /\ UNCHANGED <<session, starts, produced, stored, serial, callback>>

(* apple2session_stop joins the emulator thread, wherever it was. *)
Stop ==
  /\ session = "up" /\ emu = "run"
  /\ session' = "down"
  /\ UNCHANGED <<starts, produced, stored, serial, emu, callback>>

(* apple2session_free, which stops the session first. *)
Free ==
  /\ session \in {"down", "up"} /\ emu = "run"
  /\ session' = "freed"
  /\ UNCHANGED <<starts, produced, stored, serial, emu, callback>>

(* apple2session_set_frame_callback: waits for a call in flight. *)
CallbackSettable == emu # "calling"
SetCallback(v) == CallbackSettable /\ callback' = v

(* apple2session_copy_frame to a buffer that holds serial s. *)
Copies(s) == serial # s /\ stored # NoPicture
=============================================================================
