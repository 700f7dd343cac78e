------------------------------ MODULE Settings ------------------------------
(***************************************************************************)
(* The settings store, settings.c: a list of keys and values in memory, a  *)
(* dirty flag, and one file all four frontends share.  A set saves at      *)
(* once: the whole list is written to a temporary file, which then         *)
(* replaces the file - on Windows after the file has been removed.  The    *)
(* process may die between any two of these steps, and the disk may fail   *)
(* at any of them: only that the temporary file does not open is noticed.  *)
(***************************************************************************)
EXTENDS Naturals

CONSTANTS
  Keys,
  Unset,            (* no such key in the list                             *)
  Absent,           (* no such file                                        *)
  Torn,             (* a file being written, or one whose end is missing   *)
  MaxFailures       (* a bound: how often the disk fails                   *)

ASSUME FilesAssumption == Absent # Torn

VARIABLES
  kit,              (* the frontend that runs, or ran last                 *)
  settings,         (* the list: a value, or Unset, for each key           *)
  dirty,            (* settings_dirty                                      *)
  settings_file,
  tmp,
  io,               (* how far apple2session_settings_flush is             *)
  before,           (* the list last put in the place of the file          *)
  unnoticed,        (* an error settings.c ignores has cost the last save  *)
  failures          (* times the disk has failed                           *)

diskVars  == <<settings_file, tmp, before, unnoticed>>
storeVars == <<settings, dirty, io, failures>>

Nothing == [k \in Keys |-> Unset]

(* What a whole file, or none, is read as. *)
Read(f) == IF f = Absent THEN Nothing ELSE f

-----------------------------------------------------------------------------
GetStr(k, def) == IF settings[k] = Unset THEN def ELSE settings[k]

(* set_locked, and the start of the flush apple2session_set_str ends in.    *)
SetStr_ForgetsDirty(k, v) ==
  /\ settings' = [settings EXCEPT ![k] = v]
  /\ dirty' = (dirty \/ settings[k] = Unset)
  /\ io' = IF dirty' THEN "flush" ELSE "idle"
  /\ UNCHANGED <<kit, failures, diskVars>>

SetStr(k, v) ==
  /\ settings' = [settings EXCEPT ![k] = v]
  /\ dirty' = (dirty \/ settings[k] # v)
  /\ io' = IF dirty' THEN "flush" ELSE "idle"
  /\ UNCHANGED <<kit, failures, diskVars>>

Fails == failures < MaxFailures /\ failures' = failures + 1

(* Unable to open the file, the flush leaves the list dirty for the next.   *)
FlushFails ==
  /\ io = "flush"
  /\ Fails
  /\ io' = "idle"
  /\ UNCHANGED <<kit, settings, dirty, diskVars>>

FlushOpens ==
  /\ io = "flush"
  /\ tmp' = Torn
  /\ io' = "open"
  /\ UNCHANGED <<kit, settings, dirty, failures, settings_file, before, unnoticed>>

(* Whether all of the list reached the disk is not asked.                   *)
FlushWrites ==
  /\ io = "open"
  /\ \/ tmp' = settings /\ UNCHANGED failures
     \/ tmp' = Torn /\ Fails
  /\ io' = "written"
  /\ UNCHANGED <<kit, settings, dirty, settings_file, before, unnoticed>>

(* Windows' rename does not replace a file: it is removed first, if it can. *)
FlushRemoves ==
  /\ io = "written" /\ kit = "windows"
  /\ \/ settings_file' = Absent /\ UNCHANGED failures
     \/ settings_file # Absent /\ Fails /\ UNCHANGED settings_file
  /\ io' = "removed"
  /\ UNCHANGED <<kit, settings, dirty, tmp, before, unnoticed>>

(* The rename, whose result is ignored: the list counts as saved.           *)
EndsFlush ==
  /\ io = IF kit = "windows" THEN "removed" ELSE "written"
  /\ dirty' = FALSE
  /\ io' = "idle"
  /\ UNCHANGED <<kit, settings>>

InTheWay == kit = "windows" /\ settings_file # Absent

FlushRenames ==
  /\ EndsFlush
  /\ ~InTheWay
  /\ settings_file' = tmp
  /\ tmp' = Absent
  /\ before' = settings
  /\ unnoticed' = (tmp = Torn)
  /\ UNCHANGED failures

RenameFails ==
  /\ EndsFlush
  /\ IF InTheWay THEN UNCHANGED failures ELSE Fails
  /\ unnoticed' = TRUE
  /\ UNCHANGED <<settings_file, tmp, before>>

Flush == FlushFails \/ FlushOpens \/ FlushWrites \/ FlushRemoves
         \/ FlushRenames \/ RenameFails

(* settings_init: the file is read; what is in it is what was saved last.   *)
(* Which lines a torn file has is settled when it is read, as cut.          *)
SettingsInit(cut) ==
  LET found == IF settings_file = Torn THEN cut ELSE Read(settings_file) IN
  /\ settings' = found /\ before' = found
  /\ settings_file' = IF settings_file = Torn THEN cut ELSE settings_file
  /\ unnoticed' = FALSE
  /\ dirty' = FALSE
  /\ io' = "idle"
  /\ UNCHANGED <<failures, tmp>>

(* The process is gone, and the list with it. *)
SettingsGone ==
  /\ settings' = Nothing
  /\ dirty' = FALSE
  /\ io' = "idle"
  /\ UNCHANGED <<kit, failures, diskVars>>
=============================================================================
