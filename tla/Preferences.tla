---------------------------- MODULE Preferences ----------------------------
(***************************************************************************)
(* What the user sets and what the machine runs with: the preferences of   *)
(* the four frontends (gnome/prefs.c, kde/SettingsDialog.cpp,              *)
(* windows/main.c, macos/AppDelegate.m) over the store of Settings, and    *)
(* the options session.c starts the machine with.  Options of the machine  *)
(* take effect when the frontend restarts the session, most of them when   *)
(* its dialog closes; the display follows at once.                         *)
(*                                                                         *)
(* The core's options are one of them, slot7.  An address is its parts:    *)
(* whether it has a colon, the kind of host before it, and the port, 0 for *)
(* a port that is none and NoPort for no text at all.                      *)
(***************************************************************************)
EXTENDS Settings, Sequences

CONSTANTS
  Kits,             (* the frontends checked                               *)
  Hops,             (* a launch may be of another frontend than the last   *)
  Crashes,          (* the process may die                                 *)
  Texts,            (* what the user may type as an address                *)
  OldSlot7          (* what settings.ini may hold for slot7 to begin with  *)

AllKits == {"gnome", "kde", "windows", "macos"}

ASSUME PreferencesAssumption ==
  /\ Kits \subseteq AllKits /\ Kits # {}
  /\ Hops \in BOOLEAN /\ Crashes \in BOOLEAN

VARIABLES
  up,               (* the process runs                                    *)
  dialog,           (* "none", "open", or (macOS) "hidden": closed, kept   *)
  box, entry,       (* the dialog's switch and address field               *)
  editing,          (* (macOS) the field has an edit it has not reported   *)
  machine_dirty,
  todo,             (* the settings the handler has still to set           *)
  owed,             (* what it does after that                             *)
  machine,          (* what the session started with, or Stopped           *)
  webui,            (* webui_url holds the built-in FujiNet's address      *)
  smooth,           (* the display's                                       *)
  torn              (* some process ended with a set not saved, or in part *)

dialogVars == <<dialog, box, entry, editing, machine_dirty>>
workVars   == <<todo, owed>>
shownVars  == <<machine, webui, smooth>>
prefsVars  == <<up, dialogVars, workVars, shownVars, torn>>
allVars    == <<kit, storeVars, diskVars, prefsVars>>

-----------------------------------------------------------------------------
(* session.c: addresses ...                                                 *)

NoPort    == 65536
EmptyText == [colon |-> FALSE, host |-> "", port |-> NoPort]

Parses(t) ==
  \/ t = EmptyText
  \/ t.port \in 1..65535 /\ (t.colon => t.host \in {"ip", "localhost"})

ParseHostport(t) ==
  [host |-> IF t.colon /\ t.host = "ip" THEN "ip" ELSE "127.0.0.1",
   port |-> IF t = EmptyText THEN 1985 ELSE t.port]

(* ... and options.  A value the core does not know (an older file's) gives *)
(* way to the default.                                                      *)
Slot7Names == <<"Empty", "FujiNet">>
InTable(v) == \E i \in DOMAIN Slot7Names : Slot7Names[i] = v

AdoptOpt(value, def) == IF InTable(value) THEN value ELSE def

DefaultOpts(s) ==
  LET get(k, def) == IF s[k] = Unset THEN def ELSE s[k] IN
  [slot7     |-> AdoptOpt(s["slot7"], "FujiNet"),
   scanlines |-> get("scanlines", 1),
   external  |-> get("fujinet_external", 0),
   addr      |-> get("fujinet_external_addr", EmptyText)]

Stopped == [style |-> "stopped"]

StartOpts(o) ==
  IF o.external = 1 /\ ~Parses(o.addr)
    THEN Stopped
    ELSE [slot7 |-> o.slot7,
          style |-> IF o.scanlines = 1 THEN "Half Scanlines" ELSE "None",
          endpoint |-> ParseHostport(IF o.external = 1 THEN o.addr ELSE EmptyText),
          external |-> o.external]

(* apple2session_start of a stopped session.  Listening for an external     *)
(* FujiNet blanks the web UI's address, and nothing writes it again.        *)
StartsWith(s) ==
  LET o == DefaultOpts(s) IN
  /\ machine' = StartOpts(o)
  /\ webui' = (webui /\ ~(o.external = 1 /\ Parses(o.addr)))

-----------------------------------------------------------------------------
(* Handlers: some settings to set one after the other, then the display     *)
(* applied, the session restarted, or both.                                 *)

Idle == up /\ io = "idle" /\ todo = <<>> /\ owed = {}

Save(sets, then) ==
  /\ todo' = sets
  /\ owed' = then
  /\ UNCHANGED <<kit, storeVars, diskVars, up, shownVars, torn>>

SetNext ==
  /\ up /\ io = "idle" /\ todo # <<>>
  /\ SetStr(Head(todo)[1], Head(todo)[2])
  /\ todo' = Tail(todo)
  /\ UNCHANGED <<up, dialogVars, owed, shownVars, torn>>

FlushStep ==
  /\ Flush
  /\ UNCHANGED prefsVars

SavesDone(what) == up /\ io = "idle" /\ todo = <<>> /\ what \in owed

ApplyDisplay ==
  /\ SavesDone("display")
  /\ smooth' = GetStr("smooth_scaling", 0)
  /\ owed' = owed \ {"display"}
  /\ UNCHANGED <<kit, storeVars, diskVars, up, dialogVars, todo, machine, webui,
                 torn>>

(* Stop, default options, start. *)
RestartSession ==
  /\ SavesDone("restart") /\ "display" \notin owed
  /\ StartsWith(settings)
  /\ owed' = owed \ {"restart"}
  /\ UNCHANGED <<kit, storeVars, diskVars, up, dialogVars, todo, smooth, torn>>

-----------------------------------------------------------------------------
(* Opening a dialog reads the settings into it; macOS keeps its window.     *)

Show(k) ==
  /\ kit = k
  /\ Idle /\ dialog = "none"
  /\ dialog' = "open"
  /\ entry' = GetStr("fujinet_external_addr", EmptyText)
  /\ box' = GetStr("fujinet_external", 0)
  /\ editing' = FALSE /\ machine_dirty' = FALSE
  /\ UNCHANGED <<kit, storeVars, diskVars, up, workVars, shownVars, torn>>

GnomeShow   == Show("gnome")
KdeShow     == Show("kde")
WindowsShow == Show("windows")
MacShow     == Show("macos")
MacReshow ==
  /\ kit = "macos"
  /\ Idle /\ dialog = "hidden"
  /\ dialog' = "open"
  /\ UNCHANGED <<kit, storeVars, diskVars, up, box, entry, editing,
                 machine_dirty, workVars, shownVars, torn>>

In(k) == kit = k /\ Idle /\ dialog = "open"

(* A row shows the first entry for a value that is not in the table, and    *)
(* tells of a choice only when it is another than the one shown.  With no   *)
(* value, GNOME's and KDE's rows show the default, Windows' menu the first. *)
RowShows ==
  LET value == IF kit = "windows" THEN settings["slot7"]
                                  ELSE GetStr("slot7", "FujiNet")
  IN IF InTable(value) THEN value ELSE Slot7Names[1]
Choices  == {Slot7Names[i] : i \in DOMAIN Slot7Names}

Option(v, then) == Save(<< <<"slot7", v>> >>, then)
Marked == machine_dirty' = TRUE /\ UNCHANGED <<dialog, box, entry, editing>>

ComboStrChanged ==
  /\ In("gnome")
  /\ \E v \in Choices \ {RowShows} : Option(v, {})
  /\ Marked

OptionRowChanged ==
  /\ In("kde")
  /\ \E v \in Choices \ {RowShows} : Option(v, {})
  /\ Marked

OptionChanged ==
  /\ In("macos")
  /\ \E v \in Choices \ {settings["slot7"]} : Option(v, {})
  /\ Marked

(* Windows' options are menus, and restart the session at once.             *)
OnCommandOption ==
  /\ kit = "windows" /\ Idle /\ dialog = "none"
  /\ \E v \in Choices \ {settings["slot7"]} : Option(v, {"restart"})
  /\ UNCHANGED dialogVars

Scanlines(then) ==
  LET on == 1 - GetStr("scanlines", 1) IN
  Save(<< <<"scanlines", on>>, <<"smooth_scaling", on>> >>, then)

ScanlinesChanged      == In("gnome") /\ Scanlines({"display"}) /\ Marked
ScanlinesToggled      == In("kde") /\ Scanlines({"display"}) /\ Marked
MacScanlinesChanged   == In("macos") /\ Scanlines({"display"}) /\ Marked
OnCommandScanlines ==
  /\ kit = "windows" /\ Idle /\ dialog = "none"
  /\ Scanlines({"display", "restart"})
  /\ UNCHANGED dialogVars

(* The switch and the address.  GNOME and macOS save them as they change,   *)
(* the address only if it parses ...                                        *)
Switch == box' = 1 - box /\ UNCHANGED <<dialog, entry, editing>>

SwitchChanged ==
  /\ In("gnome")
  /\ Save(<< <<"fujinet_external", 1 - box>> >>, {})
  /\ Switch /\ machine_dirty' = TRUE

ExternalChanged ==
  /\ In("macos")
  /\ Save(<< <<"fujinet_external", 1 - box>> >>, {})
  /\ Switch /\ machine_dirty' = TRUE

Address(t) == << <<"fujinet_external_addr", t>> >>
SavedAddress == GetStr("fujinet_external_addr", EmptyText)

AddrChanged_SavesAny ==
  /\ In("gnome") /\ box = 1
  /\ \E t \in Texts \ {entry} :
       /\ entry' = t
       /\ IF t # SavedAddress
            THEN Save(Address(t), {}) /\ machine_dirty' = TRUE
            ELSE Save(<<>>, {}) /\ UNCHANGED machine_dirty
  /\ UNCHANGED <<dialog, box, editing>>

AddrChanged ==
  /\ In("gnome") /\ box = 1
  /\ \E t \in Texts \ {entry} :
       /\ entry' = t
       /\ IF Parses(t) /\ t # SavedAddress
            THEN Save(Address(t), {}) /\ machine_dirty' = TRUE
            ELSE Save(<<>>, {}) /\ UNCHANGED machine_dirty
  /\ UNCHANGED <<dialog, box, editing>>

(* ... macOS when the edit ends, ...                                        *)
ExternalAddrEdited ==
  /\ In("macos") /\ box = 1
  /\ \E t \in Texts \ {entry} : entry' = t
  /\ editing' = TRUE
  /\ UNCHANGED <<kit, storeVars, diskVars, up, dialog, box, machine_dirty,
                 workVars, shownVars, torn>>

Committed(then) ==
  IF editing /\ Parses(entry) THEN Save(Address(entry), then) ELSE Save(<<>>, then)

ExternalAddrChanged ==
  /\ In("macos") /\ editing
  /\ Committed({})
  /\ editing' = FALSE
  /\ machine_dirty' = (machine_dirty \/ Parses(entry))
  /\ UNCHANGED <<dialog, box, entry>>

(* ... KDE and Windows when the dialog is done.                             *)
EditsField(k) ==
  /\ In(k)
  /\ \/ box' = 1 - box /\ UNCHANGED entry
     \/ box = 1 /\ UNCHANGED box /\ \E t \in Texts \ {entry} : entry' = t
  /\ UNCHANGED <<kit, storeVars, diskVars, up, dialog, editing, machine_dirty,
                 workVars, shownVars, torn>>

KdeEdits     == EditsField("kde")
WindowsEdits == EditsField("windows")

-----------------------------------------------------------------------------
(* Closing. *)

Closed ==
  /\ dialog' = "none" /\ box' = 0 /\ entry' = EmptyText
  /\ machine_dirty' = FALSE /\ editing' = FALSE

RestartIf(b) == IF b THEN {"restart"} ELSE {}

PrefsClosed ==
  /\ In("gnome")
  /\ Save(<<>>, RestartIf(machine_dirty))
  /\ Closed

(* KDE refuses to close on an address it cannot use, but saves it with the  *)
(* switch off; what is unchanged is not set.                                *)
Usable == box = 1 => Parses(entry)

DoneSets ==
  (IF GetStr("fujinet_external", 0) # box
     THEN << <<"fujinet_external", box>> >> ELSE <<>>)
  \o (IF SavedAddress # entry THEN Address(entry) ELSE <<>>)

Done_NotDirty ==
  /\ In("kde") /\ Usable
  /\ Save(DoneSets, RestartIf(machine_dirty))
  /\ Closed

Done ==
  /\ In("kde") /\ Usable
  /\ LET then == RestartIf(machine_dirty \/ DoneSets # <<>>) IN
     Save(DoneSets, then)
  /\ Closed

(* So does Windows' OK; it sets both in any case.                           *)
ConnApply ==
  /\ In("windows") /\ Usable
  /\ LET then == RestartIf(DoneSets # <<>>) IN
     Save(<< <<"fujinet_external", box>> >> \o Address(entry), then)
  /\ Closed

ConnCancel ==
  /\ In("windows")
  /\ Save(<<>>, {})
  /\ Closed

(* macOS commits an edit under way before it looks at the dirty flag.       *)
WindowWillClose ==
  /\ In("macos")
  /\ LET then == RestartIf(machine_dirty \/ (editing /\ Parses(entry))) IN
     Committed(then)
  /\ dialog' = "hidden"
  /\ machine_dirty' = FALSE /\ editing' = FALSE
  /\ UNCHANGED <<box, entry>>

(* ROMs imported restart the session as well.  The other frontends' dialogs *)
(* keep the menu from the user.                                             *)
ImportRoms ==
  /\ Idle
  /\ dialog # "open" \/ kit = "macos"
  /\ Save(<<>>, {"restart"})
  /\ UNCHANGED dialogVars

-----------------------------------------------------------------------------
(* The process.  free() stops the session and saves what is still dirty;    *)
(* macOS ends without it.                                                   *)

Quits ==
  /\ Idle
  /\ owed' = {"quit"}
  /\ io' = IF dirty /\ kit # "macos" THEN "flush" ELSE "idle"
  /\ UNCHANGED <<kit, settings, dirty, failures, diskVars, up, dialogVars, todo,
                 shownVars, torn>>

Ends ==
  /\ up' = FALSE
  /\ SettingsGone
  /\ Closed
  /\ todo' = <<>> /\ owed' = {}
  /\ machine' = Stopped /\ webui' = TRUE /\ smooth' = 0
  /\ torn' = (torn \/ todo # <<>> \/ dirty \/ unnoticed)

Exits == SavesDone("quit") /\ Ends
Dies  == Crashes /\ up /\ Ends

(* What a key may hold. *)
Flags == {"scanlines", "smooth_scaling", "fujinet_external"}
Held(k) ==
  {Unset} \cup CASE k = "slot7"                 -> Choices \cup OldSlot7
                 [] k = "fujinet_external_addr" -> Texts \cup {EmptyText}
                 [] k \in Flags                 -> {0, 1}
                 [] OTHER                       -> {}

(* What may be left of a list cut off at some point: some of its lines, and *)
(* of one line a part, which is read as some other value.                   *)
Cuts(s) ==
  UNION {{[j \in Keys |-> IF j = k THEN v ELSE IF j \in kept THEN s[j] ELSE Unset] :
            v \in Held(k), kept \in SUBSET Keys} : k \in Keys}

(* settings_init and the first start.  A new process has the web UI's       *)
(* address from paths_init.                                                 *)
Launch ==
  /\ ~up
  /\ up' = TRUE
  /\ kit' \in IF Hops THEN Kits ELSE {kit}
  /\ \E cut \in IF settings_file = Torn THEN Cuts(before) ELSE {Nothing} :
       SettingsInit(cut)
  /\ StartsWith(settings')
  /\ smooth' = IF settings'["smooth_scaling"] = Unset
               THEN 0 ELSE settings'["smooth_scaling"]
  /\ UNCHANGED <<dialogVars, workVars, torn>>

-----------------------------------------------------------------------------
PrefsInit ==
  /\ kit \in Kits
  /\ tmp = Absent /\ io = "idle" /\ dirty = FALSE /\ failures = 0
  /\ settings = Nothing
  /\ settings_file \in {Absent} \cup {[Nothing EXCEPT !["slot7"] = v] : v \in OldSlot7}
  /\ before = Read(settings_file) /\ unnoticed = FALSE
  /\ up = FALSE
  /\ dialog = "none" /\ box = 0 /\ entry = EmptyText
  /\ editing = FALSE /\ machine_dirty = FALSE
  /\ todo = <<>> /\ owed = {}
  /\ machine = Stopped /\ webui = TRUE /\ smooth = 0
  /\ torn = FALSE

(* No list of such values is taken for a file that is missing or torn.      *)
ASSUME StoreAssumption ==
  /\ Flags \cup {"slot7", "fujinet_external_addr"} \subseteq Keys
  /\ \A name \in Held("slot7"), text \in Held("fujinet_external_addr") :
       \A flag \in [Flags -> {Unset, 0, 1}] :
         [k \in Keys |-> CASE k = "slot7"                 -> name
                          [] k = "fujinet_external_addr" -> text
                          [] k \in Flags                 -> flag[k]
                          [] OTHER                       -> Unset]
           \notin {Absent, Torn}

Dialogs == GnomeShow \/ KdeShow \/ WindowsShow \/ MacShow \/ MacReshow
           \/ PrefsClosed \/ Done \/ ConnApply \/ ConnCancel \/ WindowWillClose
Rows == ComboStrChanged \/ OptionRowChanged \/ OptionChanged \/ OnCommandOption
        \/ ScanlinesChanged \/ ScanlinesToggled \/ MacScanlinesChanged
        \/ OnCommandScanlines
Connection == SwitchChanged \/ ExternalChanged \/ AddrChanged
              \/ ExternalAddrEdited \/ ExternalAddrChanged
              \/ KdeEdits \/ WindowsEdits
Work == SetNext \/ FlushStep \/ ApplyDisplay \/ RestartSession \/ ImportRoms
Process == Quits \/ Exits \/ Dies \/ Launch

PrefsNext == Dialogs \/ Rows \/ Connection \/ Work \/ Process

PrefsSpec == PrefsInit /\ [][PrefsNext]_allVars

-----------------------------------------------------------------------------
(* The file is the last save that ended, whole, and with nothing left to    *)
(* save it is what the program goes by.  (On Windows it may be missing, if  *)
(* the process died between its removal and the rename.)  Does not hold:    *)
(* settings.c ignores that a write, the removal or the rename failed.       *)
FileIsLastSave ==
  /\ \/ settings_file # Absent /\ settings_file # Torn /\ settings_file = before
     \/ settings_file = Absent /\ (kit = "windows" \/ before = Nothing)
  /\ Idle /\ ~dirty => settings = Read(settings_file)

(* Whenever the process dies, the next one finds the last save whole; a     *)
(* file that does not open is saved later.  Only an error settings.c        *)
(* ignores spoils that, and only to the end of the next save that meets     *)
(* none, however the last one left the two files.                           *)
SettingsSurvive == ~unnoticed => FileIsLastSave

(* With no dialog open, the machine runs with the options that are saved,   *)
(* and the display shows what is saved: no change is left waiting for a     *)
(* restart that does not come, whichever frontend made it and however.      *)
RestartApplies ==
  Idle /\ dialog # "open" =>
    /\ machine = StartOpts(DefaultOpts(settings))
    /\ smooth = GetStr("smooth_scaling", 0)

(* No frontend brings the machine down by its preferences: with FujiNet     *)
(* external, the address saved is one start() can use, whatever was typed   *)
(* and saved with the switch off.  (Unless a process ended with only one of *)
(* two settings saved, the switch on and the address not, or with a file    *)
(* that an ignored error had cut.)                                          *)
ExternalAddressParses ==
  Idle /\ ~torn /\ GetStr("fujinet_external", 0) = 1 => Parses(SavedAddress)

(* Does not hold: once FujiNet was external, the web UI of the built-in one *)
(* has no address until the program is started again.                       *)
WebUiIsServed ==
  Idle /\ machine # Stopped /\ machine.external = 0 => webui

(* "Defaults to the first, which is also what apple2session_default_opts    *)
(* falls back to."  Does not hold: the first entry of slot 7 is Empty, and  *)
(* the default FujiNet.                                                     *)
MenuShowsTheMachine ==
  Idle /\ kit = "windows" /\ machine # Stopped => machine.slot7 = RowShows
=============================================================================
