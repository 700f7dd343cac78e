------------------------------ MODULE Keyboard ------------------------------
(***************************************************************************)
(* The keyboard: the key events each frontend gets (gnome/window.c,        *)
(* kde/KeyForward.cpp, windows/main.c, macos/DisplayView.m), the map from  *)
(* them to the keys of the Apple II (core/src/input_map.c), and the        *)
(* session that hands them to the core while it runs.                      *)
(*                                                                         *)
(* Keys that the map treats alike are one: Apple keys, a letter, a key     *)
(* that Shift gives another character, and a key the Apple II has not.     *)
(***************************************************************************)
EXTENDS Naturals

CONSTANTS
  Kits,       (* the frontends checked                                     *)
  Strays,     (* outside Windows, focus may leave with a key down          *)
  Chords      (* on macOS, both Options may be down at once                *)

AllKits == {"gnome", "kde", "windows", "macos"}

ASSUME KeyboardAssumption ==
  Kits \subseteq AllKits /\ Strays \in BOOLEAN /\ Chords \in BOOLEAN

Apples == {"alt_l", "alt_r", "meta_l", "meta_r"}
Plain  == {"letter", "digit", "page_up"}
NoKey  == "none"

VARIABLES
  kit,
  focus,      (* the emulator's window gets the key events                 *)
  down,       (* the keys that are down                                    *)
  shift, ctrl,
  running,    (* s->running                                                *)
  held,       (* the core: keys it was told are down, not yet up           *)
  openAppleDown, closedAppleDown    (* macOS: of DisplayView               *)

desk == <<kit, focus, down, shift, ctrl>>
view == <<openAppleDown, closedAppleDown>>
vars == <<desk, running, held, view>>

-----------------------------------------------------------------------------
(* input_map.c: the keycode of an event, or NoKey.  A keysym that is no     *)
(* special key is the character typed.                                      *)

special_keycode(keysym) ==
  CASE keysym \in {"alt_l", "meta_l"} -> "RK_LALT"
    [] keysym \in {"alt_r", "meta_r"} -> "RK_RALT"
    [] OTHER                          -> NoKey

Shifted == [A |-> "a", exclam |-> "1"]

unshift_us(ch) == IF ch \in DOMAIN Shifted THEN Shifted[ch] ELSE ch

Printable == {"a", "A", "1", "exclam"}

key_from_event(keysym) ==
  IF special_keycode(keysym) # NoKey THEN special_keycode(keysym)
  ELSE IF keysym \in Printable THEN unshift_us(keysym)
  ELSE NoKey

(* apple2session_key and apple2host_inject_key, on a set of keycodes held.  *)
Session_key(h, isDown, keysym) ==
  LET code == key_from_event(keysym) IN
  IF ~running \/ code = NoKey THEN h
  ELSE IF isDown THEN h \cup {code} ELSE h \ {code}

-----------------------------------------------------------------------------
(* Each frontend's keysym of a key with the modifiers of the moment; NoKey  *)
(* is not forwarded.                                                        *)

Typed(k) == CASE k = "letter"  -> IF shift THEN "A" ELSE "a"
              [] k = "digit"   -> IF shift THEN "exclam" ELSE "1"
              [] k = "page_up" -> NoKey
              [] OTHER         -> k

(* GDK's keyvals are keysyms, of keys the Apple II has not as well.         *)
GnomeKeysym(k) == IF k = "page_up" THEN "page_up" ELSE Typed(k)

(* Qt has no text for a key with Ctrl: the letters have their key.  It has  *)
(* no right Meta.                                                           *)
KdeKeysym(k) ==
  CASE k = "meta_r"             -> "meta_l"
    [] ctrl /\ k = "letter"     -> "a"
    [] ctrl /\ k = "digit"      -> NoKey
    [] OTHER                    -> Typed(k)

(* translated_char masks Ctrl, charactersIgnoringModifiers all but Shift.   *)
Keysym(k) == CASE kit = "gnome" -> GnomeKeysym(k)
               [] kit = "kde"   -> KdeKeysym(k)
               [] OTHER         -> Typed(k)

forward_key(isDown, k) == held' = Session_key(held, isDown, Keysym(k))

(* macOS: Option is in the flags while either is down, and the key code     *)
(* says which one changed.                                                  *)
flagsChanged(k, option) ==
  /\ openAppleDown'   = IF k = "alt_l" THEN option ELSE openAppleDown
  /\ closedAppleDown' = IF k = "alt_r" THEN option ELSE closedAppleDown
  /\ LET opened == IF openAppleDown' = openAppleDown THEN held
                   ELSE Session_key(held, openAppleDown', "alt_l") IN
     held' = IF closedAppleDown' = closedAppleDown THEN opened
             ELSE Session_key(opened, closedAppleDown', "alt_r")

-----------------------------------------------------------------------------
Options == {"alt_l", "alt_r"}
KeysOf(kt) == IF kt = "macos" THEN Options \cup Plain ELSE Apples \cup Plain

(* A key goes down.  With the focus elsewhere nothing hears of it.          *)
Hears(k, isDown) ==
  IF ~focus THEN UNCHANGED <<held, view>>
  ELSE IF kit = "macos" /\ k \in Options
         THEN flagsChanged(k, down' \cap Options # {})
         ELSE forward_key(isDown, k) /\ UNCHANGED view

Press(k) ==
  /\ k \in KeysOf(kit) \ down
  /\ kit = "macos" /\ k \in Options /\ ~Chords => down \cap Options = {}
  /\ down' = down \cup {k}
  /\ Hears(k, TRUE)
  /\ UNCHANGED <<kit, focus, shift, ctrl, running>>

(* A key held repeats.  GNOME forwards it as a press, the others drop it,   *)
(* Windows also when the press was another window's.                        *)
Repeat(k) ==
  /\ focus /\ k \in down \ Apples
  /\ IF kit = "gnome" THEN forward_key(TRUE, k) ELSE UNCHANGED held
  /\ UNCHANGED <<desk, running, view>>

Release(k) ==
  /\ k \in down
  /\ down' = down \ {k}
  /\ Hears(k, FALSE)
  /\ UNCHANGED <<kit, focus, shift, ctrl, running>>

Modifier ==
  /\ \/ shift' = ~shift /\ UNCHANGED ctrl
     \/ ctrl' = ~ctrl /\ UNCHANGED shift
  /\ UNCHANGED <<kit, focus, down, running, held, view>>

-----------------------------------------------------------------------------
(* The focus.  Windows lifts both Apple keys as it goes; the other          *)
(* frontends do not hear of it.                                             *)

KillFocus_LiftsOpen ==
  /\ kit = "windows" /\ focus
  /\ focus' = FALSE
  /\ held' = Session_key(held, FALSE, "alt_l")
  /\ UNCHANGED <<kit, down, shift, ctrl, running, view>>

KillFocus ==
  /\ kit = "windows" /\ focus
  /\ focus' = FALSE
  /\ held' = Session_key(Session_key(held, FALSE, "alt_l"), FALSE, "alt_r")
  /\ UNCHANGED <<kit, down, shift, ctrl, running, view>>

LosesFocus ==
  /\ kit # "windows" /\ focus
  /\ Strays \/ down = {}
  /\ focus' = FALSE
  /\ UNCHANGED <<kit, down, shift, ctrl, running, held, view>>

(* macOS' view tells only of the focus going to another view of its window. *)
ResignFirstResponder ==
  /\ kit = "macos" /\ focus
  /\ focus' = FALSE
  /\ LET opened == IF openAppleDown THEN Session_key(held, FALSE, "alt_l")
                   ELSE held IN
     held' = IF closedAppleDown THEN Session_key(opened, FALSE, "alt_r")
             ELSE opened
  /\ openAppleDown' = FALSE /\ closedAppleDown' = FALSE
  /\ UNCHANGED <<kit, down, shift, ctrl, running>>

GetsFocus ==
  /\ ~focus
  /\ focus' = TRUE
  /\ UNCHANGED <<kit, down, shift, ctrl, running, held, view>>

(* The session: the core goes with what it held.                            *)
Starts ==
  /\ ~running
  /\ running' = TRUE
  /\ UNCHANGED <<desk, held, view>>

Stops ==
  /\ running
  /\ running' = FALSE /\ held' = {}
  /\ UNCHANGED <<desk, view>>

-----------------------------------------------------------------------------
Init ==
  /\ kit \in Kits
  /\ focus = TRUE /\ down = {} /\ shift = FALSE /\ ctrl = FALSE
  /\ running = FALSE /\ held = {}
  /\ openAppleDown = FALSE /\ closedAppleDown = FALSE

Next == \/ \E k \in Apples \cup Plain : Press(k) \/ Repeat(k) \/ Release(k)
        \/ Modifier
        \/ KillFocus \/ LosesFocus \/ ResignFirstResponder \/ GetsFocus
        \/ Starts \/ Stops

Spec == Init /\ [][Next]_vars

-----------------------------------------------------------------------------
Means == [alt_l |-> "RK_LALT", meta_l |-> "RK_LALT",
          alt_r |-> "RK_RALT", meta_r |-> IF kit = "kde" THEN "RK_LALT" ELSE "RK_RALT",
          letter |-> "a", digit |-> "1", page_up |-> NoKey]

(* "A missed release would leave one stuck down": an Apple key the machine  *)
(* holds is one the user holds, and so is a key that types, whatever the    *)
(* modifiers, the session and on Windows the focus do between press and     *)
(* release.  (A plain key, of which the core holds nothing, may be left: on *)
(* Windows and macOS if it is released without the focus, on KDE if it is   *)
(* not a letter and Ctrl is down as it is released.)                        *)
PlainMayStay(code) ==
  \/ kit \in {"windows", "macos"} /\ code \in {"a", "1"}
  \/ kit = "kde" /\ code = "1"

NoKeyStuck ==
  \A code \in held : (\E k \in down : Means[k] = code) \/ PlainMayStay(code)
=============================================================================
