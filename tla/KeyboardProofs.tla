--------------------------- MODULE KeyboardProofs ---------------------------
(***************************************************************************)
(* Proofs about Keyboard.  The invariant says what the frontend and the    *)
(* machine have in common of a key that is held, with the focus and        *)
(* without.                                                                *)
(***************************************************************************)
EXTENDS Keyboard, TLAPS

(* Where the frontend hears of all it needs: Windows of the focus it loses, *)
(* the others if the focus stays while a key is down, macOS if it can tell  *)
(* which Option changed.                                                    *)
HearsAll == kit # "windows" => ~Strays /\ (kit = "macos" => ~Chords)

Codes == {"RK_LALT", "RK_RALT", "a", "1"}

ValuesOK ==
  /\ kit \in AllKits
  /\ down \subseteq KeysOf(kit)
  /\ held \subseteq Codes
  /\ focus \in BOOLEAN /\ shift \in BOOLEAN /\ ctrl \in BOOLEAN
  /\ running \in BOOLEAN
  /\ openAppleDown \in BOOLEAN /\ closedAppleDown \in BOOLEAN

StoppedInv == ~running => held = {}

(* Away from the window nothing is held that a release would have to lift.  *)
AwayInv == (HearsAll /\ ~focus) => \A code \in held : PlainMayStay(code)

(* macOS: the view knows of an Apple key that is held. *)
ViewInv ==
  kit = "macos" =>
    /\ "RK_LALT" \in held => openAppleDown
    /\ "RK_RALT" \in held => closedAppleDown
    /\ ~Chords => ~(Options \subseteq down)

KeyInv ==
  ValuesOK /\ StoppedInv /\ AwayInv /\ ViewInv /\ (HearsAll => NoKeyStuck)

USE DEF AllKits, Apples, Plain, Options, KeysOf, desk, view

-----------------------------------------------------------------------------
(* The map. *)

(* Whatever the modifiers, an event of a key is of the code the key means,  *)
(* or of none: only KDE's digits with Ctrl are.                             *)
LEMMA CodeOfKey ==
  ASSUME ValuesOK, NEW k \in Apples \cup Plain
  PROVE  LET code == key_from_event(Keysym(k)) IN
         \/ code = Means[k]
         \/ code = NoKey /\ kit = "kde" /\ k = "digit"
BY DEF ValuesOK, Means, NoKey, Keysym, GnomeKeysym, KdeKeysym, Typed,
       key_from_event, special_keycode, unshift_us, Shifted, Printable

(* A key means a code of the Apple II's, or none. *)
LEMMA CodeIsKnown ==
  ASSUME ValuesOK, NEW k \in Apples \cup Plain
  PROVE  Means[k] \in Codes \cup {NoKey}
BY DEF ValuesOK, Means, NoKey, Codes

(* Having no key is no code. *)
LEMMA KeysDiffer == NoKey \notin Codes
BY DEF NoKey, Codes

(* The Apple keys' keysyms are the codes of the Apple keys. *)
LEMMA AppleCodes ==
  /\ key_from_event("alt_l") = "RK_LALT"
  /\ key_from_event("alt_r") = "RK_RALT"
BY DEF key_from_event, special_keycode, NoKey

(* An event of a key leaves the codes held known, and none in a machine     *)
(* that is not running; it changes the key's code only ...                  *)
LEMMA ForwardKey ==
  ASSUME ValuesOK, StoppedInv, NEW k \in Apples \cup Plain,
         NEW isDown \in BOOLEAN, forward_key(isDown, k)
  PROVE  /\ held' \subseteq Codes
         /\ ~running => held' = {}
         /\ held' \subseteq held \cup {Means[k]}
         /\ held \ {Means[k]} \subseteq held'
         /\ isDown \/ held' \subseteq held
<1>1. \/ key_from_event(Keysym(k)) = Means[k]
      \/ key_from_event(Keysym(k)) = NoKey
  BY CodeOfKey
<1>2. Means[k] \in Codes \cup {NoKey}
  BY CodeIsKnown
<1> QED
  BY <1>1, <1>2, KeysDiffer DEF forward_key, Session_key, ValuesOK, StoppedInv

(* ... and a release lifts it, unless it may stay.                          *)
LEMMA ReleaseLifts ==
  ASSUME ValuesOK, StoppedInv, NEW k \in Apples \cup Plain,
         forward_key(FALSE, k)
  PROVE  Means[k] \notin held' \/ PlainMayStay(Means[k])
<1>1. CASE key_from_event(Keysym(k)) = Means[k]
  BY <1>1, KeysDiffer DEF forward_key, Session_key, ValuesOK, StoppedInv
<1>2. CASE kit = "kde" /\ k = "digit"
  BY <1>2 DEF PlainMayStay, Means
<1> QED
  BY <1>1, <1>2, CodeOfKey

-----------------------------------------------------------------------------
(* Before any key the invariant holds. *)
LEMMA InitInv == Init => KeyInv
<1> SUFFICES ASSUME Init PROVE KeyInv
  OBVIOUS
<1>1. ValuesOK
  BY KeyboardAssumption DEF Init, ValuesOK
<1> QED
  BY <1>1 DEF Init, KeyInv, StoppedInv, AwayInv, ViewInv, NoKeyStuck

(* macOS: an Option's event changes that Option's code only, and with no    *)
(* Option down the code is not held; the view goes on knowing of both.      *)
LEMMA OptionChanged ==
  ASSUME ValuesOK, StoppedInv, ViewInv, kit = "macos", NEW k \in Options,
         NEW option \in BOOLEAN, flagsChanged(k, option)
  PROVE  /\ held' \subseteq Codes
         /\ ~running => held' = {}
         /\ held' \subseteq held \cup {Means[k]}
         /\ ~option => Means[k] \notin held' /\ held' \subseteq held
         /\ openAppleDown' \in BOOLEAN /\ closedAppleDown' \in BOOLEAN
         /\ "RK_LALT" \in held' => openAppleDown'
         /\ "RK_RALT" \in held' => closedAppleDown'
<1>0. /\ held \subseteq Codes /\ (~running => held = {})
      /\ openAppleDown \in BOOLEAN /\ closedAppleDown \in BOOLEAN
      /\ "RK_LALT" \in held => openAppleDown
      /\ "RK_RALT" \in held => closedAppleDown
      /\ {"RK_LALT", "RK_RALT"} \subseteq Codes
  BY DEF ValuesOK, StoppedInv, ViewInv, Codes
<1>1. CASE k = "alt_l"
  <2>1. /\ Means[k] = "RK_LALT"
        /\ openAppleDown' = option /\ closedAppleDown' = closedAppleDown
    BY <1>1 DEF Means, flagsChanged
  <2>2. held' = IF option = openAppleDown \/ ~running THEN held
                ELSE IF option THEN held \cup {"RK_LALT"}
                ELSE held \ {"RK_LALT"}
    BY <1>1, <2>1, AppleCodes, KeysDiffer
       DEF flagsChanged, Session_key, Codes
  <2> QED
    BY <1>0, <2>1, <2>2
<1>2. CASE k = "alt_r"
  <2>1. /\ Means[k] = "RK_RALT"
        /\ closedAppleDown' = option /\ openAppleDown' = openAppleDown
    BY <1>2 DEF Means, flagsChanged
  <2>2. held' = IF option = closedAppleDown \/ ~running THEN held
                ELSE IF option THEN held \cup {"RK_RALT"}
                ELSE held \ {"RK_RALT"}
    BY <1>2, <2>1, AppleCodes, KeysDiffer
       DEF flagsChanged, Session_key, Codes
  <2> QED
    BY <1>0, <2>1, <2>2
<1> QED
  BY <1>1, <1>2

-----------------------------------------------------------------------------
(* Every step keeps the invariant. *)
LEMMA StepInv == KeyInv /\ [Next]_vars => KeyInv'
<1> SUFFICES ASSUME KeyInv, [Next]_vars PROVE KeyInv'
  OBVIOUS
<1> USE DEF KeyInv
<1>1. ASSUME NEW k \in Apples \cup Plain, Press(k) PROVE KeyInv'
  <2> USE <1>1 DEF Press
  <2>1. k \in down'
    BY DEF ValuesOK
  <2>2. /\ kit' = kit /\ Means' = Means
        /\ ValuesOK' <=> /\ held' \subseteq Codes
                         /\ openAppleDown' \in BOOLEAN
                         /\ closedAppleDown' \in BOOLEAN
        /\ kit = "macos" /\ ~Chords => ~(Options \subseteq down')
    BY DEF ValuesOK, ViewInv, Means
  <2>3. CASE ~focus
    BY <2>2, <2>3 DEF Hears, ValuesOK, StoppedInv, AwayInv, ViewInv,
       HearsAll, NoKeyStuck, PlainMayStay
  <2>4. CASE focus /\ kit = "macos" /\ k \in Options
    <3>1. flagsChanged(k, TRUE)
      BY <2>1, <2>4 DEF Hears
    <3> QED
      BY <2>1, <2>2, <2>4, <3>1, OptionChanged DEF StoppedInv, AwayInv,
         ViewInv, HearsAll, NoKeyStuck, PlainMayStay
  <2>5. CASE focus /\ ~(kit = "macos" /\ k \in Options)
    <3>1. forward_key(TRUE, k) /\ UNCHANGED view
      BY <2>5 DEF Hears
    <3>2. kit = "macos" => Means[k] \notin {"RK_LALT", "RK_RALT"}
      BY <2>5 DEF Means, NoKey
    <3> QED
      BY <2>1, <2>2, <2>5, <3>1, <3>2, ForwardKey DEF ValuesOK, StoppedInv,
         AwayInv, ViewInv, HearsAll, NoKeyStuck, PlainMayStay
  <2> QED
    BY <2>3, <2>4, <2>5 DEF ValuesOK
<1>2. ASSUME NEW k \in Apples \cup Plain, Repeat(k) PROVE KeyInv'
  <2> USE <1>2 DEF Repeat
  <2>1. Means' = Means
    BY DEF Means
  <2>2. CASE kit = "gnome"
    BY <2>1, <2>2, ForwardKey DEF ValuesOK, StoppedInv, AwayInv, ViewInv,
       HearsAll, NoKeyStuck, PlainMayStay
  <2>3. CASE kit # "gnome"
    BY <2>1, <2>3 DEF ValuesOK, StoppedInv, AwayInv, ViewInv, HearsAll,
       NoKeyStuck, PlainMayStay
  <2> QED
    BY <2>2, <2>3
<1>3. ASSUME NEW k \in Apples \cup Plain, Release(k) PROVE KeyInv'
  <2> USE <1>3 DEF Release
  <2>1. /\ kit' = kit /\ Means' = Means
        /\ ValuesOK' <=> /\ held' \subseteq Codes
                         /\ openAppleDown' \in BOOLEAN
                         /\ closedAppleDown' \in BOOLEAN
        /\ kit = "macos" /\ ~Chords => ~(Options \subseteq down')
    BY DEF ValuesOK, ViewInv, Means
  <2>2. CASE ~focus
    BY <2>1, <2>2 DEF Hears, ValuesOK, StoppedInv, AwayInv, ViewInv,
       HearsAll, NoKeyStuck, PlainMayStay
  <2>3. CASE focus /\ kit = "macos" /\ k \in Options
    <3>1. flagsChanged(k, down' \cap Options # {})
      BY <2>3 DEF Hears
    <3>2. ~Chords => down' \cap Options = {}
      BY <2>3 DEF ViewInv, ValuesOK
    <3>3. /\ held' \subseteq Codes
          /\ ~running => held' = {}
          /\ ~Chords => Means[k] \notin held' /\ held' \subseteq held
          /\ openAppleDown' \in BOOLEAN /\ closedAppleDown' \in BOOLEAN
          /\ "RK_LALT" \in held' => openAppleDown'
          /\ "RK_RALT" \in held' => closedAppleDown'
      BY <2>3, <3>1, <3>2, OptionChanged
    <3> QED
      BY <2>1, <2>3, <3>3 DEF StoppedInv, AwayInv, ViewInv, HearsAll,
         NoKeyStuck, PlainMayStay
  <2>4. CASE focus /\ ~(kit = "macos" /\ k \in Options)
    <3>1. forward_key(FALSE, k) /\ UNCHANGED view
      BY <2>4 DEF Hears
    <3>2. /\ held' \subseteq Codes
          /\ ~running => held' = {}
          /\ held' \subseteq held
          /\ Means[k] \notin held' \/ PlainMayStay(Means[k])
      BY <3>1, ForwardKey, ReleaseLifts
    <3>3. HearsAll => NoKeyStuck'
      BY <2>1, <3>2 DEF NoKeyStuck, PlainMayStay
    <3> QED
      BY <2>1, <2>4, <3>1, <3>2, <3>3
         DEF ValuesOK, StoppedInv, AwayInv, ViewInv, HearsAll
  <2> QED
    BY <2>2, <2>3, <2>4 DEF ValuesOK
<1> USE DEF ValuesOK, StoppedInv, AwayInv, ViewInv, HearsAll, NoKeyStuck,
            PlainMayStay
<1>4. CASE Modifier
  BY <1>4 DEF Modifier, Means
<1>5. CASE KillFocus
  BY <1>5, AppleCodes, KeysDiffer DEF KillFocus, Session_key, Codes, Means
<1>6. CASE LosesFocus
  BY <1>6 DEF LosesFocus, Means
<1>7. CASE ResignFirstResponder
  BY <1>7, AppleCodes, KeysDiffer
     DEF ResignFirstResponder, Session_key, Codes, Means
<1>8. CASE GetsFocus
  BY <1>8 DEF GetsFocus, Means
<1>9. CASE Starts
  BY <1>9 DEF Starts, Means
<1>10. CASE Stops
  BY <1>10 DEF Stops
<1>11. CASE UNCHANGED vars
  BY <1>11 DEF vars, Means
<1> QED
  BY <1>1, <1>2, <1>3, <1>4, <1>5, <1>6, <1>7, <1>8, <1>9, <1>10, <1>11
     DEF Next

-----------------------------------------------------------------------------
(* The frontend and the machine agree on the keys that are held.            *)
THEOREM KeyInvariant == Spec => []KeyInv
  BY InitInv, StepInv, PTL DEF Spec

(* No key is left stuck down, on any frontend that hears of all it needs:   *)
(* on Windows always, elsewhere as long as the focus does not leave with a  *)
(* key down, on macOS with no chord of both Options.                        *)
THEOREM KeysLifted == Spec => [](HearsAll => NoKeyStuck)
<1>1. KeyInv => (HearsAll => NoKeyStuck)
  BY DEF KeyInv
<1> QED
  BY <1>1, KeyInvariant, PTL
=============================================================================
