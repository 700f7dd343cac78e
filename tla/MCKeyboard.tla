----------------------------- MODULE MCKeyboard -----------------------------
(* An instance of Keyboard for TLC: all four frontends.                     *)
EXTENDS Keyboard

FourKits == {"gnome", "kde", "windows", "macos"}
=============================================================================
