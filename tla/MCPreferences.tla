--------------------------- MODULE MCPreferences ---------------------------
(* An instance of Preferences for TLC: three addresses, an option an older  *)
(* version knew.                                                            *)
EXTENDS Preferences

AllKeys == {"slot7", "scanlines", "smooth_scaling", "fujinet_external",
            "fujinet_external_addr"}

Anywhere == [colon |-> TRUE, host |-> "ip", port |-> 1985]
BadHost  == [colon |-> TRUE, host |-> "name", port |-> 1985]
SomeTexts == {EmptyText, Anywhere, BadHost}
Dropped   == {"Hard Disk 2"}
=============================================================================
