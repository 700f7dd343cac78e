-------------------------- MODULE PreferencesProofs --------------------------
(***************************************************************************)
(* Proofs about Preferences, for any frontends, settings, addresses typed  *)
(* and values left by older versions, however often the process dies or    *)
(* the disk fails, noticed or not.  PrefsInv is inductive.  Its main idea is Due:  *)
(* the settings as they will be when the handler under way has set all it  *)
(* has to set.  A handler decides what it restarts before its first set,   *)
(* so the machine is compared with what is due, not with what is saved.    *)
(***************************************************************************)
EXTENDS Preferences, SequenceTheorems, TLAPS

(* A list of settings, in memory or in the file. *)
ListOK(s) ==
  /\ s = [k \in Keys |-> s[k]]
  /\ \A k \in Keys : s[k] \in Held(k)

PairOK(p) == p = <<p[1], p[2]>> /\ p[1] \in Keys /\ p[2] \in Held(p[1])

TodoOK ==
  \/ todo = <<>>
  \/ todo = <<todo[1]>> /\ PairOK(todo[1])
  \/ todo = <<todo[1], todo[2]>> /\ PairOK(todo[1]) /\ PairOK(todo[2])

ValuesOK ==
  /\ kit \in Kits
  /\ ListOK(settings) /\ ListOK(before)
  /\ dialog \in {"none", "open", "hidden"}
  /\ box \in {0, 1} /\ entry \in Texts \cup {EmptyText}

FlagsOK ==
  /\ up \in BOOLEAN /\ dirty \in BOOLEAN /\ editing \in BOOLEAN
  /\ machine_dirty \in BOOLEAN /\ torn \in BOOLEAN /\ unnoticed \in BOOLEAN
  /\ io \in {"idle", "flush", "open", "written", "removed"}

(* The file is the last save, unless Windows has removed it and has not yet *)
(* put the next in its place, or an error ignored has spoilt it; the list   *)
(* differs from it only while dirty.  A torn file is always known for one.  *)
FileInv ==
  /\ unnoticed = FALSE =>
       /\ \/ settings_file = before
          \/ settings_file = Absent /\ (kit = "windows" \/ before = Nothing)
       /\ settings_file = Absent => before = Nothing \/ io = "removed" \/ ~up
       /\ up /\ dirty = FALSE => settings = before
  /\ settings_file \in {Absent, Torn} \/ ListOK(settings_file)
  /\ settings_file = Torn => unnoticed = TRUE
  /\ io \in {"written", "removed"} => tmp \in {settings, Torn}
  /\ io = "removed" => kit = "windows"
  /\ io # "idle" => up /\ dirty

(* Nothing of a dialog or a handler is left when the process is gone, and   *)
(* only the dialogs that save as they go have a flag to mark.               *)
GoneInv ==
  /\ up = FALSE => todo = <<>> /\ owed = {} /\ dialog = "none" /\ dirty = FALSE
  /\ up = FALSE /\ unnoticed = TRUE => torn = TRUE
  /\ machine_dirty => dialog = "open" /\ kit # "windows"

Put(s, p)     == [s EXCEPT ![p[1]] = p[2]]
Of(s, k, std) == IF s[k] = Unset THEN std ELSE s[k]

Due ==
  IF todo = <<>> THEN settings
  ELSE IF todo = <<todo[1]>> THEN Put(settings, todo[1])
  ELSE Put(Put(settings, todo[1]), todo[2])

(* Whatever the machine does not run with is marked or owed a restart. *)
AppliedInv ==
  /\ up /\ machine_dirty = FALSE /\ "restart" \notin owed =>
       machine = StartOpts(DefaultOpts(Due))
  /\ up /\ "display" \notin owed => smooth = Of(Due, "smooth_scaling", 0)

(* GNOME and macOS save only an address that parses, KDE and Windows only   *)
(* with the switch on; and what a process that ended whole left behind, the *)
(* next one starts from.                                                    *)
Sound(s) ==
  kit \in {"gnome", "macos"} \/ Of(s, "fujinet_external", 0) = 1 =>
    Parses(Of(s, "fujinet_external_addr", EmptyText))

SoundInv ==
  Hops = FALSE /\ torn = FALSE =>
    Sound(IF up THEN Due ELSE Read(settings_file))

PrefsInv ==
  /\ ValuesOK /\ FlagsOK /\ TodoOK
  /\ FileInv /\ GoneInv /\ AppliedInv /\ SoundInv

USE DEF dialogVars, workVars, shownVars, prefsVars, diskVars, storeVars, Flags

-----------------------------------------------------------------------------
(* The store's lists.  One is never taken for a missing or torn file.       *)
LEMMA WholeList == ASSUME NEW s, ListOK(s) PROVE s # Absent /\ s # Torn
<1> DEFINE flag == [k \in Flags |-> s[k]]
<1>1. flag \in [Flags -> {Unset, 0, 1}]
  BY StoreAssumption DEF ListOK, Held
<1>2. \A k \in Keys : k \notin Flags \cup {"slot7", "fujinet_external_addr"} => s[k] = Unset
  BY DEF ListOK, Held
<1>3. s = [k \in Keys |-> CASE k = "slot7"                 -> s["slot7"]
                            [] k = "fujinet_external_addr" -> s["fujinet_external_addr"]
                            [] k \in Flags                 -> flag[k]
                            [] OTHER                       -> Unset]
  BY <1>2 DEF ListOK
<1>4. s["slot7"] \in Held("slot7")
      /\ s["fujinet_external_addr"] \in Held("fujinet_external_addr")
  BY StoreAssumption DEF ListOK
<1> HIDE DEF flag
<1> QED
  BY <1>1, <1>3, <1>4, StoreAssumption

LEMMA NothingIsAList == ListOK(Nothing)
BY DEF ListOK, Nothing, Held

(* Whatever is left of a list that was cut is read as a list. *)
LEMMA CutIsAList == ASSUME NEW s, ListOK(s), NEW c \in Cuts(s) PROVE ListOK(c)
<1>1. PICK k \in Keys : \E v \in Held(k), kept \in SUBSET Keys :
        c = [j \in Keys |-> IF j = k THEN v ELSE IF j \in kept THEN s[j] ELSE Unset]
  BY DEF Cuts
<1>2. \A j \in Keys : Unset \in Held(j)
  BY DEF Held
<1>3. \A j \in Keys : c[j] \in Held(j)
  BY <1>1, <1>2 DEF ListOK
<1> QED
  BY <1>1, <1>3 DEF ListOK

(* Setting a key changes that key alone. *)
LEMMA PutIsAList ==
  ASSUME NEW s, ListOK(s), NEW p, PairOK(p)
  PROVE  /\ ListOK(Put(s, p))
         /\ Put(s, p)[p[1]] = p[2]
         /\ \A k \in Keys : k # p[1] => Put(s, p)[k] = s[k]
BY DEF ListOK, PairOK, Put

(* A list read by the keys the frontends read. *)
LEMMA SameOptions ==
  ASSUME NEW s, NEW t, s["slot7"] = t["slot7"],
         Of(s, "scanlines", 1) = Of(t, "scanlines", 1),
         Of(s, "fujinet_external", 0) = Of(t, "fujinet_external", 0),
         Of(s, "fujinet_external_addr", EmptyText)
           = Of(t, "fujinet_external_addr", EmptyText)
  PROVE  DefaultOpts(s) = DefaultOpts(t)
BY DEF DefaultOpts, Of

-----------------------------------------------------------------------------
(* What is due after a handler with no, one or two settings to set.         *)
LEMMA DueOfNone ==
  ASSUME TodoOK, UNCHANGED settings, todo' = <<>>
  PROVE  TodoOK' /\ Due' = settings
BY DEF TodoOK, Due

LEMMA DueOfOne ==
  ASSUME NEW p, PairOK(p), UNCHANGED settings, todo' = <<p>>
  PROVE  TodoOK' /\ Due' = Put(settings, p)
<1>1. todo'[1] = p /\ todo' = <<todo'[1]>> /\ todo' # <<>>
  OBVIOUS
<1>2. TodoOK'
  BY <1>1 DEF TodoOK
<1>3. Due' = Put(settings', todo'[1])
  BY <1>1 DEF Due, Put
<1> QED
  BY <1>1, <1>2, <1>3

LEMMA DueOfTwo ==
  ASSUME NEW p, PairOK(p), NEW q, PairOK(q), UNCHANGED settings, todo' = <<p, q>>
  PROVE  TodoOK' /\ Due' = Put(Put(settings, p), q)
<1>1. todo'[1] = p /\ todo'[2] = q /\ todo' = <<todo'[1], todo'[2]>>
  OBVIOUS
<1>2. todo' # <<>> /\ todo' # <<todo'[1]>>
  OBVIOUS
<1>3. TodoOK'
  BY <1>1 DEF TodoOK
<1>4. Due' = Put(Put(settings', todo'[1]), todo'[2])
  BY <1>2 DEF Due, Put
<1> QED
  BY <1>1, <1>3, <1>4

(* Setting the next of them leaves what is due as it was.                   *)
LEMMA SetKeepsDue ==
  ASSUME TodoOK, ListOK(settings), SetNext
  PROVE  TodoOK' /\ ListOK(settings)' /\ Due' = Due
<1>1. todo # <<>> /\ settings' = Put(settings, Head(todo)) /\ todo' = Tail(todo)
  BY DEF SetNext, SetStr, Put
<1>2. CASE todo = <<todo[1]>> /\ PairOK(todo[1])
  <2>0. \A a : Head(<<a>>) = a /\ Tail(<<a>>) = <<>>
    OBVIOUS
  <2>1. Head(todo) = todo[1] /\ Tail(todo) = <<>>
    BY <1>2, <2>0, Zenon
  <2>2. TodoOK' /\ Due' = settings'
    BY <1>1, <2>1 DEF TodoOK, Due
  <2>3. Due = Put(settings, todo[1])
    BY <1>1, <1>2 DEF Due
  <2> QED
    BY <1>1, <1>2, <2>1, <2>2, <2>3, PutIsAList
<1>3. CASE todo = <<todo[1], todo[2]>> /\ PairOK(todo[1]) /\ PairOK(todo[2])
  <2>0. \A a, b : Head(<<a, b>>) = a /\ Tail(<<a, b>>) = <<b>>
    OBVIOUS
  <2>1. Head(todo) = todo[1] /\ Tail(todo) = <<todo[2]>>
    BY <1>3, <2>0, Zenon
  <2>2. todo # <<todo[1]>>
    BY <1>3
  <2>3. Due = Put(Put(settings, todo[1]), todo[2])
    BY <1>1, <2>2 DEF Due
  <2>4. todo'[1] = todo[2] /\ todo' = <<todo'[1]>> /\ todo' # <<>>
    BY <1>1, <2>1
  <2>5. TodoOK'
    BY <1>3, <2>4 DEF TodoOK
  <2>6. Due' = Put(settings', todo'[1])
    BY <2>4 DEF Due, Put
  <2> QED
    BY <1>1, <1>3, <2>1, <2>3, <2>4, <2>5, <2>6, PutIsAList
<1> QED
  BY <1>1, <1>2, <1>3 DEF TodoOK

-----------------------------------------------------------------------------
(* Handlers leave the store, the machine and the display alone: what they   *)
(* decide is what to set, and what to do after it.                          *)
Handler == Dialogs \/ Rows \/ Connection \/ ImportRoms

LEMMA HandlersDecide ==
  Handler => Idle /\ UNCHANGED <<kit, storeVars, diskVars, up, shownVars, torn>>
<1>1. Dialogs => Idle /\ UNCHANGED <<kit, storeVars, diskVars, up, shownVars, torn>>
  BY DEF Dialogs, GnomeShow, KdeShow, WindowsShow, MacShow, Show, MacReshow,
    PrefsClosed, Done, ConnApply, ConnCancel, WindowWillClose, Committed, In, Save
<1>2. Rows => Idle /\ UNCHANGED <<kit, storeVars, diskVars, up, shownVars, torn>>
  BY DEF Rows, ComboStrChanged, OptionRowChanged, OptionChanged, OnCommandOption,
    ScanlinesChanged, ScanlinesToggled, MacScanlinesChanged, OnCommandScanlines,
    Option, Scanlines, In, Save
<1>3. Connection => Idle /\ UNCHANGED <<kit, storeVars, diskVars, up, shownVars, torn>>
  BY DEF Connection, SwitchChanged, ExternalChanged, AddrChanged,
    ExternalAddrEdited, ExternalAddrChanged, KdeEdits, WindowsEdits, EditsField,
    Committed, In, Save
<1>4. ImportRoms => Idle /\ UNCHANGED <<kit, storeVars, diskVars, up, shownVars, torn>>
  BY DEF ImportRoms, Save
<1> QED
  BY <1>1, <1>2, <1>3, <1>4 DEF Handler

(* What a handler owes, once it is known what is due after it.              *)
LEMMA WhatIsOwed ==
  ASSUME PrefsInv, Idle, UNCHANGED <<kit, storeVars, diskVars, up, shownVars, torn>>,
         machine_dirty' = FALSE /\ "restart" \notin owed' =>
           machine_dirty = FALSE /\ DefaultOpts(Due') = DefaultOpts(settings),
         "display" \notin owed' =>
           Of(Due', "smooth_scaling", 0) = Of(settings, "smooth_scaling", 0),
         Sound(settings) => Sound(Due')
  PROVE  AppliedInv' /\ SoundInv'
<1>1. todo = <<>> /\ owed = {} /\ up /\ Due = settings
  BY DEF Idle, Due
<1>2. AppliedInv'
  BY <1>1 DEF PrefsInv, AppliedInv, Of
<1>3. SoundInv'
  <2> SUFFICES ASSUME Hops = FALSE, torn' = FALSE PROVE Sound(Due)'
    BY <1>1 DEF SoundInv
  <2>1. Sound(settings)
    BY <1>1 DEF PrefsInv, SoundInv
  <2> QED
    BY <2>1 DEF Sound, Of
<1> QED
  BY <1>2, <1>3

(* A set of another key leaves the address and the display alone.           *)
LEMMA OtherKeys ==
  ASSUME NEW s, ListOK(s), NEW p, PairOK(p)
  PROVE  /\ p[1] \notin {"fujinet_external", "fujinet_external_addr"} =>
              (Sound(s) => Sound(Put(s, p)))
         /\ \A k \in Keys : \A d : k # p[1] => Of(Put(s, p), k, d) = Of(s, k, d)
<1>1. \A k \in Keys : \A d : k # p[1] => Of(Put(s, p), k, d) = Of(s, k, d)
  BY PutIsAList DEF Of
<1>2. {"fujinet_external", "fujinet_external_addr"} \subseteq Keys
  BY StoreAssumption
<1> QED
  BY <1>1, <1>2 DEF Sound

(* Dialogs, rows and fields that set nothing.                               *)
LEMMA SetsNothing ==
  ASSUME PrefsInv, Idle, UNCHANGED <<kit, storeVars, diskVars, up, shownVars, torn>>,
         todo' = <<>>,
         machine_dirty' = FALSE /\ "restart" \notin owed' => machine_dirty = FALSE
  PROVE  TodoOK' /\ AppliedInv' /\ SoundInv'
<1>1. TodoOK' /\ Due' = settings
  BY DueOfNone DEF PrefsInv
<1> QED
  BY <1>1, WhatIsOwed

(* A row sets slot7, or the two keys of the display.                        *)
LEMMA SetsSlot7 ==
  ASSUME PrefsInv, Idle, NEW v \in Choices, NEW then, Option(v, then),
         machine_dirty' = TRUE \/ "restart" \in owed'
  PROVE  TodoOK' /\ AppliedInv' /\ SoundInv'
<1> DEFINE p == <<"slot7", v>>
<1>1. PairOK(p) /\ p[1] = "slot7"
  BY StoreAssumption DEF PairOK, Held
<1>2. todo' = <<p>> /\ UNCHANGED <<kit, storeVars, diskVars, up, shownVars, torn>>
  BY DEF Option, Save
<1>3. ListOK(settings) /\ "smooth_scaling" \in Keys
  BY StoreAssumption DEF PrefsInv, ValuesOK
<1> HIDE DEF p
<1>4. TodoOK' /\ Due' = Put(settings, p)
  BY <1>1, <1>2, DueOfOne
<1>5. /\ Of(Due', "smooth_scaling", 0) = Of(settings, "smooth_scaling", 0)
      /\ Sound(settings) => Sound(Due')
  BY <1>1, <1>3, <1>4, OtherKeys
<1> QED
  BY <1>2, <1>4, <1>5, WhatIsOwed

LEMMA SetsScanlines ==
  ASSUME PrefsInv, Idle, NEW then, Scanlines(then), "display" \in then,
         machine_dirty' = TRUE \/ "restart" \in then
  PROVE  TodoOK' /\ AppliedInv' /\ SoundInv'
<1> DEFINE on == 1 - GetStr("scanlines", 1)
           p == <<"scanlines", on>>
           q == <<"smooth_scaling", on>>
<1>1. GetStr("scanlines", 1) \in {0, 1}
  BY StoreAssumption DEF PrefsInv, ValuesOK, ListOK, Held, GetStr
<1>2. PairOK(p) /\ PairOK(q) /\ p[1] = "scanlines" /\ q[1] = "smooth_scaling"
  BY <1>1, StoreAssumption DEF PairOK, Held
<1>3. /\ todo' = <<p, q>> /\ owed' = then
      /\ UNCHANGED <<kit, storeVars, diskVars, up, shownVars, torn>>
  BY DEF Scanlines, Save
<1>4. ListOK(settings)
  BY DEF PrefsInv, ValuesOK
<1> HIDE DEF p, q
<1>5. TodoOK' /\ Due' = Put(Put(settings, p), q)
  BY <1>2, <1>3, DueOfTwo
<1>6. ListOK(Put(settings, p))
  BY <1>2, <1>4, PutIsAList
<1>7. Sound(settings) => Sound(Due')
  BY <1>2, <1>4, <1>5, <1>6, OtherKeys
<1> QED
  BY <1>3, <1>5, <1>7, WhatIsOwed

(* No text at all is an address that parses: the default.                   *)
LEMMA NoTextParses == Parses(EmptyText)
BY DEF Parses

LEMMA Joined ==
  ASSUME NEW a, NEW b
  PROVE  /\ <<a>> \o <<b>> = <<a, b>> /\ <<a, b>> # <<>> /\ <<a>> # <<>>
         /\ <<a>> \o <<>> = <<a>> /\ <<>> \o <<a>> = <<a>> /\ <<>> \o <<>> = <<>>
<1> DEFINE S == {a, b}
           one == <<a>>
           two == <<b>>
           both == <<a, b>>
<1>1. one \in Seq(S) /\ two \in Seq(S) /\ both \in Seq(S)
  OBVIOUS
<1>2. Len(one) = 1 /\ one[1] = a /\ Len(two) = 1 /\ two[1] = b
  OBVIOUS
<1>3. Len(both) = 2 /\ both[1] = a /\ both[2] = b
  OBVIOUS
<1>4. both # <<>> /\ one # <<>>
  OBVIOUS
<1> HIDE DEF one, two, both, S
<1>5. one \o two = both
  <2>1. one \o two \in Seq(S) /\ Len(one \o two) = 2
    BY <1>1, <1>2, ConcatProperties
  <2>2. (one \o two)[1] = a /\ (one \o two)[2] = b
    BY <1>1, <1>2, ConcatProperties
  <2> QED
    BY <1>1, <1>3, <2>1, <2>2, SeqEqual
<1>6. one \o <<>> = one /\ <<>> \o one = one /\ <<>> \o <<>> = <<>>
  BY <1>1, ConcatEmptySeq, EmptySeq
<1> QED
  BY <1>4, <1>5, <1>6 DEF one, two, both

(* GNOME's and macOS' switch, and an address that parses.                   *)
LEMMA SetsSwitch ==
  ASSUME PrefsInv, Idle, kit \in {"gnome", "macos"}, machine_dirty' = TRUE,
         Save(<< <<"fujinet_external", 1 - box>> >>, {})
  PROVE  TodoOK' /\ AppliedInv' /\ SoundInv'
<1> DEFINE p == <<"fujinet_external", 1 - box>>
<1>1. PairOK(p) /\ p[1] = "fujinet_external"
  BY StoreAssumption DEF PairOK, Held, PrefsInv, ValuesOK
<1>2. todo' = <<p>> /\ UNCHANGED <<kit, storeVars, diskVars, up, shownVars, torn>>
  BY DEF Save
<1>3. /\ ListOK(settings)
      /\ "smooth_scaling" \in Keys /\ "fujinet_external_addr" \in Keys
  BY StoreAssumption DEF PrefsInv, ValuesOK
<1> HIDE DEF p
<1>4. TodoOK' /\ Due' = Put(settings, p)
  BY <1>1, <1>2, DueOfOne
<1>5. /\ Of(Due', "smooth_scaling", 0) = Of(settings, "smooth_scaling", 0)
      /\ Of(Due', "fujinet_external_addr", EmptyText)
           = Of(settings, "fujinet_external_addr", EmptyText)
  BY <1>1, <1>3, <1>4, OtherKeys
<1>6. Sound(settings) => Sound(Due')
  BY <1>5 DEF Sound
<1> QED
  BY <1>2, <1>4, <1>5, <1>6, WhatIsOwed

LEMMA SetsAddress ==
  ASSUME PrefsInv, Idle, NEW t \in Texts \cup {EmptyText}, Parses(t), NEW then,
         Save(Address(t), then), machine_dirty' = TRUE \/ "restart" \in then
  PROVE  TodoOK' /\ AppliedInv' /\ SoundInv'
<1> DEFINE p == <<"fujinet_external_addr", t>>
<1>1. PairOK(p) /\ p[1] = "fujinet_external_addr" /\ p[2] = t
  BY StoreAssumption DEF PairOK, Held
<1>2. /\ todo' = <<p>> /\ owed' = then
      /\ UNCHANGED <<kit, storeVars, diskVars, up, shownVars, torn>>
  BY DEF Save, Address
<1>3. /\ ListOK(settings)
      /\ "smooth_scaling" \in Keys /\ "fujinet_external_addr" \in Keys
  BY StoreAssumption DEF PrefsInv, ValuesOK
<1> HIDE DEF p
<1>4. TodoOK' /\ Due' = Put(settings, p)
  BY <1>1, <1>2, DueOfOne
<1>5. Of(Due', "smooth_scaling", 0) = Of(settings, "smooth_scaling", 0)
  BY <1>1, <1>3, <1>4, OtherKeys
<1>6. Due'["fujinet_external_addr"] = t
  BY <1>1, <1>3, <1>4, PutIsAList
<1>7. Sound(Due')
  BY <1>6, NoTextParses DEF Sound, Of
<1> QED
  BY <1>2, <1>4, <1>5, <1>7, WhatIsOwed

(* KDE's and Windows' switch and address, when the dialog is done.          *)
SwitchPair  == <<"fujinet_external", box>>
AddressPair == <<"fujinet_external_addr", entry>>

LEMMA ConnectionPairs ==
  ASSUME PrefsInv
  PROVE  /\ PairOK(SwitchPair) /\ PairOK(AddressPair)
         /\ SwitchPair[1] = "fujinet_external" /\ SwitchPair[2] = box
         /\ AddressPair[1] = "fujinet_external_addr" /\ AddressPair[2] = entry
BY StoreAssumption DEF PrefsInv, ValuesOK, PairOK, Held, SwitchPair, AddressPair

LEMMA BothPairs == << <<"fujinet_external", box>> >> \o Address(entry)
                     = <<SwitchPair, AddressPair>>
<1>1. \A a, b : <<a>> \o <<b>> = <<a, b>>
  BY Joined
<1> QED
  BY <1>1, Zenon DEF Address, SwitchPair, AddressPair

LEMMA DoneCases ==
  \/ /\ GetStr("fujinet_external", 0) = box /\ SavedAddress = entry
     /\ DoneSets = <<>>
  \/ /\ GetStr("fujinet_external", 0) # box /\ SavedAddress = entry
     /\ DoneSets = <<SwitchPair>> /\ DoneSets # <<>>
  \/ /\ GetStr("fujinet_external", 0) = box /\ SavedAddress # entry
     /\ DoneSets = <<AddressPair>> /\ DoneSets # <<>>
  \/ DoneSets = <<SwitchPair, AddressPair>> /\ DoneSets # <<>>
<1>1. \A a, b : /\ <<a>> \o <<b>> = <<a, b>> /\ <<a, b>> # <<>> /\ <<a>> # <<>>
                /\ <<a>> \o <<>> = <<a>> /\ <<>> \o <<a>> = <<a>>
                /\ <<>> \o <<>> = <<>>
  BY Joined
<1> DEFINE sw == << <<"fujinet_external", box>> >>
<1>3. sw = <<SwitchPair>> /\ Address(entry) = <<AddressPair>>
  BY DEF Address, SwitchPair, AddressPair
<1>4. DoneSets = (IF GetStr("fujinet_external", 0) # box THEN sw ELSE <<>>)
                   \o (IF SavedAddress # entry THEN Address(entry) ELSE <<>>)
  BY DEF DoneSets
<1> HIDE DEF sw
<1>5. CASE GetStr("fujinet_external", 0) # box /\ SavedAddress # entry
  <2>1. DoneSets = <<SwitchPair>> \o <<AddressPair>>
    BY <1>3, <1>4, <1>5
  <2>2. /\ <<SwitchPair>> \o <<AddressPair>> = <<SwitchPair, AddressPair>>
        /\ <<SwitchPair, AddressPair>> # <<>>
    BY Joined
  <2>3. DoneSets = <<SwitchPair, AddressPair>>
    BY <2>1, <2>2, Zenon
  <2> QED
    BY <2>2, <2>3, Zenon
<1>6. CASE GetStr("fujinet_external", 0) # box /\ SavedAddress = entry
  BY <1>1, <1>3, <1>4, <1>6, Zenon
<1>7. CASE GetStr("fujinet_external", 0) = box /\ SavedAddress # entry
  BY <1>1, <1>3, <1>4, <1>7, Zenon
<1>8. CASE GetStr("fujinet_external", 0) = box /\ SavedAddress = entry
  BY <1>1, <1>4, <1>8, Zenon
<1> QED
  BY <1>5, <1>6, <1>7, <1>8

(* Both set: the machine is given nothing new if they were the same.        *)
LEMMA SetsBoth ==
  ASSUME PrefsInv, Idle, kit \notin {"gnome", "macos"}, Usable, NEW then,
         Save(<<SwitchPair, AddressPair>>, then),
         \/ "restart" \in then
         \/ /\ machine_dirty = FALSE
            /\ GetStr("fujinet_external", 0) = box /\ SavedAddress = entry
  PROVE  TodoOK' /\ AppliedInv' /\ SoundInv'
<1> DEFINE one == Put(settings, SwitchPair)
<1>1. /\ PairOK(SwitchPair) /\ PairOK(AddressPair)
      /\ SwitchPair[1] = "fujinet_external" /\ SwitchPair[2] = box
      /\ AddressPair[1] = "fujinet_external_addr" /\ AddressPair[2] = entry
  BY ConnectionPairs
<1>2. /\ todo' = <<SwitchPair, AddressPair>> /\ owed' = then
      /\ UNCHANGED <<kit, storeVars, diskVars, up, shownVars, torn>>
  BY DEF Save
<1>3. /\ ListOK(settings)
      /\ {"slot7", "scanlines", "smooth_scaling", "fujinet_external",
          "fujinet_external_addr"} \subseteq Keys
  BY StoreAssumption DEF PrefsInv, ValuesOK
<1>4. TodoOK' /\ Due' = Put(one, AddressPair)
  BY <1>1, <1>2, DueOfTwo
<1>5. ListOK(one)
  BY <1>1, <1>3, PutIsAList
<1>6. \A k \in Keys : k \notin {"fujinet_external", "fujinet_external_addr"} =>
        Due'[k] = settings[k]
  BY <1>1, <1>3, <1>4, <1>5, PutIsAList
<1>7. Due'["fujinet_external"] = box /\ Due'["fujinet_external_addr"] = entry
  BY <1>1, <1>3, <1>4, <1>5, PutIsAList
<1> HIDE DEF one
<1>8. Of(Due', "smooth_scaling", 0) = Of(settings, "smooth_scaling", 0)
  BY <1>3, <1>6 DEF Of
<1>9. Sound(Due')
  BY <1>7, NoTextParses DEF Sound, Of, Usable
<1>10. ASSUME GetStr("fujinet_external", 0) = box, SavedAddress = entry
       PROVE  DefaultOpts(Due') = DefaultOpts(settings)
  <2>1. /\ Of(Due', "fujinet_external", 0) = Of(settings, "fujinet_external", 0)
        /\ Of(Due', "fujinet_external_addr", EmptyText)
             = Of(settings, "fujinet_external_addr", EmptyText)
    BY <1>7, <1>10 DEF Of, GetStr, SavedAddress
  <2>2. /\ Due'["slot7"] = settings["slot7"]
        /\ Of(Due', "scanlines", 1) = Of(settings, "scanlines", 1)
    BY <1>3, <1>6 DEF Of
  <2> QED
    BY <2>1, <2>2, SameOptions
<1> QED
  BY <1>2, <1>4, <1>8, <1>9, <1>10, WhatIsOwed

(* KDE's "done" sets what was changed, and restarts for it.                 *)
LEMMA SetsDone ==
  ASSUME PrefsInv, Idle, kit \notin {"gnome", "macos"}, Usable, NEW then,
         Save(DoneSets, then), "restart" \in then \/ machine_dirty = FALSE,
         DoneSets # <<>> => "restart" \in then
  PROVE  TodoOK' /\ AppliedInv' /\ SoundInv'
<1>1. /\ PairOK(SwitchPair) /\ PairOK(AddressPair)
      /\ SwitchPair[1] = "fujinet_external" /\ SwitchPair[2] = box
      /\ AddressPair[1] = "fujinet_external_addr" /\ AddressPair[2] = entry
  BY ConnectionPairs
<1>2. /\ todo' = DoneSets /\ owed' = then
      /\ UNCHANGED <<kit, storeVars, diskVars, up, shownVars, torn>>
  BY DEF Save
<1>3. /\ ListOK(settings)
      /\ "smooth_scaling" \in Keys /\ "fujinet_external_addr" \in Keys
      /\ "fujinet_external" \in Keys
  BY StoreAssumption DEF PrefsInv, ValuesOK
<1>4. CASE DoneSets = <<>>
  BY <1>2, <1>4, SetsNothing
<1>5. CASE /\ SavedAddress = entry /\ DoneSets = <<SwitchPair>>
           /\ DoneSets # <<>>
  <2>1. TodoOK' /\ Due' = Put(settings, SwitchPair)
    BY <1>1, <1>2, <1>5, DueOfOne
  <2>2. /\ Of(Due', "smooth_scaling", 0) = Of(settings, "smooth_scaling", 0)
        /\ Of(Due', "fujinet_external_addr", EmptyText)
             = Of(settings, "fujinet_external_addr", EmptyText)
    BY <1>1, <1>3, <2>1, OtherKeys
  <2>3. Due'["fujinet_external"] = box
    BY <1>1, <1>3, <2>1, PutIsAList
  <2>4. Sound(Due')
    BY <1>5, <2>2, <2>3 DEF Sound, Of, Usable, SavedAddress, GetStr
  <2> QED
    BY <1>2, <1>5, <2>1, <2>2, <2>4, WhatIsOwed
<1>6. CASE /\ GetStr("fujinet_external", 0) = box /\ DoneSets = <<AddressPair>>
           /\ DoneSets # <<>>
  <2>1. TodoOK' /\ Due' = Put(settings, AddressPair)
    BY <1>1, <1>2, <1>6, DueOfOne
  <2>2. /\ Of(Due', "smooth_scaling", 0) = Of(settings, "smooth_scaling", 0)
        /\ Of(Due', "fujinet_external", 0) = Of(settings, "fujinet_external", 0)
    BY <1>1, <1>3, <2>1, OtherKeys
  <2>3. Due'["fujinet_external_addr"] = entry
    BY <1>1, <1>3, <2>1, PutIsAList
  <2>4. Sound(Due')
    BY <1>6, <2>2, <2>3, NoTextParses DEF Sound, Of, Usable, GetStr
  <2> QED
    BY <1>2, <1>6, <2>1, <2>2, <2>4, WhatIsOwed
<1>7. CASE DoneSets = <<SwitchPair, AddressPair>> /\ DoneSets # <<>>
  BY <1>2, <1>7, SetsBoth
<1> QED
  BY <1>4, <1>5, <1>6, <1>7, DoneCases

(* Every handler: what it marks, sets and owes. *)
LEMMA DialogsKeep == PrefsInv /\ Dialogs => TodoOK' /\ AppliedInv' /\ SoundInv'
<1> SUFFICES ASSUME PrefsInv, Dialogs PROVE TodoOK' /\ AppliedInv' /\ SoundInv'
  OBVIOUS
<1>1. Idle /\ UNCHANGED <<kit, storeVars, diskVars, up, shownVars, torn>>
  BY HandlersDecide DEF Handler
<1>2. machine_dirty => dialog = "open" /\ kit # "windows"
  BY DEF PrefsInv, GoneInv
<1>3. ASSUME NEW k, Show(k) PROVE TodoOK' /\ AppliedInv' /\ SoundInv'
  BY <1>1, <1>2, <1>3, SetsNothing DEF Show, Idle, PrefsInv, FlagsOK
<1>4. CASE MacReshow
  BY <1>1, <1>2, <1>4, SetsNothing DEF MacReshow, Idle
<1>5. CASE PrefsClosed
  BY <1>1, <1>2, <1>5, SetsNothing
  DEF PrefsClosed, Save, RestartIf, PrefsInv, FlagsOK
<1>6. CASE Done
  <2> DEFINE then == RestartIf(machine_dirty \/ DoneSets # <<>>)
  <2>1. kit = "kde" /\ Usable /\ Save(DoneSets, then)
    BY <1>6 DEF Done, In
  <2>2. "restart" \in then \/ machine_dirty = FALSE
    BY DEF RestartIf, PrefsInv, FlagsOK
  <2>3. DoneSets # <<>> => "restart" \in then
    BY DEF RestartIf
  <2> HIDE DEF then
  <2> QED
    BY <1>1, <2>1, <2>2, <2>3, SetsDone
<1>7. CASE ConnApply
  <2> DEFINE then == RestartIf(DoneSets # <<>>)
  <2>1. kit = "windows" /\ Usable /\ Save(<<SwitchPair, AddressPair>>, then)
    BY <1>7, BothPairs DEF ConnApply, In
  <2>2. machine_dirty = FALSE
    BY <1>2, <2>1 DEF PrefsInv, FlagsOK
  <2>3. DoneSets # <<>> => "restart" \in then
    BY DEF RestartIf
  <2> HIDE DEF then
  <2> QED
    BY <1>1, <2>1, <2>2, <2>3, DoneCases, SetsBoth
<1>8. CASE ConnCancel
  BY <1>1, <1>2, <1>8, SetsNothing DEF ConnCancel, In, Save, PrefsInv, FlagsOK
<1>9. CASE WindowWillClose
  <2> DEFINE then == RestartIf(machine_dirty \/ (editing /\ Parses(entry)))
  <2>1. Committed(then)
    BY <1>9 DEF WindowWillClose
  <2>2. editing /\ Parses(entry) => "restart" \in then
    BY DEF RestartIf
  <2>3. "restart" \in then \/ machine_dirty = FALSE
    BY DEF RestartIf, PrefsInv, FlagsOK
  <2>4. entry \in Texts \cup {EmptyText}
    BY DEF PrefsInv, ValuesOK
  <2> HIDE DEF then
  <2>5. CASE editing /\ Parses(entry)
    BY <1>1, <2>1, <2>2, <2>4, <2>5, SetsAddress DEF Committed
  <2>6. CASE ~(editing /\ Parses(entry))
    BY <1>1, <2>1, <2>3, <2>6, SetsNothing DEF Committed, Save
  <2> QED
    BY <2>5, <2>6
<1> QED
  BY <1>3, <1>4, <1>5, <1>6, <1>7, <1>8, <1>9
  DEF Dialogs, GnomeShow, KdeShow, WindowsShow, MacShow

LEMMA RowsKeep == PrefsInv /\ Rows => TodoOK' /\ AppliedInv' /\ SoundInv'
<1> SUFFICES ASSUME PrefsInv, Rows PROVE TodoOK' /\ AppliedInv' /\ SoundInv'
  OBVIOUS
<1>1. Idle
  BY HandlersDecide DEF Handler
<1>2. CASE ComboStrChanged
  BY <1>1, <1>2, SetsSlot7 DEF ComboStrChanged, Marked
<1>3. CASE OptionRowChanged
  BY <1>1, <1>3, SetsSlot7 DEF OptionRowChanged, Marked
<1>4. CASE OptionChanged
  BY <1>1, <1>4, SetsSlot7 DEF OptionChanged, Marked
<1>5. CASE OnCommandOption
  BY <1>1, <1>5, SetsSlot7 DEF OnCommandOption, Option, Save
<1>6. CASE ScanlinesChanged
  BY <1>1, <1>6, SetsScanlines DEF ScanlinesChanged, Marked
<1>7. CASE ScanlinesToggled
  BY <1>1, <1>7, SetsScanlines DEF ScanlinesToggled, Marked
<1>8. CASE MacScanlinesChanged
  BY <1>1, <1>8, SetsScanlines DEF MacScanlinesChanged, Marked
<1>9. CASE OnCommandScanlines
  BY <1>1, <1>9, SetsScanlines DEF OnCommandScanlines
<1> QED
  BY <1>2, <1>3, <1>4, <1>5, <1>6, <1>7, <1>8, <1>9 DEF Rows

LEMMA ConnectionKeeps ==
  PrefsInv /\ Connection => TodoOK' /\ AppliedInv' /\ SoundInv'
<1> SUFFICES ASSUME PrefsInv, Connection PROVE TodoOK' /\ AppliedInv' /\ SoundInv'
  OBVIOUS
<1>1. Idle /\ UNCHANGED <<kit, storeVars, diskVars, up, shownVars, torn>>
  BY HandlersDecide DEF Handler
<1>2. CASE SwitchChanged
  BY <1>1, <1>2, SetsSwitch DEF SwitchChanged, In
<1>3. CASE ExternalChanged
  BY <1>1, <1>3, SetsSwitch DEF ExternalChanged, In
<1>4. CASE AddrChanged
  <2>1. PICK t \in Texts :
          IF Parses(t) /\ t # SavedAddress
            THEN Save(Address(t), {}) /\ machine_dirty' = TRUE
            ELSE Save(<<>>, {}) /\ UNCHANGED machine_dirty
    BY <1>4 DEF AddrChanged
  <2>2. CASE Parses(t) /\ t # SavedAddress
    BY <1>1, <2>1, <2>2, SetsAddress
  <2>3. CASE ~(Parses(t) /\ t # SavedAddress)
    BY <1>1, <2>1, <2>3, SetsNothing DEF Save
  <2> QED
    BY <2>2, <2>3
<1>5. CASE ExternalAddrEdited
  BY <1>1, <1>5, SetsNothing DEF ExternalAddrEdited, Idle
<1>6. CASE ExternalAddrChanged
  <2>1. /\ editing /\ Committed({})
        /\ machine_dirty' = (machine_dirty \/ Parses(entry))
    BY <1>6 DEF ExternalAddrChanged
  <2>2. entry \in Texts \cup {EmptyText}
    BY DEF PrefsInv, ValuesOK
  <2>3. CASE Parses(entry)
    BY <1>1, <2>1, <2>2, <2>3, SetsAddress DEF Committed
  <2>4. CASE ~Parses(entry)
    <3>1. Save(<<>>, {})
      BY <2>1, <2>4 DEF Committed
    <3>2. machine_dirty' = FALSE => machine_dirty = FALSE
      BY <2>1 DEF PrefsInv, FlagsOK
    <3> QED
      BY <1>1, <3>1, <3>2, SetsNothing DEF Save
  <2> QED
    BY <2>3, <2>4
<1>7. ASSUME NEW k, EditsField(k) PROVE TodoOK' /\ AppliedInv' /\ SoundInv'
  BY <1>1, <1>7, SetsNothing DEF EditsField, Idle
<1> QED
  BY <1>2, <1>3, <1>4, <1>5, <1>6, <1>7 DEF Connection, KdeEdits, WindowsEdits

LEMMA HandlersKeep == PrefsInv /\ Handler => TodoOK' /\ AppliedInv' /\ SoundInv'
<1> SUFFICES ASSUME PrefsInv, ImportRoms PROVE TodoOK' /\ AppliedInv' /\ SoundInv'
  BY DialogsKeep, RowsKeep, ConnectionKeeps DEF Handler
<1>1. Idle /\ UNCHANGED <<kit, storeVars, diskVars, up, shownVars, torn>>
  BY HandlersDecide DEF Handler
<1> QED
  BY <1>1, SetsNothing DEF ImportRoms, Save

-----------------------------------------------------------------------------
(* The types, and what may be marked, after a handler ...                   *)
LEMMA HandlerValues == PrefsInv /\ Handler => ValuesOK' /\ FlagsOK' /\ GoneInv'
<1> SUFFICES ASSUME PrefsInv, Handler PROVE ValuesOK' /\ FlagsOK' /\ GoneInv'
  OBVIOUS
<1>1. Idle /\ UNCHANGED <<kit, storeVars, diskVars, up, shownVars, torn>>
  BY HandlersDecide
<1> DEFINE Fields ==
      /\ dialog' \in {"none", "open", "hidden"}
      /\ box' \in {0, 1} /\ entry' \in Texts \cup {EmptyText}
      /\ machine_dirty' \in BOOLEAN /\ editing' \in BOOLEAN
      /\ machine_dirty' => dialog' = "open" /\ kit # "windows"
<1>2. SUFFICES Fields
  <2>1. ListOK(settings)' /\ ListOK(before)'
    BY <1>1 DEF PrefsInv, ValuesOK, ListOK
  <2> QED
    BY <1>1, <2>1 DEF PrefsInv, ValuesOK, FlagsOK, GoneInv, Idle
<1>3. /\ dialog \in {"none", "open", "hidden"}
      /\ box \in {0, 1} /\ entry \in Texts \cup {EmptyText}
      /\ machine_dirty \in BOOLEAN /\ editing \in BOOLEAN
      /\ machine_dirty => dialog = "open" /\ kit # "windows"
  BY DEF PrefsInv, ValuesOK, FlagsOK, GoneInv
<1>4. /\ GetStr("fujinet_external_addr", EmptyText) \in Texts \cup {EmptyText}
      /\ GetStr("fujinet_external", 0) \in {0, 1}
  BY StoreAssumption DEF PrefsInv, ValuesOK, ListOK, Held, GetStr
<1>5. ASSUME NEW k, Show(k) PROVE Fields
  BY <1>4, <1>5 DEF Show
<1>6. CASE MacReshow
  BY <1>3, <1>6 DEF MacReshow
<1>7. CASE PrefsClosed \/ Done \/ ConnApply \/ ConnCancel
  <2>1. Closed
    BY <1>7 DEF PrefsClosed, Done, ConnApply, ConnCancel
  <2> QED
    BY <2>1 DEF Closed
<1>8. CASE WindowWillClose
  BY <1>3, <1>8 DEF WindowWillClose
<1>9. CASE ComboStrChanged \/ OptionRowChanged \/ OptionChanged
           \/ ScanlinesChanged \/ ScanlinesToggled \/ MacScanlinesChanged
  <2>1. Marked /\ dialog = "open" /\ kit # "windows"
    BY <1>9 DEF ComboStrChanged, OptionRowChanged, OptionChanged,
      ScanlinesChanged, ScanlinesToggled, MacScanlinesChanged, In
  <2> QED
    BY <1>3, <2>1 DEF Marked
<1>10. CASE OnCommandOption \/ OnCommandScanlines
  BY <1>3, <1>10 DEF OnCommandOption, OnCommandScanlines
<1>11. CASE SwitchChanged \/ ExternalChanged
  <2>1. /\ kit # "windows" /\ dialog = "open"
        /\ Switch /\ machine_dirty' = TRUE
    BY <1>11 DEF SwitchChanged, ExternalChanged, In
  <2>2. box' \in {0, 1}
    BY <1>3, <2>1 DEF Switch
  <2> QED
    BY <1>3, <2>1, <2>2 DEF Switch
<1>12. CASE AddrChanged
  BY <1>3, <1>12 DEF AddrChanged, In
<1>13. CASE ExternalAddrEdited
  BY <1>3, <1>13 DEF ExternalAddrEdited, In
<1>14. CASE ExternalAddrChanged
  <2>1. /\ kit = "macos" /\ dialog = "open" /\ editing' = FALSE
        /\ machine_dirty' = (machine_dirty \/ Parses(entry))
        /\ UNCHANGED <<dialog, box, entry>>
    BY <1>14 DEF ExternalAddrChanged, In
  <2>2. machine_dirty' \in BOOLEAN
    BY <1>3, <2>1
  <2> QED
    BY <1>3, <2>1, <2>2
<1>15. ASSUME NEW k, EditsField(k) PROVE Fields
  BY <1>3, <1>15 DEF EditsField, In
<1>16. CASE ImportRoms
  BY <1>3, <1>16 DEF ImportRoms
<1> QED
  BY <1>5, <1>6, <1>7, <1>8, <1>9, <1>10, <1>11, <1>12, <1>13, <1>14, <1>15,
    <1>16
  DEF Handler, Dialogs, Rows, Connection, GnomeShow, KdeShow, WindowsShow,
    MacShow, KdeEdits, WindowsEdits

(* ... which leaves the file alone as well.                                 *)
LEMMA HandlerInv == PrefsInv /\ Handler => PrefsInv'
<1> SUFFICES ASSUME PrefsInv, Handler PROVE FileInv'
  BY HandlerValues, HandlersKeep DEF PrefsInv
<1> QED
  BY HandlersDecide DEF PrefsInv, FileInv, Nothing, ListOK

(* One more of the settings to set. *)
LEMMA SetNextInv == PrefsInv /\ SetNext => PrefsInv'
<1> SUFFICES ASSUME PrefsInv, SetNext PROVE PrefsInv'
  OBVIOUS
<1>1. TodoOK' /\ ListOK(settings)' /\ Due' = Due
  BY SetKeepsDue DEF PrefsInv, ValuesOK
<1>2. /\ UNCHANGED <<kit, failures, diskVars, up, dialogVars, owed, shownVars, torn>>
      /\ up /\ io = "idle"
  BY DEF SetNext, SetStr
<1>3. /\ dirty' = (dirty \/ settings[Head(todo)[1]] # Head(todo)[2])
      /\ settings' = [settings EXCEPT ![Head(todo)[1]] = Head(todo)[2]]
      /\ io' = IF dirty' THEN "flush" ELSE "idle"
  BY DEF SetNext, SetStr
<1>4. ValuesOK'
  BY <1>1, <1>2 DEF PrefsInv, ValuesOK, ListOK
<1>5. FlagsOK'
  BY <1>2, <1>3 DEF PrefsInv, FlagsOK
<1>6. FileInv'
  <2>1. dirty' = FALSE => dirty = FALSE /\ settings' = settings
    BY <1>3 DEF PrefsInv, FlagsOK, ValuesOK, ListOK
  <2> QED
    BY <1>2, <1>3, <2>1 DEF PrefsInv, FileInv, FlagsOK, Nothing, ListOK
<1>7. GoneInv'
  BY <1>2 DEF PrefsInv, GoneInv
<1>8. AppliedInv'
  BY <1>1, <1>2 DEF PrefsInv, AppliedInv, Of
<1>9. SoundInv'
  BY <1>1, <1>2 DEF PrefsInv, SoundInv, Sound, Of
<1> QED
  BY <1>1, <1>4, <1>5, <1>6, <1>7, <1>8, <1>9 DEF PrefsInv

(* A step of the flush. *)
LEMMA FlushInv == PrefsInv /\ FlushStep => PrefsInv'
<1> SUFFICES ASSUME PrefsInv, FlushStep PROVE PrefsInv'
  OBVIOUS
<1>1. /\ UNCHANGED <<kit, settings, prefsVars>>
      /\ io # "idle"
  BY DEF FlushStep, Flush, FlushFails, FlushOpens, FlushWrites, FlushRemoves,
    FlushRenames, RenameFails, EndsFlush
<1>2. up /\ dirty
  BY <1>1 DEF PrefsInv, FileInv
<1>3. TodoOK' /\ Due' = Due
  BY <1>1 DEF PrefsInv, TodoOK, Due, Put
<1>4. AppliedInv' /\ SoundInv'
  BY <1>1, <1>2, <1>3 DEF PrefsInv, AppliedInv, SoundInv, Sound, Of
<1>5. settings # Absent /\ settings # Torn
  BY WholeList DEF PrefsInv, ValuesOK
<1>6. /\ ValuesOK /\ FlagsOK /\ FileInv /\ GoneInv
  BY DEF PrefsInv
<1>7. CASE FlushFails \/ FlushOpens \/ FlushWrites \/ FlushRemoves
  <2>1. UNCHANGED <<dirty, before, unnoticed>>
    BY <1>7 DEF FlushFails, FlushOpens, FlushWrites, FlushRemoves
  <2>2. ValuesOK'
    BY <1>1, <1>6, <2>1 DEF ValuesOK, ListOK
  <2>3. FlagsOK' /\ GoneInv'
    BY <1>1, <1>6, <1>7, <2>1
    DEF FlagsOK, GoneInv, FlushFails, FlushOpens, FlushWrites, FlushRemoves
  <2>4. FileInv'
    BY <1>1, <1>2, <1>6, <1>7, <2>1, FilesAssumption
    DEF FileInv, FlushFails, FlushOpens, FlushWrites, FlushRemoves, Nothing,
      ListOK
  <2> QED
    BY <1>3, <1>4, <2>2, <2>3, <2>4 DEF PrefsInv
<1>8. CASE FlushRenames
  <2>1. /\ settings_file' = tmp /\ before' = settings
        /\ tmp \in {settings, Torn} /\ unnoticed' = (tmp = Torn)
        /\ io' = "idle" /\ dirty' = FALSE
    BY <1>6, <1>8 DEF FileInv, FlushRenames, EndsFlush
  <2>2. ValuesOK'
    BY <1>1, <1>6, <2>1 DEF ValuesOK, ListOK
  <2>3. FlagsOK' /\ GoneInv'
    BY <1>1, <1>2, <1>6, <2>1 DEF FlagsOK, GoneInv
  <2>4. ASSUME tmp = Torn PROVE FileInv'
    <3>1. unnoticed' = TRUE /\ settings_file' = Torn
      BY <2>1, <2>4, Zenon
    <3>2. io' = "idle" /\ dirty' = FALSE
      BY <2>1
    <3> QED
      BY <3>1, <3>2 DEF FileInv
  <2>5. ASSUME tmp = settings PROVE FileInv'
    <3>1. unnoticed' = FALSE
      BY <1>5, <2>1, <2>5, Zenon
    <3>2. ListOK(settings_file)' /\ settings_file' = before'
      BY <1>6, <2>1, <2>5 DEF ValuesOK, ListOK
    <3>3. settings_file' # Absent /\ settings_file' # Torn /\ settings' = before'
      BY <1>1, <1>5, <2>1, <2>5
    <3>4. io' = "idle" /\ dirty' = FALSE
      BY <2>1
    <3> QED
      BY <3>1, <3>2, <3>3, <3>4 DEF FileInv
  <2>6. tmp = Torn \/ tmp = settings
    BY <2>1, Zenon
  <2>7. FileInv'
    BY <2>4, <2>5, <2>6, Zenon
  <2> QED
    BY <1>3, <1>4, <2>2, <2>3, <2>7 DEF PrefsInv
<1>9. CASE RenameFails
  <2>1. /\ unnoticed' = TRUE /\ io' = "idle" /\ dirty' = FALSE
        /\ UNCHANGED <<settings_file, tmp, before>>
    BY <1>9 DEF RenameFails, EndsFlush
  <2>2. ValuesOK'
    BY <1>1, <1>6, <2>1 DEF ValuesOK, ListOK
  <2>3. FlagsOK' /\ GoneInv'
    BY <1>1, <1>2, <1>6, <2>1 DEF FlagsOK, GoneInv
  <2>4. FileInv'
    BY <1>6, <2>1 DEF FileInv, ListOK
  <2> QED
    BY <1>3, <1>4, <2>2, <2>3, <2>4 DEF PrefsInv
<1> QED
  BY <1>7, <1>8, <1>9 DEF FlushStep, Flush

-----------------------------------------------------------------------------
(* What a handler owes: the display applied, the session restarted.         *)
LEMMA OwedInv == PrefsInv /\ (ApplyDisplay \/ RestartSession) => PrefsInv'
<1> SUFFICES ASSUME PrefsInv, ApplyDisplay \/ RestartSession PROVE PrefsInv'
  OBVIOUS
<1>1. /\ UNCHANGED <<kit, storeVars, diskVars, up, dialogVars, todo, torn>>
      /\ up /\ todo = <<>>
      /\ \A what : what \notin owed' /\ what \in owed => what \in {"display", "restart"}
  BY DEF ApplyDisplay, RestartSession, SavesDone
<1>2. TodoOK' /\ Due' = settings /\ Due = settings
  BY <1>1 DEF PrefsInv, TodoOK, Due
<1>3. ValuesOK' /\ FlagsOK' /\ FileInv' /\ GoneInv'
  BY <1>1 DEF PrefsInv, ValuesOK, ListOK, FlagsOK, FileInv, GoneInv, Nothing
<1>4. AppliedInv'
  <2>1. CASE ApplyDisplay
    <3>1. /\ smooth' = Of(settings, "smooth_scaling", 0)
          /\ owed' = owed \ {"display"} /\ UNCHANGED machine
      BY <2>1 DEF ApplyDisplay, GetStr, Of
    <3> QED
      BY <1>1, <1>2, <3>1 DEF PrefsInv, AppliedInv, Of
  <2>2. CASE RestartSession
    <3>1. /\ machine' = StartOpts(DefaultOpts(settings))
          /\ owed' = owed \ {"restart"} /\ UNCHANGED smooth
      BY <2>2 DEF RestartSession, StartsWith
    <3> QED
      BY <1>1, <1>2, <3>1 DEF PrefsInv, AppliedInv, Of
  <2> QED
    BY <2>1, <2>2
<1>5. SoundInv'
  BY <1>1, <1>2 DEF PrefsInv, SoundInv, Sound, Of
<1> QED
  BY <1>2, <1>3, <1>4, <1>5 DEF PrefsInv

(* The process ends, whole or not: what is in the file is what the next one *)
(* starts from.                                                             *)
LEMMA EndsInv == PrefsInv /\ up /\ Ends => PrefsInv'
<1> SUFFICES ASSUME PrefsInv, up, Ends PROVE PrefsInv'
  OBVIOUS
<1>1. /\ up' = FALSE /\ settings' = Nothing /\ dirty' = FALSE /\ io' = "idle"
      /\ UNCHANGED <<kit, failures, diskVars>>
      /\ dialog' = "none" /\ box' = 0 /\ entry' = EmptyText
      /\ machine_dirty' = FALSE /\ editing' = FALSE
      /\ todo' = <<>> /\ owed' = {}
      /\ torn' = (torn \/ todo # <<>> \/ dirty \/ unnoticed)
  BY DEF Ends, SettingsGone, Closed
<1>2. ValuesOK /\ FlagsOK /\ FileInv /\ SoundInv
  BY DEF PrefsInv
<1>3. ValuesOK'
  BY <1>1, <1>2, NothingIsAList DEF ValuesOK, ListOK, Nothing
<1>4. FlagsOK' /\ GoneInv' /\ TodoOK' /\ AppliedInv'
  BY <1>1, <1>2 DEF FlagsOK, GoneInv, TodoOK, AppliedInv
<1>5. FileInv'
  BY <1>1, <1>2 DEF FileInv, Nothing, ListOK
<1>6. SoundInv'
  <2> SUFFICES ASSUME Hops = FALSE, torn' = FALSE PROVE Sound(Read(settings_file))'
    BY <1>1 DEF SoundInv
  <2>1. torn = FALSE /\ todo = <<>> /\ dirty = FALSE /\ unnoticed = FALSE
    BY <1>1, <1>2 DEF FlagsOK
  <2>2. Sound(settings)
    BY <1>2, <2>1 DEF SoundInv, Due
  <2>3. before # Absent /\ settings = before
    BY <1>2, <2>1, WholeList DEF ValuesOK, FileInv
  <2>4. settings = Read(settings_file)
    BY <1>2, <2>1, <2>3 DEF FileInv, FlagsOK, Read
  <2> QED
    BY <1>1, <2>2, <2>4 DEF Sound, Of, Read, Nothing
<1> QED
  BY <1>3, <1>4, <1>5, <1>6 DEF PrefsInv

LEMMA QuitsInv == PrefsInv /\ Quits => PrefsInv'
<1> SUFFICES ASSUME PrefsInv, Quits PROVE PrefsInv'
  OBVIOUS
<1>1. /\ up /\ todo = <<>> /\ owed' = {"quit"}
      /\ io' = IF dirty /\ kit # "macos" THEN "flush" ELSE "idle"
      /\ UNCHANGED <<kit, settings, dirty, failures, diskVars, up, dialogVars,
                     todo, shownVars, torn>>
      /\ io = "idle" /\ owed = {}
  BY DEF Quits, Idle
<1>2. TodoOK' /\ Due' = Due
  BY <1>1 DEF PrefsInv, TodoOK, Due
<1>3. ValuesOK' /\ FlagsOK' /\ FileInv' /\ GoneInv'
  BY <1>1 DEF PrefsInv, ValuesOK, ListOK, FlagsOK, FileInv, GoneInv, Nothing
<1>4. AppliedInv' /\ SoundInv'
  BY <1>1, <1>2 DEF PrefsInv, AppliedInv, SoundInv, Sound, Of
<1> QED
  BY <1>2, <1>3, <1>4 DEF PrefsInv

(* The next process, of the same frontend or another.                       *)
LEMMA LaunchInv == PrefsInv /\ Launch => PrefsInv'
<1> SUFFICES ASSUME PrefsInv, Launch PROVE PrefsInv'
  OBVIOUS
<1>1. ValuesOK /\ FlagsOK /\ FileInv /\ SoundInv /\ GoneInv
  BY DEF PrefsInv
<1>2. PICK cut \in IF settings_file = Torn THEN Cuts(before) ELSE {Nothing} :
        SettingsInit(cut)
  BY DEF Launch
<1> DEFINE found == IF settings_file = Torn THEN cut ELSE Read(settings_file)
<1>3. /\ up = FALSE /\ up' = TRUE
      /\ kit' \in IF Hops THEN Kits ELSE {kit}
      /\ UNCHANGED <<dialogVars, workVars, torn>>
      /\ machine' = StartOpts(DefaultOpts(settings'))
      /\ smooth' = Of(settings', "smooth_scaling", 0)
  BY <1>1 DEF FlagsOK, Launch, StartsWith, Of
<1>4. /\ settings' = found /\ before' = found
      /\ settings_file' = IF settings_file = Torn THEN cut ELSE settings_file
      /\ dirty' = FALSE /\ unnoticed' = FALSE /\ io' = "idle"
  BY <1>2 DEF SettingsInit
<1>5. todo = <<>> /\ owed = {} /\ dialog = "none" /\ machine_dirty = FALSE
  BY <1>1, <1>3 DEF GoneInv, FlagsOK
<1>6. ListOK(found)
  <2>1. CASE settings_file = Torn
    BY <1>1, <1>2, <2>1, CutIsAList DEF ValuesOK
  <2>2. CASE settings_file = Absent
    BY <2>2, FilesAssumption, NothingIsAList DEF Read
  <2>3. CASE settings_file \notin {Absent, Torn}
    BY <1>1, <2>3 DEF FileInv, Read
  <2> QED
    BY <2>1, <2>2, <2>3
<1>7. ValuesOK'
  <2>1. kit' \in Kits
    BY <1>1, <1>3 DEF ValuesOK
  <2>2. ListOK(settings)' /\ ListOK(before)'
    BY <1>4, <1>6 DEF ListOK
  <2> QED
    BY <1>1, <1>3, <2>1, <2>2 DEF ValuesOK
<1>8. FlagsOK' /\ GoneInv'
  BY <1>1, <1>3, <1>4, <1>5 DEF FlagsOK, GoneInv
<1>9. TodoOK' /\ Due' = settings'
  BY <1>3, <1>5 DEF TodoOK, Due
<1>10. FileInv'
  <2>1. CASE settings_file = Absent
    <3>1. settings_file' = Absent /\ before' = Nothing
      BY <1>4, <2>1, FilesAssumption DEF Read
    <3> QED
      BY <1>3, <1>4, <3>1, FilesAssumption DEF FileInv, Nothing
  <2>2. CASE settings_file # Absent
    <3>1. settings_file' = found
      BY <1>4, <2>2 DEF Read
    <3>2. ListOK(settings_file)' /\ settings_file' # Torn /\ settings_file' # Absent
      BY <1>6, <3>1, WholeList DEF ListOK
    <3> QED
      BY <1>3, <1>4, <3>1, <3>2 DEF FileInv
  <2> QED
    BY <2>1, <2>2
<1>11. AppliedInv'
  BY <1>3, <1>9 DEF AppliedInv, Of
<1>12. SoundInv'
  <2> SUFFICES ASSUME Hops = FALSE, torn' = FALSE PROVE Sound(Due)'
    BY <1>3 DEF SoundInv
  <2>1. torn = FALSE /\ settings_file # Torn
    BY <1>1, <1>3 DEF FileInv, GoneInv
  <2>2. kit' = kit /\ Sound(Read(settings_file))
    BY <1>1, <1>3, <2>1 DEF SoundInv
  <2>3. Due' = Read(settings_file)
    BY <1>4, <1>9, <2>1
  <2> QED
    BY <2>2, <2>3 DEF Sound, Of
<1> QED
  BY <1>7, <1>8, <1>9, <1>10, <1>11, <1>12 DEF PrefsInv

(* No file, or an older version's. *)
LEMMA InitInv == PrefsInit => PrefsInv
<1> SUFFICES ASSUME PrefsInit PROVE PrefsInv
  OBVIOUS
<1>1. /\ settings = Nothing /\ before = Read(settings_file)
      /\ \/ settings_file = Absent
         \/ \E v \in OldSlot7 : settings_file = Put(Nothing, <<"slot7", v>>)
  BY DEF PrefsInit, Put
<1>2. \A v \in OldSlot7 : PairOK(<<"slot7", v>>)
  BY StoreAssumption DEF PairOK, Held
<1>3. /\ ListOK(before)
      /\ before # settings_file => settings_file = Absent /\ before = Nothing
  <2>1. CASE settings_file = Absent
    BY <1>1, <2>1, NothingIsAList DEF Read
  <2>2. ASSUME NEW v \in OldSlot7, settings_file = Put(Nothing, <<"slot7", v>>)
        PROVE  ListOK(settings_file)
    BY <1>2, <2>2, NothingIsAList, PutIsAList
  <2>3. CASE ListOK(settings_file)
    <3>1. settings_file # Absent
      BY <2>3, WholeList
    <3>2. before = settings_file
      BY <1>1, <3>1 DEF Read
    <3> QED
      BY <2>3, <3>2, Zenon
  <2> QED
    BY <1>1, <2>1, <2>2, <2>3
<1>4. /\ before["fujinet_external"] = Unset
      /\ before["fujinet_external_addr"] = Unset
  <2>1. CASE settings_file = Absent
    BY <1>1, <2>1, StoreAssumption DEF Read, Nothing
  <2>2. ASSUME NEW v \in OldSlot7, settings_file = Put(Nothing, <<"slot7", v>>)
        PROVE  /\ settings_file["fujinet_external"] = Unset
               /\ settings_file["fujinet_external_addr"] = Unset
    BY <2>2, StoreAssumption DEF Put, Nothing
  <2> QED
    BY <1>1, <1>3, <2>1, <2>2
<1>5. ValuesOK /\ FlagsOK
  BY <1>1, <1>3, NothingIsAList DEF PrefsInit, ValuesOK, FlagsOK
<1>6. TodoOK /\ GoneInv /\ AppliedInv
  BY <1>3 DEF PrefsInit, TodoOK, GoneInv, AppliedInv
<1>8. FileInv
  <2>1. settings_file # Torn /\ (settings_file = Absent \/ ListOK(settings_file))
    BY <1>1, <1>3, WholeList, FilesAssumption
  <2> QED
    BY <1>3, <2>1 DEF PrefsInit, FileInv
<1>7. SoundInv
  BY <1>1, <1>4, NoTextParses DEF PrefsInit, SoundInv, Sound, Of
<1> QED
  BY <1>5, <1>6, <1>7, <1>8 DEF PrefsInv

LEMMA StepInv == PrefsInv /\ [PrefsNext]_allVars => PrefsInv'
<1> SUFFICES ASSUME PrefsInv, [PrefsNext]_allVars PROVE PrefsInv'
  OBVIOUS
<1>1. CASE Handler
  BY <1>1, HandlerInv
<1>2. CASE SetNext
  BY <1>2, SetNextInv
<1>3. CASE FlushStep
  BY <1>3, FlushInv
<1>4. CASE ApplyDisplay \/ RestartSession
  BY <1>4, OwedInv
<1>5. CASE Quits
  BY <1>5, QuitsInv
<1>6. CASE Exits \/ Dies
  BY <1>6, EndsInv DEF Exits, Dies, SavesDone
<1>7. CASE Launch
  BY <1>7, LaunchInv
<1>8. CASE UNCHANGED allVars
  <2>1. UNCHANGED <<kit, storeVars, diskVars, prefsVars>>
    BY <1>8 DEF allVars
  <2>2. TodoOK' /\ Due' = Due
    BY <2>1 DEF PrefsInv, TodoOK, Due, Put
  <2>3. ValuesOK' /\ FlagsOK' /\ FileInv' /\ GoneInv'
    BY <2>1 DEF PrefsInv, ValuesOK, ListOK, FlagsOK, FileInv, GoneInv, Nothing
  <2>4. AppliedInv' /\ SoundInv'
    BY <2>1, <2>2 DEF PrefsInv, AppliedInv, SoundInv, Sound, Of
  <2> QED
    BY <2>2, <2>3, <2>4 DEF PrefsInv
<1> QED
  BY <1>1, <1>2, <1>3, <1>4, <1>5, <1>6, <1>7, <1>8
  DEF PrefsNext, Handler, Work, Process

-----------------------------------------------------------------------------
(* Holds in every reachable state. *)
THEOREM PrefsInvariant == PrefsSpec => []PrefsInv
BY InitInv, StepInv, PTL DEF PrefsSpec

(* settings.c: whenever the process dies, the file is the last save that    *)
(* ended, whole (on Windows it may be gone), and a list with nothing left   *)
(* to save is the file's - but from an error the flush ignores to the end   *)
(* of the next save without one.                                            *)
THEOREM FileSurvives == PrefsSpec => []SettingsSurvive
<1>1. PrefsInv => SettingsSurvive
  <2> SUFFICES ASSUME PrefsInv, ~unnoticed PROVE FileIsLastSave
    BY DEF SettingsSurvive
  <2>1. before # Absent /\ before # Torn
    BY WholeList DEF PrefsInv, ValuesOK
  <2>2. FileInv /\ unnoticed = FALSE
    BY DEF PrefsInv, FlagsOK
  <2>3. ASSUME Idle, ~dirty PROVE settings = Read(settings_file)
    <3>1. up /\ io = "idle" /\ dirty = FALSE
      BY <2>3 DEF Idle, PrefsInv, FlagsOK
    <3>2. settings = before
      BY <2>2, <3>1 DEF FileInv
    <3> QED
      BY <2>1, <2>2, <3>1, <3>2 DEF FileInv, Read
  <2> QED
    BY <2>1, <2>2, <2>3 DEF FileInv, FileIsLastSave
<1> QED
  BY <1>1, PrefsInvariant, PTL

(* The frontends' dialogs and menus: with none open, the machine and the    *)
(* display run with what is saved, whichever frontend made the change.      *)
THEOREM Applied == PrefsSpec => []RestartApplies
<1>1. PrefsInv => RestartApplies
  BY DEF PrefsInv, RestartApplies, Idle, Due, AppliedInv, GoneInv, FlagsOK,
    GetStr, Of
<1> QED
  BY <1>1, PrefsInvariant, PTL

(* The frontends' address fields: with FujiNet external, start() can use    *)
(* the address saved.  One frontend is used throughout: another may switch  *)
(* on an address KDE or Windows saved with the switch off.                  *)
THEOREM AddressParses == PrefsSpec => [](Hops = FALSE => ExternalAddressParses)
<1>1. PrefsInv => (Hops = FALSE => ExternalAddressParses)
  <2> SUFFICES ASSUME PrefsInv, Hops = FALSE, Idle, ~torn,
                      GetStr("fujinet_external", 0) = 1
               PROVE  Parses(SavedAddress)
    BY DEF ExternalAddressParses
  <2>1. Sound(settings)
    BY DEF PrefsInv, SoundInv, Idle, Due, FlagsOK
  <2> QED
    BY <2>1 DEF Sound, Of, GetStr, SavedAddress
<1> QED
  BY <1>1, PrefsInvariant, PTL
=============================================================================
