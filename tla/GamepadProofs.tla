---------------------------- MODULE GamepadProofs ----------------------------
(***************************************************************************)
(* Proofs about Gamepad, for any number of pads, positions and starts.     *)
(* PadInv says what the machine has of the last reading while a part of it *)
(* has still to be pushed; ListInv what the list of open pads may be.      *)
(***************************************************************************)
EXTENDS Gamepad, SequenceTheorems, FiniteSetTheorems, TLAPS

Todo == {pushing[i] : i \in 1..Len(pushing)}

ValuesOK ==
  /\ ui \in {"down", "starting", "up", "stopping"}
  /\ emu \in {"none", "loading", "loop", "cleared", "gone"}
  /\ thread \in {"none", "poll", "read", "push"}
  /\ buttons \subseteq Buttons /\ last \in Reading
  /\ pushing \in Seq(Buttons \cup {Paddles})

FlagsOK == running \in BOOLEAN /\ have_last \in BOOLEAN /\ clean \in BOOLEAN

(* The polling thread and the machine live as the session's calls order.    *)
OrderInv ==
  /\ thread # "none" => ui \in {"up", "stopping"}
  /\ ui \in {"up", "stopping"} => emu \in {"loop", "cleared", "gone"}
  /\ emu \in {"loading", "loop", "cleared"} => running
  /\ emu \in {"loading", "loop", "cleared"} => ui # "down"
  /\ pushing # <<>> <=> thread = "push"
  /\ thread = "push" => have_last \/ ~clean

(* Before the first reading of a session that began with nothing held,      *)
(* nothing is.                                                              *)
FreshInv ==
  clean /\ emu \in {"loading", "loop"} /\ (thread = "none" \/ ~have_last)
    => buttons = {}

(* The machine has the last reading, but for what is still to be pushed.    *)
DrivenInv ==
  emu = "loop" /\ thread # "none" /\ have_last =>
    /\ Paddles \in Todo \/ axes = last.stick
    /\ \A b \in Buttons \ Todo :
         /\ b \in last.held => b \in buttons
         /\ clean /\ b \in buttons => b \in last.held

PadInv == ValuesOK /\ FlagsOK /\ OrderInv /\ FreshInv /\ DrivenInv

USE DEF Buttons, Paddles, sessionVars, inputVars, worldVars, padVars

-----------------------------------------------------------------------------
(* What is still to be pushed. *)

(* Nothing, if there is nothing.                                            *)
LEMMA NothingTodo == pushing = <<>> => Todo = {}
BY DEF Todo

LEMMA NothingTodoNext == pushing' = <<>> => Todo' = {}
BY DEF Todo

(* Untouched, it stays.                                                     *)
LEMMA TodoKept == UNCHANGED pushing => UNCHANGED Todo
BY DEF Todo

(* A push takes its head off.                                               *)
LEMMA HeadPushed ==
  ASSUME ValuesOK, pushing # <<>>, pushing' = Tail(pushing)
  PROVE  /\ pushing' \in Seq(Buttons \cup {Paddles})
         /\ pushing' = <<>> <=> Len(pushing) = 1
         /\ Head(pushing) \in Buttons \cup {Paddles}
         /\ Todo \subseteq Todo' \cup {Head(pushing)}
<1>1. /\ pushing \in Seq(Buttons \cup {Paddles}) /\ Len(pushing) \in Nat \ {0}
      /\ Head(pushing) = pushing[1]
      /\ pushing' \in Seq(Buttons \cup {Paddles})
      /\ Len(pushing') = Len(pushing) - 1
      /\ \A i \in 1..Len(pushing') : pushing'[i] = pushing[i + 1]
  BY DEF ValuesOK
<1>2. pushing' = <<>> <=> Len(pushing) = 1
  <2> DEFINE S == Buttons \cup {Paddles}
  <2>1. pushing' \in Seq(S) /\ Len(pushing') = Len(pushing) - 1
    BY <1>1
  <2>2. Len(<<>>) = 0 /\ (pushing' # <<>> => Len(pushing') # 0)
    <3> HIDE DEF S
    <3> QED
      BY <2>1, EmptySeq
  <2>3. Len(pushing) = 1 => pushing' = <<>>
    BY <1>1, <2>1, <2>2
  <2>4. pushing' = <<>> => Len(pushing) = 1
    <3>1. pushing' = <<>> => Len(pushing') = 0
      BY <2>2, Zenon
    <3> QED
      BY <1>1, <2>1, <3>1
  <2> QED
    BY <2>3, <2>4
<1>3. Head(pushing) \in Buttons \cup {Paddles}
  <2>1. 1 \in 1..Len(pushing)
    BY <1>1
  <2> QED
    BY <1>1, <2>1
<1>4. ASSUME NEW i \in 1..Len(pushing), i # 1
      PROVE  pushing[i] \in Todo'
  <2>1. i - 1 \in 1..Len(pushing') /\ (i - 1) + 1 = i
    BY <1>1, <1>4
  <2>2. pushing'[i - 1] = pushing[i]
    BY <1>1, <2>1
  <2> QED
    BY <2>1, <2>2 DEF Todo
<1> QED
  BY <1>1, <1>2, <1>3, <1>4 DEF Todo

(* A reading is pushed as the paddles and the buttons that changed.         *)
LEMMA ReadingTodo ==
  ASSUME NEW a \in BOOLEAN, NEW b \in BOOLEAN,
         pushing' = <<Paddles>> \o (IF a THEN << 0 >> ELSE <<>>)
                                \o (IF b THEN << 1 >> ELSE <<>>)
  PROVE  /\ pushing' \in Seq(Buttons \cup {Paddles}) /\ pushing' # <<>>
         /\ Paddles \in Todo' /\ (a => 0 \in Todo') /\ (b => 1 \in Todo')
<1> DEFINE S  == Buttons \cup {Paddles}
           xs == IF a THEN <<0>> ELSE <<>>
           ys == IF b THEN <<1>> ELSE <<>>
           zs == <<Paddles>> \o xs
<1>1. /\ <<Paddles>> \in Seq(S) /\ Len(<<Paddles>>) = 1 /\ <<Paddles>>[1] = Paddles
      /\ xs \in Seq(S) /\ (a => Len(xs) = 1 /\ xs[1] = 0)
      /\ ys \in Seq(S) /\ (b => Len(ys) = 1 /\ ys[1] = 1)
  <2>1. /\ <<Paddles>> \in Seq(S) /\ <<0>> \in Seq(S) /\ <<1>> \in Seq(S)
        /\ <<>> \in Seq(S)
    OBVIOUS
  <2>2. xs \in Seq(S) /\ ys \in Seq(S)
    BY <2>1
  <2>3. a => xs = <<0>>
    OBVIOUS
  <2>4. b => ys = <<1>>
    OBVIOUS
  <2> QED
    BY <2>1, <2>2, <2>3, <2>4
<1>2. /\ zs \in Seq(S) /\ Len(zs) = 1 + Len(xs)
      /\ zs[1] = Paddles /\ (a => zs[2] = 0)
  BY <1>1, ConcatProperties
<1>3. /\ zs \o ys \in Seq(S) /\ Len(zs \o ys) = Len(zs) + Len(ys)
      /\ \A i \in 1..Len(zs) : (zs \o ys)[i] = zs[i]
      /\ b => (zs \o ys)[Len(zs) + 1] = 1
  <2> HIDE DEF S, zs, ys
  <2> QED
    BY <1>1, <1>2, ConcatProperties
<1>4. Len(xs) \in Nat /\ Len(ys) \in Nat
  BY <1>1
<1>5. pushing' = zs \o ys
  OBVIOUS
<1> HIDE DEF S, xs, ys, zs
<1>6. /\ 1 \in 1..Len(pushing') /\ (a => 2 \in 1..Len(pushing'))
      /\ b => Len(zs) + 1 \in 1..Len(pushing')
  BY <1>1, <1>2, <1>3, <1>4, <1>5
<1>7. /\ pushing'[1] = Paddles /\ (a => pushing'[2] = 0)
      /\ b => pushing'[Len(zs) + 1] = 1
  BY <1>1, <1>2, <1>3, <1>4, <1>5
<1> QED
  BY <1>3, <1>5, <1>6, <1>7 DEF Todo, S

-----------------------------------------------------------------------------
(* Before the first start nothing is held and nothing was read.             *)
LEMMA InitInv == Init => PadInv
<1> SUFFICES ASSUME Init PROVE PadInv
  OBVIOUS
<1> USE DEF Init
<1>1. ValuesOK
  BY GamepadAssumption DEF ValuesOK, Idle, Reading
<1>2. FlagsOK
  BY DEF FlagsOK
<1> QED
  BY <1>1, <1>2 DEF PadInv, OrderInv, FreshInv, DrivenInv

-----------------------------------------------------------------------------
(* A poll keeps the invariant: what changed is to be pushed, what did not   *)
(* the machine has.                                                         *)
LEMMA PollInv == PadInv /\ Poll => PadInv'
<1> SUFFICES ASSUME PadInv, Poll PROVE PadInv'
  OBVIOUS
<1>1. thread = "read" /\ pushing = <<>> /\ Todo = {}
  BY NothingTodo DEF PadInv, ValuesOK, OrderInv, Poll
<1>2. CASE UNCHANGED <<last, have_last, pushing>> /\ thread' = "poll"
  BY <1>1, <1>2, NothingTodoNext
     DEF Poll, PadInv, ValuesOK, FlagsOK, OrderInv, FreshInv, DrivenInv
<1>3. CASE pads # <<>> /\ ~UNCHANGED <<last, have_last, pushing>>
  <2>1. PICK r \in Readings(pads[Position(explicit)]) :
          /\ thread' = "push" /\ last' = r /\ have_last' = TRUE
          /\ pushing' = <<Paddles>>
               \o (IF (0 \in r.held) # Was(0) THEN <<0>> ELSE <<>>)
               \o (IF (1 \in r.held) # Was(1) THEN <<1>> ELSE <<>>)
    BY <1>3 DEF Poll
  <2>2. r \in Reading
    BY <2>1, GamepadAssumption DEF Readings, Reading, Idle
  <2>3. /\ pushing' \in Seq(Buttons \cup {Paddles}) /\ pushing' # <<>>
        /\ Paddles \in Todo'
        /\ \A b \in Buttons : (b \in r.held) # Was(b) => b \in Todo'
    <3> DEFINE x == (0 \in r.held) # Was(0)
               y == (1 \in r.held) # Was(1)
    <3>1. x \in BOOLEAN /\ y \in BOOLEAN
      OBVIOUS
    <3>2. pushing' = <<Paddles>> \o (IF x THEN <<0>> ELSE <<>>)
                                \o (IF y THEN <<1>> ELSE <<>>)
      BY <2>1
    <3> HIDE DEF x, y
    <3>3. /\ pushing' \in Seq(Buttons \cup {Paddles}) /\ pushing' # <<>>
          /\ Paddles \in Todo' /\ (x => 0 \in Todo') /\ (y => 1 \in Todo')
      BY <3>1, <3>2, ReadingTodo
    <3> QED
      BY <3>3 DEF x, y
  <2>4. /\ UNCHANGED <<sessionVars, inputVars, clean>>
    BY DEF Poll
  <2>5. emu = "loop" => \A b \in Buttons \ Todo' :
          /\ b \in r.held => b \in buttons
          /\ clean /\ b \in buttons => b \in r.held
    BY <1>1, <2>3 DEF Was, PadInv, FreshInv, DrivenInv
  <2>6. ValuesOK' /\ FlagsOK'
    BY <2>1, <2>2, <2>3, <2>4 DEF PadInv, ValuesOK, FlagsOK
  <2> QED
    BY <1>1, <2>1, <2>3, <2>4, <2>5, <2>6
       DEF PadInv, OrderInv, FreshInv, DrivenInv
<1> QED
  BY <1>2, <1>3 DEF Poll

(* A push keeps it: a button pushed is what the reading has.                *)
LEMMA PushInv == PadInv /\ Push(last) => PadInv'
<1> SUFFICES ASSUME PadInv, Push(last) PROVE PadInv'
  OBVIOUS
<1>1. thread = "push" /\ pushing # <<>> /\ pushing' = Tail(pushing)
  BY DEF Push, PadInv, OrderInv
<1>2. /\ pushing' \in Seq(Buttons \cup {Paddles})
      /\ pushing' = <<>> <=> Len(pushing) = 1
      /\ Head(pushing) \in Buttons \cup {Paddles}
      /\ Todo \subseteq Todo' \cup {Head(pushing)}
  BY <1>1, HeadPushed DEF PadInv
<1>3. /\ UNCHANGED <<sessionVars, last, have_last, clean>>
      /\ thread' = IF Len(pushing) = 1 THEN "poll" ELSE "push"
  BY DEF Push
<1>4. buttons' \subseteq Buttons
  BY <1>2 DEF Push, PadInv, ValuesOK
<1>5. ValuesOK' /\ FlagsOK'
  BY <1>2, <1>3, <1>4 DEF PadInv, ValuesOK, FlagsOK
<1>6. OrderInv'
  BY <1>1, <1>2, <1>3 DEF PadInv, OrderInv
<1>7. FreshInv'
  BY <1>1, <1>3 DEF PadInv, OrderInv, FreshInv
<1>8. DrivenInv'
  <2> SUFFICES ASSUME emu = "loop", have_last PROVE DrivenInv'
    BY <1>3 DEF DrivenInv
  <2>1. running
    BY DEF PadInv, OrderInv
  <2>2. CASE Head(pushing) = Paddles
    BY <1>1, <1>2, <1>3, <2>1, <2>2 DEF Push, PadInv, DrivenInv
  <2>3. CASE Head(pushing) \in Buttons
    BY <1>1, <1>2, <1>3, <2>1, <2>3 DEF Push, PadInv, DrivenInv
  <2> QED
    BY <1>2, <2>2, <2>3
<1> QED
  BY <1>5, <1>6, <1>7, <1>8 DEF PadInv

(* Every step keeps it.                                                     *)
LEMMA StepInv == PadInv /\ [Next]_vars => PadInv'
<1> SUFFICES ASSUME PadInv, [Next]_vars PROVE PadInv'
  OBVIOUS
<1> USE DEF PadInv, ValuesOK, FlagsOK, OrderInv, FreshInv, DrivenInv
<1>1. CASE Start
  BY <1>1, TodoKept DEF Start
<1>2. CASE CoreUp
  BY <1>2, TodoKept DEF CoreUp
<1>3. CASE PadsStart
  <2>1. CASE thread' = "poll"
    <3>1. /\ have_last' = FALSE /\ last' = Idle /\ pushing' = <<>>
          /\ ui = "starting" /\ emu = "loop" /\ ui' = "up" /\ thread = "none"
          /\ UNCHANGED <<emu, running, inputVars, clean>>
      BY <1>3, <2>1 DEF PadsStart
    <3>2. Idle \in Reading
      BY GamepadAssumption DEF Idle, Reading
    <3> QED
      BY <2>1, <3>1, <3>2, NothingTodoNext
  <2>2. CASE UNCHANGED padVars
    BY <1>3, <2>2, TodoKept DEF PadsStart
  <2> QED
    BY <1>3, <2>1, <2>2 DEF PadsStart
<1>4. CASE Stop
  BY <1>4, TodoKept DEF Stop
<1>5. CASE CoreStop
  BY <1>5, TodoKept DEF CoreStop
<1>6. CASE EmuEnds
  BY <1>6, TodoKept DEF EmuEnds
<1>7. CASE PadsStop
  BY <1>7, TodoKept DEF PadsStop
<1>8. CASE Sync \/ NoSync
  <2>1. /\ thread = "poll" /\ thread' = "read"
        /\ UNCHANGED <<sessionVars, inputVars, last, have_last, pushing, clean>>
    BY <1>8 DEF Sync, NoSync
  <2> QED
    BY <2>1, TodoKept
<1>9. CASE Poll
  BY <1>9, PollInv
<1>10. CASE Push(last)
  BY <1>10, PushInv
<1>11. ASSUME NEW i \in 0..MaxPads, Assign(i) PROVE PadInv'
  BY <1>11, TodoKept DEF Assign
<1>12. CASE Plug
  BY <1>12, TodoKept DEF Plug
<1>13. ASSUME NEW p \in Ids, Unplug(p) PROVE PadInv'
  BY <1>13, TodoKept DEF Unplug
<1>14. CASE UNCHANGED vars
  BY <1>14, TodoKept DEF vars
<1> QED
  BY <1>1, <1>2, <1>3, <1>4, <1>5, <1>6, <1>7, <1>8, <1>9, <1>10, <1>11, <1>12,
     <1>13, <1>14
  DEF Next, Session, Thread, User

-----------------------------------------------------------------------------
(* The list of open pads. *)

NoTwice(s) == \A i, j \in 1..Len(s) : s[i] = s[j] => i = j

ListInv ==
  /\ given \in 0..MaxIds /\ plugged \subseteq 1..given
  /\ pads \in Seq(Ids) /\ Len(pads) <= MaxPads /\ NoTwice(pads)
  /\ assigned \subseteq Ids /\ explicit \in 0..MaxPads
  /\ axes \in Positions /\ Len(pushing) <= 3

(* A finite set of numbers in order is a list of its members, each once.    *)
LEMMA InOrderIs ==
  ASSUME NEW S \in SUBSET Nat, IsFiniteSet(S)
  PROVE  /\ InOrder(S) \in Seq(S) /\ Len(InOrder(S)) = Cardinality(S)
         /\ NoTwice(InOrder(S))
<1> DEFINE c == Cardinality(S)
           UpTo(n) == {m \in S : m <= n}
           rank == [n \in S |-> Cardinality(UpTo(n))]
<1>1. c \in Nat
  BY FS_CardinalityType
<1>2. ASSUME NEW n \in S PROVE rank[n] \in 1..c /\ IsFiniteSet(UpTo(n))
  <2>1. UpTo(n) \in SUBSET S /\ n \in UpTo(n)
    OBVIOUS
  <2>2. IsFiniteSet(UpTo(n)) /\ Cardinality(UpTo(n)) <= c
    BY <2>1, FS_Subset
  <2>3. Cardinality(UpTo(n)) \in Nat /\ Cardinality(UpTo(n)) # 0
    BY <2>1, <2>2, FS_CardinalityType, FS_EmptySet
  <2> QED
    BY <1>1, <2>2, <2>3
<1>3. ASSUME NEW n \in S, NEW q \in S, n < q PROVE rank[n] # rank[q]
  <2>1. UpTo(n) \in SUBSET UpTo(q) /\ q \in UpTo(q) /\ q \notin UpTo(n)
    <3>1. \A m \in S : m \in Nat
      OBVIOUS
    <3>2. q <= q /\ ~(q <= n) /\ \A m \in S : m <= n => m <= q
      BY <1>3, <3>1
    <3> QED
      BY <3>2
  <2>2. IsFiniteSet(UpTo(q)) /\ UpTo(q) # UpTo(n)
    BY <1>2, <2>1
  <2>3. Cardinality(UpTo(q)) # Cardinality(UpTo(n))
    BY <2>1, <2>2, FS_Subset
  <2> QED
    BY <2>3
<1>4. rank \in Injection(S, 1..c)
  <2>1. rank \in [S -> 1..c]
    BY <1>2
  <2> HIDE DEF rank
  <2>2. \A n, q \in S : n < q \/ q < n \/ n = q
    OBVIOUS
  <2>3. \A n, q \in S : rank[n] = rank[q] => n = q
    BY <1>3, <2>2
  <2> QED
    BY <2>1, <2>3 DEF Injection, IsInjective
<1>5. rank \in Surjection(S, 1..c)
  BY <1>1, <1>4, FS_Interval, FS_Injection
<1>6. \A k \in 1..c : \E n \in S : Cardinality(UpTo(n)) = k
  BY <1>5 DEF Surjection
<1>7. \A k \in 1..c : /\ InOrder(S)[k] \in S
                      /\ Cardinality(UpTo(InOrder(S)[k])) = k
  BY <1>6 DEF InOrder
<1>8. InOrder(S) \in [1..c -> S]
  BY <1>7 DEF InOrder
<1>9. InOrder(S) \in Seq(S) /\ Len(InOrder(S)) = c
  BY <1>1, <1>8
<1>10. NoTwice(InOrder(S))
  <2> HIDE DEF c, UpTo
  <2> QED
    BY <1>7, <1>9 DEF NoTwice
<1> QED
  BY <1>9, <1>10

(* The pads kept are pads that were open, each once, ... *)
LEMMA KeptIs ==
  ASSUME ListInv
  PROVE  Kept \in Seq(Ids) /\ Len(Kept) <= MaxPads /\ NoTwice(Kept)
<1> DEFINE places == {i \in 1..Len(pads) : pads[i] \in plugged}
           at == InOrder(places)
<1>1. Len(pads) \in Nat /\ Len(pads) <= MaxPads /\ MaxPads \in Nat
  BY GamepadAssumption DEF ListInv
<1>2. /\ IsFiniteSet(places) /\ places \in SUBSET Nat
      /\ Cardinality(places) <= Len(pads)
  <2>1. /\ IsFiniteSet(1..Len(pads)) /\ Cardinality(1..Len(pads)) = Len(pads)
    <3>1. 1 \in Int /\ Len(pads) \in Int
      BY <1>1
    <3>2. /\ IsFiniteSet(1..Len(pads))
          /\ Cardinality(1..Len(pads)) =
               IF 1 > Len(pads) THEN 0 ELSE Len(pads) - 1 + 1
      BY <3>1, FS_Interval
    <3> QED
      BY <1>1, <3>2
  <2>2. places \in SUBSET (1..Len(pads)) /\ 1..Len(pads) \subseteq Nat
    OBVIOUS
  <2> HIDE DEF places
  <2> QED
    BY <2>1, <2>2, FS_Subset
<1>3. at \in Seq(places) /\ Len(at) = Cardinality(places) /\ NoTwice(at)
  BY <1>2, InOrderIs
<1> HIDE DEF at
<1>4. \A k \in 1..Len(at) : at[k] \in 1..Len(pads)
  BY <1>3
<1>5. Kept = [k \in 1..Len(at) |-> pads[at[k]]]
  BY DEF Kept, at
<1>6. Len(at) \in Nat /\ Len(at) <= MaxPads
  BY <1>1, <1>2, <1>3
<1>7. Kept \in Seq(Ids) /\ Len(Kept) = Len(at)
  BY <1>4, <1>5, <1>6 DEF ListInv
<1>8. NoTwice(Kept)
  <2>1. \A i, j \in 1..Len(at) : pads[at[i]] = pads[at[j]] => at[i] = at[j]
    BY <1>4 DEF NoTwice, ListInv
  <2> SUFFICES ASSUME NEW i \in 1..Len(at), NEW j \in 1..Len(at),
                      Kept[i] = Kept[j]
               PROVE  i = j
    BY <1>7 DEF NoTwice
  <2>2. pads[at[i]] = pads[at[j]]
    BY <1>5
  <2> QED
    BY <1>3, <2>1, <2>2 DEF NoTwice
<1> QED
  BY <1>6, <1>7, <1>8

(* ... those opened are others, each once, as far as there is room.         *)
LEMMA OpenedIs ==
  ASSUME ListInv, NEW ok \in SUBSET New
  PROVE  /\ Opened(ok) \in Seq(Ids \ KeptIds) /\ NoTwice(Opened(ok))
         /\ Len(Opened(ok)) <= MaxPads - Len(Kept)
<1> DEFINE those == InOrder(ok)
           room == MaxPads - Len(Kept)
           count == IF Len(those) <= room THEN Len(those) ELSE room
<1>1. room \in Nat
  BY KeptIs, GamepadAssumption DEF ListInv
<1>2. /\ IsFiniteSet(ok) /\ ok \in SUBSET Nat
      /\ ok \subseteq Ids \ KeptIds
  <2>1. 1..given \subseteq 1..MaxIds
    BY GamepadAssumption DEF ListInv
  <2>2. ok \in SUBSET (1..MaxIds) /\ ok \cap KeptIds = {}
    BY <2>1 DEF ListInv, New
  <2>3. IsFiniteSet(1..MaxIds) /\ 1..MaxIds \subseteq Nat
    BY FS_Interval, GamepadAssumption
  <2>4. IsFiniteSet(ok)
    BY <2>2, <2>3, FS_Subset
  <2> QED
    BY <2>2, <2>3, <2>4 DEF Ids
<1>3. those \in Seq(ok) /\ NoTwice(those)
  BY <1>2, InOrderIs
<1>4. count \in Nat /\ count <= Len(those) /\ count <= room
  BY <1>1, <1>3
<1>5. Opened(ok) = [k \in 1..count |-> those[k]]
  BY DEF Opened
<1> DEFINE opened == Opened(ok)
<1> HIDE DEF count, room, those, opened
<1>6. opened \in Seq(ok) /\ Len(opened) = count
  BY <1>3, <1>4, <1>5 DEF opened
<1>7. NoTwice(opened)
  BY <1>3, <1>4, <1>5, <1>6 DEF NoTwice, opened
<1>8. opened \in Seq(Ids \ KeptIds)
  <2>1. ok \subseteq Ids \ KeptIds
    BY <1>2
  <2>2. \A k \in 1..Len(opened) : opened[k] \in ok
    BY <1>6
  <2>3. Len(opened) \in Nat /\ opened = [k \in 1..Len(opened) |-> opened[k]]
    BY <1>6
  <2> QED
    BY <2>1, <2>2, <2>3
<1> QED
  BY <1>4, <1>6, <1>7, <1>8 DEF room, opened

(* Together they are a list that fits, with no pad in it twice.             *)
LEMMA SyncedIs ==
  ASSUME ListInv, NEW ok \in SUBSET New
  PROVE  /\ Kept \o Opened(ok) \in Seq(Ids) /\ Len(Kept \o Opened(ok)) <= MaxPads
         /\ NoTwice(Kept \o Opened(ok))
<1> DEFINE opened == Opened(ok)
<1> HIDE DEF opened
<1>1. /\ Kept \in Seq(Ids) /\ opened \in Seq(Ids)
      /\ Len(Kept) \in Nat /\ Len(opened) \in Nat
      /\ Len(Kept) + Len(opened) <= MaxPads
  BY KeptIs, OpenedIs, GamepadAssumption DEF opened
<1>2. \A i \in 1..Len(Kept), j \in 1..Len(opened) : Kept[i] # opened[j]
  <2>1. opened \in Seq(Ids \ KeptIds)
    BY OpenedIs DEF opened
  <2> QED
    BY <1>1, <2>1 DEF KeptIds
<1> DEFINE s == Kept \o opened
<1>3. /\ s \in Seq(Ids) /\ Len(s) = Len(Kept) + Len(opened)
      /\ \A i \in 1..Len(s) :
           s[i] = IF i <= Len(Kept) THEN Kept[i] ELSE opened[i - Len(Kept)]
  BY <1>1
<1> HIDE DEF s
<1>4. NoTwice(s)
  <2> SUFFICES ASSUME NEW i \in 1..Len(s), NEW j \in 1..Len(s), s[i] = s[j]
               PROVE  i = j
    BY DEF NoTwice
  <2>1. CASE i <= Len(Kept) /\ j <= Len(Kept)
    BY <1>1, <1>3, <2>1, KeptIs DEF NoTwice
  <2>2. CASE i > Len(Kept) /\ j > Len(Kept)
    <3>1. i - Len(Kept) \in 1..Len(opened) /\ j - Len(Kept) \in 1..Len(opened)
      BY <1>1, <1>3, <2>2
    <3>2. opened[i - Len(Kept)] = opened[j - Len(Kept)]
      BY <1>1, <1>3, <2>2
    <3>3. i - Len(Kept) = j - Len(Kept)
      BY <3>1, <3>2, OpenedIs DEF NoTwice, opened
    <3> QED
      BY <1>1, <1>3, <3>3
  <2>3. CASE i <= Len(Kept) /\ j > Len(Kept)
    BY <1>1, <1>2, <1>3, <2>3
  <2>4. CASE i > Len(Kept) /\ j <= Len(Kept)
    BY <1>1, <1>2, <1>3, <2>4
  <2> QED
    BY <1>1, <1>3, <2>1, <2>2, <2>3, <2>4
<1> QED
  BY <1>1, <1>3, <1>4 DEF s, opened

(* A list that names no pad twice has as many pads as places. *)
LEMMA CountPads ==
  ASSUME NEW s \in Seq(Ids), NoTwice(s)
  PROVE  Cardinality({s[i] : i \in 1..Len(s)}) = Len(s)
<1> DEFINE T == {s[i] : i \in 1..Len(s)}
           f == [i \in 1..Len(s) |-> s[i]]
<1>1. f \in Bijection(1..Len(s), T)
  BY DEF NoTwice, Bijection, Injection, IsInjective, Surjection
<1> HIDE DEF f, T
<1>2. Len(s) \in Nat /\ ExistsBijection(1..Len(s), T)
  BY <1>1 DEF ExistsBijection
<1>3. Cardinality(T) = Len(s)
  BY <1>2, FS_CountingElements
<1> QED
  BY <1>3 DEF T

(* Having no pads is such a list. *)
LEMMA NoPads ==
  << >> \in Seq(Ids) /\ Len(<< >>) = 0 /\ NoTwice(<< >>)
BY DEF NoTwice

(* Before the first start no pad is known. *)
LEMMA ListInitInv == Init => ListInv
BY NoPads, GamepadAssumption DEF Init, ListInv, Automatic

(* Pads that come and go, selections and readings keep the list in order.   *)
LEMMA ListStepInv == PadInv /\ ListInv /\ [Next]_vars => ListInv'
<1> SUFFICES ASSUME PadInv, ListInv, [Next]_vars PROVE ListInv'
  OBVIOUS
<1> USE GamepadAssumption DEF ListInv
<1>1. CASE Start \/ CoreUp \/ Stop \/ EmuEnds \/ PadsStop \/ NoSync
  BY <1>1 DEF Start, CoreUp, Stop, EmuEnds, PadsStop, NoSync
<1>2. CASE CoreStop
  BY <1>2 DEF CoreStop
<1>3. CASE PadsStart
  <2>1. CASE /\ pads' = <<>> /\ assigned' = {} /\ explicit' = Automatic
             /\ pushing' = <<>>
    BY <1>3, <2>1, NoPads DEF PadsStart, Automatic
  <2>2. CASE UNCHANGED padVars
    BY <1>3, <2>2 DEF PadsStart
  <2> QED
    BY <1>3, <2>1, <2>2 DEF PadsStart
<1>4. CASE Sync
  BY <1>4, SyncedIs DEF Sync
<1>5. CASE Poll
  <2>1. Len(pushing') <= 3
    BY <1>5 DEF Poll
  <2> QED
    BY <1>5, <2>1 DEF Poll
<1>6. CASE Push(last)
  <2>1. pushing # <<>> /\ pushing \in Seq(Buttons \cup {Paddles})
    BY <1>6 DEF Push, PadInv, OrderInv, ValuesOK
  <2>2. Len(pushing') <= 3
    BY <1>6, <2>1 DEF Push
  <2>3. last.stick \in Positions
    BY DEF PadInv, ValuesOK, Reading
  <2> QED
    BY <1>6, <2>2, <2>3 DEF Push
<1>7. ASSUME NEW i \in 0..MaxPads, Assign(i) PROVE ListInv'
  BY <1>7 DEF Assign, Automatic
<1>8. CASE Plug
  BY <1>8 DEF Plug
<1>9. ASSUME NEW p \in Ids, Unplug(p) PROVE ListInv'
  BY <1>9 DEF Unplug
<1>10. CASE UNCHANGED vars
  BY <1>10 DEF vars
<1> QED
  BY <1>1, <1>2, <1>3, <1>4, <1>5, <1>6, <1>7, <1>8, <1>9, <1>10
  DEF Next, Session, Thread, User

-----------------------------------------------------------------------------
(* The polling thread and the machine agree on the last reading, but for    *)
(* what is still to be pushed, in every reachable state.                    *)
THEOREM PadInvariant == Spec => []PadInv
  BY InitInv, StepInv, PTL DEF Spec

(* Between pushes the machine has the paddles and the buttons of the last   *)
(* reading, through plugging, selecting and restarts.                       *)
THEOREM Drives == Spec => []PadDrives
<1>1. PadInv => PadDrives
  BY NothingTodo DEF PadInv, ValuesOK, OrderInv, DrivenInv, PadDrives, Reading
<1> QED
  BY <1>1, PadInvariant, PTL

(* The pads open fit the table and none is open twice, however they come    *)
(* and go; every variable keeps its type.                                   *)
THEOREM TypeCorrect == Spec => []TypeOK
<1>1. Spec => []ListInv
  BY PadInvariant, ListInitInv, ListStepInv, PTL DEF Spec
<1>2. PadInv /\ ListInv => TypeOK
  BY CountPads DEF PadInv, ValuesOK, FlagsOK, ListInv, TypeOK
<1> QED
  BY <1>1, <1>2, PadInvariant, PTL
=============================================================================
