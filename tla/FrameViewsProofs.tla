-------------------------- MODULE FrameViewsProofs --------------------------
(***************************************************************************)
(* Proofs about FrameViews, for any buffers, pool, pictures, starts and    *)
(* losses.  ViewsInv has three parts: what every variable may be, whom the *)
(* emulator thread may call, and what the GNOME pool's references count.   *)
(***************************************************************************)
EXTENDS FrameViews, FiniteSetTheorems, TLAPS

-----------------------------------------------------------------------------
(* The inductive invariant. *)

StoreOK ==
  /\ session \in {"down", "starting", "up", "freed"}
  /\ stored \in Pictures /\ produced \in Pictures
  /\ serial \in Nat /\ serial <= produced
  /\ emu \in {"run", "notify", "calling"} /\ callback \in Views \cup {NoView}

ValuesOK ==
  /\ frontend \in {"gnome", "kde", "win", "mac"}
  /\ central \in Views /\ gui \in Views \cup {NoView}
  /\ state \in [Views -> {"none", "made", "hidden", "gone"}]
  /\ posted \in [Views -> 0..MaxPosted]
  /\ held \in [Views -> [serial : 0..MaxPictures, picture : Pictures]]
  /\ texture \in [Views -> Pictures] /\ glass \in Pictures

FlagsOK ==
  /\ visible \in BOOLEAN
  /\ active \in [Views -> BOOLEAN] /\ pending \in [Views -> BOOLEAN]
  /\ dirty \in [Views -> BOOLEAN] /\ paint \in [Views -> BOOLEAN]

(* A KDE view has one delivery queued at most, and then it is pending.      *)
QueueInv ==
  frontend = "kde" =>
    \A v \in Views : posted[v] <= 1 /\ (~pending[v] => posted[v] = 0)

(* Only the central view is active.  KDE's is, while it is called, a widget *)
(* that is shown, and the only other there may be is still to be deleted.   *)
CallInv ==
  /\ \A v \in Views : active[v] => v = central
  /\ IF frontend = "kde"
       THEN /\ \A v \in Views : active[v] <=> callback = v
            /\ \A v \in Views : active[v] => visible
            /\ session # "freed" => state[central] = "made"
       ELSE callback = NoView
  /\ emu = "calling" => callback # NoView
  /\ session = "freed" => emu = "run" /\ \A v \in Views : ~active[v]
  /\ frontend \in {"gnome", "mac"} => central = One
  /\ frontend = "gnome" /\ state[One] = "gone" => ~active[One]
  /\ frontend = "mac" => session # "freed"

(* The pool is referred to by the widget and by each buffer lent.           *)
Pools == [spare : SUBSET Buffers, lent : SUBSET Buffers, refs : Nat,
          shown : Buffers \cup {NoBuffer}]

PoolInv ==
  /\ pool \in Pools
  /\ pool.spare \cap pool.lent = {}
  /\ IsFiniteSet(pool.lent)
  /\ frontend = "gnome" =>
       pool.refs = Cardinality(pool.lent) + (IF state[One] = "gone" THEN 0 ELSE 1)
  /\ frontend # "gnome" => pool.lent = {}

ViewsInv ==
  StoreOK /\ ValuesOK /\ FlagsOK /\ QueueInv /\ CallInv /\ PoolInv

USE DEF storeVars, viewVars, storeButCallback, Set, Pictures

-----------------------------------------------------------------------------
(* The buffers of the pool. *)

(* What each of the pool's functions does to its four parts.                *)
LEMMA TakenParts ==
  ASSUME NEW p \in Pools, NEW b \in Buffers, p = pool
  PROVE  LET q == Taken(b) IN
         /\ q \in Pools /\ q.spare = p.spare \ {b} /\ q.lent = p.lent
         /\ q.refs = p.refs /\ q.shown = p.shown
BY DEF Pools, Taken

LEMMA GivenParts ==
  ASSUME NEW p \in Pools, NEW b \in Buffers
  PROVE  LET q == Given(p, b) IN
         /\ q \in Pools /\ q.spare \subseteq p.spare \cup {b} /\ q.lent = p.lent
         /\ q.refs = p.refs /\ q.shown = p.shown
<1>1. CASE Given(p, b) = p
  BY <1>1 DEF Pools
<1>2. CASE Given(p, b) = [p EXCEPT !.spare = @ \cup {b}]
  BY <1>2 DEF Pools
<1> QED
  BY <1>1, <1>2 DEF Given

LEMMA UnrefParts ==
  ASSUME NEW p \in Pools, p.refs >= 1
  PROVE  LET q == Unref(p) IN
         /\ q \in Pools /\ q.spare \subseteq p.spare /\ q.lent = p.lent
         /\ q.refs = p.refs - 1 /\ q.shown = p.shown
<1>1. CASE p.refs = 1
  <2>1. Unref(p) = [p EXCEPT !.refs = 0, !.spare = {}]
    BY <1>1 DEF Unref
  <2>2. /\ Unref(p) = [spare |-> {}, lent |-> p.lent, refs |-> 0,
                       shown |-> p.shown]
        /\ p.lent \subseteq Buffers /\ p.shown \in Buffers \cup {NoBuffer}
    BY <2>1 DEF Pools
  <2> QED
    BY <1>1, <2>2 DEF Pools
<1>2. CASE p.refs # 1
  <2>1. Unref(p) = [p EXCEPT !.refs = @ - 1]
    BY <1>2 DEF Unref
  <2>2. p.refs - 1 \in Nat
    BY <1>2 DEF Pools
  <2> QED
    BY <1>2, <2>1, <2>2 DEF Pools
<1> QED
  BY <1>1, <1>2

(* A pool that is let alone stays as it is.                                 *)
LEMMA PoolKept ==
  ASSUME PoolInv, UNCHANGED <<pool, frontend>>,
         frontend = "gnome" => (state'[One] = "gone" <=> state[One] = "gone")
  PROVE  PoolInv'
BY DEF PoolInv

(* A buffer taken is borrowed by no texture, ...                            *)
LEMMA TakeableIsFree ==
  ASSUME PoolInv, NEW b \in Takeable
  PROVE  b \in Buffers \ pool.lent
BY DEF PoolInv, Pools, Takeable

(* ... lent, it adds a reference, ...                                       *)
LEMMA LentCounts ==
  ASSUME PoolInv, NEW b \in Buffers \ pool.lent, pool' = Lent(b),
         UNCHANGED <<frontend, state>>, frontend = "gnome"
  PROVE  PoolInv'
<1>1. /\ pool'.spare = pool.spare \ {b} /\ pool'.lent = pool.lent \cup {b}
      /\ pool'.refs = pool.refs + 1 /\ pool'.shown = b
      /\ pool' \in Pools
  <2> DEFINE q == Taken(b)
  <2>1. /\ q \in Pools /\ q.spare = pool.spare \ {b} /\ q.lent = pool.lent
        /\ q.refs = pool.refs
    BY TakenParts DEF PoolInv
  <2>2. pool' = [q EXCEPT !.lent = @ \cup {b}, !.refs = @ + 1, !.shown = b]
    BY DEF Lent
  <2> HIDE DEF q
  <2>3. pool' = [spare |-> q.spare, lent |-> q.lent \cup {b},
                 refs |-> q.refs + 1, shown |-> b]
    BY <2>1, <2>2 DEF Pools
  <2>4. q.spare \subseteq Buffers /\ q.lent \subseteq Buffers /\ q.refs \in Nat
    BY <2>1 DEF Pools
  <2> QED
    BY <2>1, <2>3, <2>4 DEF Pools
<1>2. /\ IsFiniteSet(pool.lent \cup {b})
      /\ Cardinality(pool.lent \cup {b}) = Cardinality(pool.lent) + 1
      /\ Cardinality(pool.lent) \in Nat
  BY FS_AddElement, FS_CardinalityType DEF PoolInv
<1> QED
  BY <1>1, <1>2 DEF PoolInv

(* ... not lent, it is given back or freed.                                 *)
LEMMA GivenBack ==
  ASSUME PoolInv, NEW b \in Buffers \ pool.lent, pool' = Given(Taken(b), b),
         UNCHANGED <<frontend, state>>
  PROVE  PoolInv'
<1>1. /\ pool'.spare \subseteq pool.spare \cup {b} /\ pool'.lent = pool.lent
      /\ pool'.refs = pool.refs
      /\ pool' \in Pools
  <2> DEFINE q == Taken(b)
  <2>1. /\ q \in Pools /\ q.spare = pool.spare \ {b} /\ q.lent = pool.lent
        /\ q.refs = pool.refs
    BY TakenParts DEF PoolInv
  <2> HIDE DEF q
  <2>2. pool' = Given(q, b)
    BY DEF q
  <2> QED
    BY <2>1, <2>2, GivenParts
<1> QED
  BY <1>1 DEF PoolInv

(* A texture that is dropped gives its buffer and its reference back.       *)
LEMMA DropCounts ==
  ASSUME PoolInv, NEW b \in pool.lent, frontend = "gnome",
         pool' = Unref([Given(pool, b) EXCEPT !.lent = @ \ {b}]),
         UNCHANGED <<frontend, state>>
  PROVE  PoolInv'
<1>1. /\ IsFiniteSet(pool.lent \ {b})
      /\ Cardinality(pool.lent \ {b}) = Cardinality(pool.lent) - 1
      /\ Cardinality(pool.lent) \in Nat /\ Cardinality(pool.lent \ {b}) \in Nat
  BY FS_RemoveElement, FS_CardinalityType DEF PoolInv
<1>2. pool.refs \in Nat /\ pool.refs >= 1
  BY <1>1 DEF PoolInv
<1>3. /\ pool'.spare \subseteq pool.spare \cup {b} /\ pool'.lent = pool.lent \ {b}
      /\ pool'.refs = pool.refs - 1
      /\ pool' \in Pools
  <2> DEFINE q == Given(pool, b)
             d == [q EXCEPT !.lent = @ \ {b}]
  <2>1. /\ q \in Pools /\ q.spare \subseteq pool.spare \cup {b}
        /\ q.lent = pool.lent /\ q.refs = pool.refs
    BY GivenParts DEF PoolInv, Pools
  <2>2. /\ d \in Pools /\ d.spare = q.spare /\ d.lent = q.lent \ {b}
        /\ d.refs = q.refs
    <3> HIDE DEF q
    <3> QED
      BY <2>1 DEF Pools
  <2>3. pool' = Unref(d)
    OBVIOUS
  <2> HIDE DEF q, d
  <2>4. d.refs >= 1
    BY <1>2, <2>1, <2>2
  <2>5. /\ Unref(d) \in Pools /\ Unref(d).spare \subseteq d.spare
        /\ Unref(d).lent = d.lent /\ Unref(d).refs = d.refs - 1
    BY <2>2, <2>4, UnrefParts
  <2> QED
    BY <2>1, <2>2, <2>3, <2>5
<1>4. pool'.spare \cap pool'.lent = {}
  BY <1>3 DEF PoolInv
<1>5. pool'.refs = Cardinality(pool'.lent) + (IF state'[One] = "gone" THEN 0 ELSE 1)
  <2> DEFINE own == IF state[One] = "gone" THEN 0 ELSE 1
  <2>1. Cardinality(pool'.lent) = Cardinality(pool.lent) - 1
    BY <1>1, <1>3
  <2>2. own \in Int /\ own = IF state'[One] = "gone" THEN 0 ELSE 1
    OBVIOUS
  <2>3. pool.refs = Cardinality(pool.lent) + own
    BY DEF PoolInv
  <2> HIDE DEF own
  <2> QED
    BY <1>1, <1>3, <2>1, <2>2, <2>3
<1> QED
  BY <1>1, <1>3, <1>4, <1>5 DEF PoolInv

(* So does the widget with its own.                                         *)
LEMMA DisposeCounts ==
  ASSUME PoolInv, ValuesOK, frontend = "gnome", state[One] # "gone",
         state' = Set(state, One, "gone"), One \in Views,
         pool' = Unref([pool EXCEPT !.shown = NoBuffer]), UNCHANGED frontend
  PROVE  PoolInv'
<1>1. Cardinality(pool.lent) \in Nat
  BY FS_CardinalityType DEF PoolInv
<1>2. pool.refs \in Nat /\ pool.refs >= 1 /\ state'[One] = "gone"
  BY <1>1 DEF PoolInv, ValuesOK
<1>3. /\ pool'.spare \subseteq pool.spare /\ pool'.lent = pool.lent
      /\ pool'.refs = pool.refs - 1
      /\ pool' \in Pools
  <2> DEFINE d == [pool EXCEPT !.shown = NoBuffer]
  <2>1. /\ d \in Pools /\ d.spare = pool.spare /\ d.lent = pool.lent
        /\ d.refs = pool.refs
    BY DEF PoolInv, Pools
  <2>2. pool' = Unref(d)
    OBVIOUS
  <2> HIDE DEF d
  <2> QED
    BY <1>2, <2>1, <2>2, UnrefParts
<1> QED
  BY <1>1, <1>2, <1>3 DEF PoolInv

-----------------------------------------------------------------------------
(* Copying. *)

Frames == [serial : 0..MaxPictures, picture : Pictures]

(* A view's copy is a frame and its serial. *)
LEMMA CopyIsAFrame ==
  ASSUME StoreOK, ValuesOK, NEW v \in Views
  PROVE  Copied(v) \in Frames
BY StoreAssumption DEF StoreOK, ValuesOK, Copied, Frames

(* A pull leaves each view with one. *)
LEMMA PullKeepsFrames ==
  ASSUME StoreOK, ValuesOK, FlagsOK, NEW v \in Views, Pull(v)
  PROVE  /\ held' \in [Views -> Frames]
         /\ dirty' \in [Views -> BOOLEAN] /\ paint' \in [Views -> BOOLEAN]
<1>1. held' \in [Views -> Frames]
  BY CopyIsAFrame DEF Pull, ValuesOK, Frames
<1>2. dirty' \in [Views -> BOOLEAN] /\ paint' \in [Views -> BOOLEAN]
  BY DEF Pull, FlagsOK
<1> QED
  BY <1>1, <1>2

-----------------------------------------------------------------------------
(* Before the session is started no view is called and no buffer lent.      *)
LEMMA InitInv == Init => ViewsInv
<1> SUFFICES ASSUME Init PROVE ViewsInv
  OBVIOUS
<1> USE StoreAssumption, ViewsAssumption DEF Init, StoreInit, NoPicture
<1>1. StoreOK
  BY DEF StoreOK
<1>2. ValuesOK
  BY DEF ValuesOK
<1>3. FlagsOK
  BY DEF FlagsOK
<1>4. QueueInv /\ CallInv
  <2>1. \A v \in Views : active[v] => v = central /\ frontend \in {"win", "mac"}
    OBVIOUS
  <2>2. state[central] = "made"
    BY <1>2 DEF ValuesOK
  <2> QED
    BY <2>1, <2>2 DEF QueueInv, CallInv
<1>5. PoolInv
  <2>1. /\ pool \in Pools /\ pool.spare = {} /\ pool.lent = {} /\ pool.refs = 1
    BY DEF Pools
  <2>2. frontend = "gnome" => state[One] # "gone"
    OBVIOUS
  <2> QED
    BY <2>1, <2>2, FS_EmptySet DEF PoolInv
<1> QED
  BY <1>1, <1>2, <1>3, <1>4, <1>5 DEF ViewsInv

-----------------------------------------------------------------------------
(* The steps, by who takes them.  All but the steps of the GNOME view leave *)
(* the pool alone.                                                          *)

Rest == StoreOK /\ ValuesOK /\ FlagsOK /\ QueueInv /\ CallInv

(* The emulator thread and the session. *)
LEMMA StoreStep == ViewsInv /\ (Emulates \/ Restart) => Rest'
<1> SUFFICES ASSUME ViewsInv, (Emulates \/ Restart) PROVE Rest'
  OBVIOUS
<1> USE StoreAssumption, ViewsAssumption
        DEF Rest, StoreOK, ValuesOK, FlagsOK, QueueInv, CallInv, NoPicture,
            ViewsInv
<1>1. CASE Emulates
  BY <1>1 DEF Emulates, Store, Notify
<1>2. CASE Restart
  BY <1>2 DEF Restart, Stop, StartSerial, StartEmpty
<1> QED
  BY <1>1, <1>2 DEF Emulates

(* The KDE views. *)
LEMMA KdeStep == ViewsInv /\ (Kde \/ KdeEvent) => Rest'
<1> SUFFICES ASSUME ViewsInv, (Kde \/ KdeEvent) PROVE Rest'
  OBVIOUS
<1> USE StoreAssumption, ViewsAssumption
        DEF Rest, StoreOK, ValuesOK, FlagsOK, QueueInv, CallInv, NoPicture,
            ViewsInv
<1>1. CASE FeedCalled
  BY <1>1 DEF FeedCalled, CallReturns
<1>2. ASSUME NEW v \in Views, Deliver(v) PROVE Rest'
  BY <1>2 DEF Deliver, Idle
<1>3. ASSUME NEW v \in Views, DeliverLooks(v) PROVE Rest'
  <2>1. /\ held' \in [Views -> Frames]
        /\ dirty' \in [Views -> BOOLEAN] /\ paint' \in [Views -> BOOLEAN]
    BY <1>3, PullKeepsFrames DEF DeliverLooks, Frames
  <2> QED
    BY <1>3, <2>1 DEF DeliverLooks, Frames
<1>4. CASE KdeShows
  <2>1. /\ held' \in [Views -> Frames]
        /\ dirty' \in [Views -> BOOLEAN] /\ paint' \in [Views -> BOOLEAN]
    BY <1>4, PullKeepsFrames DEF KdeShows, FeedOn, Frames
  <2>2. CASE active[central]
    BY <1>4, <2>1, <2>2 DEF KdeShows, FeedOn, Frames
  <2>3. CASE ~active[central]
    <3>1. /\ active' = [active EXCEPT ![central] = TRUE]
          /\ callback' = central /\ visible' = TRUE
          /\ UNCHANGED <<storeButCallback, frontend, central, state, posted,
                         pending, gui, texture, glass>>
          /\ frontend = "kde" /\ session # "freed"
      BY <1>4, <2>3 DEF KdeShows, FeedOn, SetCallback, Idle
    <3>2. \A v \in Views : active'[v] <=> v = central
      BY <2>3, <3>1
    <3>3. StoreOK' /\ ValuesOK' /\ FlagsOK' /\ QueueInv'
      BY <2>1, <3>1 DEF Frames
    <3>4. CallInv'
      BY <3>1, <3>2
    <3> QED
      BY <3>3, <3>4
  <2> QED
    BY <2>2, <2>3
<1>5. CASE KdeHides
  BY <1>5 DEF KdeHides, FeedOff, SetCallback, CallbackSettable, Idle
<1>6. CASE KdeInitialize
  BY <1>6 DEF KdeInitialize
<1>7. CASE KdeRender
  BY <1>7 DEF KdeRender
<1>8. CASE UseSoftware
  BY <1>8 DEF UseSoftware, FeedOff, SetCallback, CallbackSettable, Idle
<1>9. ASSUME NEW v \in Views, KdeDeletes(v) PROVE Rest'
  BY <1>9 DEF KdeDeletes, FeedOff, SetCallback, CallbackSettable
<1>10. CASE KdeQuits
  BY <1>10 DEF KdeQuits, Free, Idle
<1> QED
  BY <1>1, <1>2, <1>3, <1>4, <1>5, <1>6, <1>7, <1>8, <1>9, <1>10 DEF Kde, KdeEvent

(* The GNOME view, but for its pool. *)
LEMMA GnomeStep == ViewsInv /\ (Gnome \/ GnomeEvent) => Rest'
<1> SUFFICES ASSUME ViewsInv, (Gnome \/ GnomeEvent) PROVE Rest'
  OBVIOUS
<1> USE StoreAssumption, ViewsAssumption
        DEF Rest, StoreOK, ValuesOK, FlagsOK, QueueInv, CallInv, NoPicture,
            ViewsInv
<1>1. CASE GnomeTick
  <2>1. /\ held' \in [Views -> Frames]
        /\ dirty' \in [Views -> BOOLEAN] /\ paint' \in [Views -> BOOLEAN]
    BY <1>1, PullKeepsFrames DEF GnomeTick, Frames
  <2> QED
    BY <1>1, <2>1 DEF GnomeTick, Frames
<1>2. CASE GnomeSnapshot
  BY <1>2 DEF GnomeSnapshot
<1>3. CASE GskDrops
  BY <1>3 DEF GskDrops
<1>4. CASE GnomeShows
  BY <1>4 DEF GnomeShows, Idle
<1>5. CASE GnomeDisposes
  BY <1>5 DEF GnomeDisposes, Idle
<1>6. CASE GnomeShutsDown
  BY <1>6 DEF GnomeShutsDown, Free, Idle
<1> QED
  BY <1>1, <1>2, <1>3, <1>4, <1>5, <1>6 DEF Gnome, GnomeEvent

(* The Windows loops. *)
LEMMA WinStep == ViewsInv /\ (Win \/ WinEvent) => Rest'
<1> SUFFICES ASSUME ViewsInv, (Win \/ WinEvent) PROVE Rest'
  OBVIOUS
<1> USE StoreAssumption, ViewsAssumption
        DEF Rest, StoreOK, ValuesOK, FlagsOK, QueueInv, CallInv, NoPicture,
            ViewsInv
<1>1. CASE WinPass
  <2>1. Copied(One) \in Frames
    BY CopyIsAFrame
  <2> QED
    BY <1>1, <2>1 DEF WinPass, LoopRuns, Frames
<1>2. CASE WinLost
  <2>1. [Copied(One) EXCEPT !.serial = 0] \in Frames
    BY CopyIsAFrame DEF Frames
  <2> QED
    BY <1>2, <2>1 DEF WinLost, LoopRuns, Frames
<1>3. CASE GdiPass
  <2>1. Copied(Two) \in Frames
    BY CopyIsAFrame
  <2> QED
    BY <1>3, <2>1 DEF GdiPass, LoopRuns, Frames
<1>4. CASE GdiPaint
  BY <1>4 DEF GdiPaint
<1>5. CASE WinThreadEnds
  BY <1>5 DEF WinThreadEnds
<1>6. CASE WinShows
  BY <1>6 DEF WinShows, Idle
<1>7. CASE WinDestroys
  BY <1>7 DEF WinDestroys, Idle
<1>8. CASE WinQuits
  BY <1>8 DEF WinQuits, Free, Idle
<1> QED
  BY <1>1, <1>2, <1>3, <1>4, <1>5, <1>6, <1>7, <1>8 DEF Win, WinEvent

(* The macOS view. *)
LEMMA MacStep == ViewsInv /\ (Mac \/ MacShows) => Rest'
<1> SUFFICES ASSUME ViewsInv, (Mac \/ MacShows) PROVE Rest'
  OBVIOUS
<1> USE StoreAssumption, ViewsAssumption
        DEF Rest, StoreOK, ValuesOK, FlagsOK, QueueInv, CallInv, NoPicture,
            ViewsInv
<1>1. CASE MacVsync
  BY <1>1 DEF MacVsync
<1>2. CASE MacPull
  <2>1. /\ held' \in [Views -> Frames]
        /\ dirty' \in [Views -> BOOLEAN] /\ paint' \in [Views -> BOOLEAN]
    BY <1>2, PullKeepsFrames DEF MacPull, Frames
  <2> QED
    BY <1>2, <2>1 DEF MacPull, Frames
<1>3. CASE MacDraw
  BY <1>3 DEF MacDraw
<1>4. CASE MacShows
  BY <1>4 DEF MacShows
<1> QED
  BY <1>1, <1>2, <1>3, <1>4 DEF Mac

(* The pool, through every step. *)
LEMMA PoolStep == ViewsInv /\ [Next]_vars => PoolInv'
<1> SUFFICES ASSUME ViewsInv, [Next]_vars PROVE PoolInv'
  OBVIOUS
<1>1. PoolInv /\ ValuesOK /\ One \in Views
  BY ViewsAssumption DEF ViewsInv
<1>2. CASE GnomeTick
  <2>1. UNCHANGED <<frontend, state>> /\ frontend = "gnome"
    BY <1>2 DEF GnomeTick
  <2>2. PICK b \in Takeable :
          pool' = IF Copies(held[One].serial) THEN Lent(b) ELSE Given(Taken(b), b)
    BY <1>2 DEF GnomeTick
  <2>3. b \in Buffers \ pool.lent
    BY <1>1, TakeableIsFree
  <2> QED
    BY <1>1, <2>1, <2>2, <2>3, LentCounts, GivenBack
<1>3. CASE GskDrops
  <2>1. UNCHANGED <<frontend, state>> /\ frontend = "gnome"
    BY <1>3 DEF GskDrops
  <2>2. PICK b \in pool.lent :
          pool' = Unref([Given(pool, b) EXCEPT !.lent = @ \ {b}])
    BY <1>3 DEF GskDrops
  <2> QED
    BY <1>1, <2>1, <2>2, DropCounts
<1>4. CASE GnomeDisposes
  <2>1. /\ frontend = "gnome" /\ state[One] # "gone" /\ UNCHANGED frontend
        /\ state' = Set(state, One, "gone")
        /\ pool' = Unref([pool EXCEPT !.shown = NoBuffer])
    BY <1>4 DEF GnomeDisposes
  <2> QED
    BY <1>1, <2>1, DisposeCounts
<1>5. CASE ~(GnomeTick \/ GskDrops \/ GnomeDisposes)
  <2>1. /\ UNCHANGED <<pool, frontend>>
        /\ frontend = "gnome" => UNCHANGED state
    BY <1>5
       DEF Next, vars, Emulates, Restart, Kde, FeedCalled, KdeRender, UseSoftware,
           Deliver, DeliverLooks, KdeEvent, KdeShows, KdeHides, KdeInitialize,
           KdeQuits, KdeDeletes, Gnome, GnomeSnapshot, GnomeEvent, GnomeShows,
           GnomeShutsDown, Win, WinPass, GdiPass, GdiPaint, WinThreadEnds,
           WinEvent, WinLost, WinShows, WinDestroys, WinQuits, LoopRuns, Mac,
           MacVsync, MacPull, MacDraw, MacShows
  <2> QED
    BY <1>1, <2>1, PoolKept
<1> QED
  BY <1>2, <1>3, <1>4, <1>5

(* Every step keeps the invariant. *)
LEMMA StepInv == ViewsInv /\ [Next]_vars => ViewsInv'
<1> SUFFICES ASSUME ViewsInv, [Next]_vars PROVE ViewsInv'
  OBVIOUS
<1>1. PoolInv'
  BY PoolStep
<1>2. CASE UNCHANGED vars
  BY <1>1, <1>2
     DEF vars, ViewsInv, StoreOK, ValuesOK, FlagsOK, QueueInv, CallInv
<1>3. CASE Next
  BY <1>1, <1>3, StoreStep, KdeStep, GnomeStep, WinStep, MacStep
     DEF Next, Rest, ViewsInv
<1> QED
  BY <1>2, <1>3

-----------------------------------------------------------------------------
(* The store, the views and the pool agree in every reachable state.        *)
THEOREM ViewsInvariant == Spec => []ViewsInv
  BY InitInv, StepInv, PTL DEF Spec

(* Every variable keeps its type: no serial overtakes the pictures, and no  *)
(* more deliveries are queued than fit.                                     *)
THEOREM TypeCorrect == Spec => []TypeOK
<1>1. ViewsInv => TypeOK
  <2> SUFFICES ASSUME ViewsInv PROVE TypeOK
    OBVIOUS
  <2>1. serial \in 0..MaxPictures
    BY StoreAssumption DEF ViewsInv, StoreOK
  <2>2. pool.spare \subseteq Buffers /\ pool.lent \subseteq Buffers
    BY DEF ViewsInv, PoolInv, Pools
  <2> QED
    BY <2>1, <2>2 DEF ViewsInv, StoreOK, ValuesOK, FlagsOK, TypeOK
<1> QED
  BY <1>1, ViewsInvariant, PTL

(* The emulator thread calls the view that is active, which exists; none is *)
(* active once the session is freed.                                        *)
THEOREM CallsTheActiveView == Spec => []CallbackIsTheActiveViews
<1>1. ViewsInv => CallbackIsTheActiveViews
  BY DEF ViewsInv, StoreOK, CallInv, CallbackIsTheActiveViews
<1> QED
  BY <1>1, ViewsInvariant, PTL

(* No buffer is taken while a texture borrows it, and the pool is not freed *)
(* before the last one is given back.                                       *)
THEOREM LentIsSafe == Spec => []LentIsNotReused
<1>1. ViewsInv => LentIsNotReused
  <2> SUFFICES ASSUME ViewsInv PROVE LentIsNotReused
    OBVIOUS
  <2>1. /\ IsFiniteSet(pool.lent) /\ Cardinality(pool.lent) \in Nat
        /\ Cardinality(pool.lent) = 0 <=> pool.lent = {}
    BY FS_CardinalityType, FS_EmptySet DEF ViewsInv, PoolInv
  <2> QED
    BY <2>1 DEF ViewsInv, PoolInv, LentIsNotReused
<1> QED
  BY <1>1, ViewsInvariant, PTL
=============================================================================
