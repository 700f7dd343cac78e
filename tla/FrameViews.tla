----------------------------- MODULE FrameViews -----------------------------
(***************************************************************************)
(* From the frame store to the glass, in the four frontends.               *)
(*   gnome  display.c: a tick callback copies into pooled buffers          *)
(*   kde    FrameFeed, DisplayWidget (view One) and SoftDisplayWidget      *)
(*          (view Two), the fallback when the GPU cannot be had            *)
(*   win    display.c: a Direct3D render thread (One), which becomes a GDI *)
(*          loop (Two) when the device is lost for good                    *)
(*   mac    DisplayView.m: a display link queues pulls on the main thread  *)
(* GUI-thread handlers run one at a time; FrameFeed::deliver is two steps, *)
(* since the emulator thread may call between them.                        *)
(***************************************************************************)
EXTENDS FrameStore, FiniteSets

CONSTANTS
  One, Two,     (* the views: of the GPU, and the fallback                 *)
  Frontends,    (* which frontends to look at                              *)
  Buffers,      (* frame buffers of the GNOME pool                         *)
  PoolKeep,     (* POOL_KEEP                                               *)
  MaxPosted,    (* bound: queued pulls (mac)                               *)
  MaxLosses     (* bound: device losses                                    *)

ASSUME ViewsAssumption ==
  /\ One # Two /\ Views = {One, Two}
  /\ Frontends \subseteq {"gnome", "kde", "win", "mac"}
  /\ PoolKeep \in Nat /\ MaxPosted \in Nat \ {0} /\ MaxLosses \in Nat

VARIABLES
  frontend,
  central,    (* the view in the window                                    *)
  visible,    (* somebody can see the window                               *)
  state,      (* of each view: "none", "made", "hidden" (to be deleted),   *)
              (* "gone"                                                    *)
  active,     (* m_active; tick_id; the link runs; the loop runs           *)
  pending,    (* m_pending                                                 *)
  posted,     (* queued deliver or pullFrame                               *)
  gui,        (* the view whose deliver is between its two steps           *)
  held,       (* the view's serial and the picture in its buffer           *)
  dirty,      (* m_dirty                                                   *)
  texture,    (* what the GPU texture, or the published one, shows         *)
  paint,      (* a repaint is due                                          *)
  failed,     (* a renderFailed signal is queued                           *)
  losses,
  glass,      (* what was drawn last                                       *)
  pool        (* spare and lent buffers, references, the published one     *)

viewVars == <<frontend, central, visible, state, active, pending, posted, gui,
              held, dirty, texture, paint, failed, losses, glass, pool>>
vars == <<storeVars, viewVars>>

NoBuffer == "no buffer"
Idle == gui = NoView /\ session \notin {"starting", "freed"}

-----------------------------------------------------------------------------
(* What the frontends share *)

Set(f, v, x) == [f EXCEPT ![v] = x]

(* The view's copy of the frame, if there is a newer one. *)
Copied(v) ==
  IF Copies(held[v].serial) THEN [serial |-> serial, picture |-> stored]
                            ELSE held[v]

Pull(v) ==
  /\ held' = Set(held, v, Copied(v))
  /\ IF Copies(held[v].serial)
     THEN dirty' = Set(dirty, v, TRUE) /\ paint' = Set(paint, v, TRUE)
     ELSE UNCHANGED <<dirty, paint>>

-----------------------------------------------------------------------------
(* kde: FrameFeed *)

FeedCalled_EachTime ==
  /\ frontend = "kde" /\ emu = "calling"
  /\ pending' = Set(pending, callback, TRUE)
  /\ posted' = Set(posted, callback, posted[callback] + 1)
  /\ CallReturns
  /\ UNCHANGED <<frontend, central, visible, state, active, gui, held, dirty,
                 texture, paint, failed, losses, glass, pool>>

(* onFrame, on the emulator thread, with frame_cb_mtx held. *)
FeedCalled ==
  /\ frontend = "kde" /\ emu = "calling"
  /\ pending' = Set(pending, callback, TRUE)
  /\ posted' = IF pending[callback] THEN posted
               ELSE Set(posted, callback, posted[callback] + 1)
  /\ CallReturns
  /\ UNCHANGED <<frontend, central, visible, state, active, gui, held, dirty,
                 texture, paint, failed, losses, glass, pool>>

Deliver(v) ==
  /\ frontend = "kde" /\ Idle
  /\ posted[v] > 0 /\ state[v] \in {"made", "hidden"}
  /\ posted' = Set(posted, v, posted[v] - 1)
  /\ pending' = Set(pending, v, FALSE)
  /\ gui' = v
  /\ UNCHANGED <<storeVars, frontend, central, visible, state, active, held,
                 dirty, texture, paint, failed, losses, glass, pool>>

DeliverLooks(v) ==
  /\ gui = v
  /\ gui' = NoView
  /\ IF active[v] THEN Pull(v) ELSE UNCHANGED <<held, dirty, paint>>
  /\ UNCHANGED <<storeVars, frontend, central, visible, state, active, pending,
                 posted, texture, failed, losses, glass, pool>>

FeedOff_Always(v) == active' = Set(active, v, FALSE) /\ SetCallback(NoView)

(* setActive(TRUE) registers the feed and looks at once; setActive(FALSE)   *)
(* takes the callback away.  Neither does anything twice.                   *)
FeedOn(v) ==
  IF active[v] THEN UNCHANGED <<active, callback, held, dirty, paint>>
  ELSE /\ active' = Set(active, v, TRUE)
       /\ SetCallback(v)
       /\ Pull(v)

FeedOff(v) ==
  IF ~active[v] THEN UNCHANGED <<active, callback>>
  ELSE active' = Set(active, v, FALSE) /\ SetCallback(NoView)

storeButCallback == <<session, starts, produced, stored, serial, emu>>

(* showEvent, hideEvent and the window's state changes, by updateActive; a  *)
(* widget just made the central one is shown later than its predecessor was *)
(* hidden.                                                                  *)
KdeShows ==
  /\ frontend = "kde" /\ Idle
  /\ ~(visible /\ active[central])
  /\ visible' = TRUE
  /\ FeedOn(central)
  /\ UNCHANGED <<storeButCallback, frontend, central, state, pending, posted,
                 gui, texture, failed, losses, glass, pool>>

KdeHides ==
  /\ frontend = "kde" /\ Idle /\ visible
  /\ visible' = FALSE
  /\ FeedOff(central)
  /\ UNCHANGED <<storeButCallback, frontend, central, state, pending, posted,
                 gui, held, dirty, texture, paint, failed, losses, glass, pool>>

KdeInitialize_Clean ==
  /\ frontend = "kde" /\ Idle /\ losses < MaxLosses
  /\ central = One /\ visible
  /\ losses' = losses + 1
  /\ texture' = Set(texture, One, NoPicture)
  /\ paint' = Set(paint, One, TRUE)
  /\ failed' \in {failed, TRUE}
  /\ UNCHANGED <<storeVars, frontend, central, visible, state, active, pending,
                 posted, gui, held, dirty, glass, pool>>

(* A new RHI, or a lost device: releaseResources, then initialize builds an *)
(* empty texture and rebuildTexture has the buffer uploaded again.  The     *)
(* pipeline may not be had, which is told by renderFailed.                  *)
KdeInitialize ==
  /\ frontend = "kde" /\ Idle /\ losses < MaxLosses
  /\ central = One /\ visible
  /\ losses' = losses + 1
  /\ texture' = Set(texture, One, NoPicture)
  /\ dirty' = Set(dirty, One, dirty[One] \/ held[One].picture # NoPicture)
  /\ paint' = Set(paint, One, TRUE)
  /\ failed' \in {failed, TRUE}
  /\ UNCHANGED <<storeVars, frontend, central, visible, state, active, pending,
                 posted, gui, held, glass, pool>>

(* DisplayWidget::render and SoftDisplayWidget::paintEvent, which paints    *)
(* the buffer itself.  A widget without a pipeline draws nothing.           *)
KdeRender ==
  /\ frontend = "kde" /\ Idle /\ visible
  /\ paint[central] /\ ~(central = One /\ failed)
  /\ paint' = Set(paint, central, FALSE)
  /\ dirty' = Set(dirty, central, FALSE)
  /\ texture' = IF dirty[central] THEN Set(texture, central, held[central].picture)
                ELSE texture
  /\ glass' = texture'[central]
  /\ UNCHANGED <<storeVars, frontend, central, visible, state, active, pending,
                 posted, gui, held, failed, losses, pool>>

(* MainWindow::useSoftwareDisplay: setCentralWidget hides the old display   *)
(* and has it deleted later.                                                *)
UseSoftware ==
  /\ frontend = "kde" /\ Idle
  /\ failed /\ central = One
  /\ central' = Two
  /\ state' = [state EXCEPT ![One] = "hidden", ![Two] = "made"]
  /\ FeedOff(One)
  /\ UNCHANGED <<storeButCallback, frontend, visible, pending, posted, gui, held,
                 dirty, texture, paint, failed, losses, glass, pool>>

(* The old display goes, at some later event; the window's own goes after   *)
(* main() has freed the session, the windows having been closed to quit.    *)
KdeDeletes(v) ==
  /\ frontend = "kde" /\ gui = NoView
  /\ \/ state[v] = "hidden"
     \/ state[v] = "made" /\ session = "freed"
  /\ state' = Set(state, v, "gone")
  /\ posted' = Set(posted, v, 0)
  /\ FeedOff(v)
  /\ UNCHANGED <<storeButCallback, frontend, central, visible, pending, gui,
                 held, dirty, texture, paint, failed, losses, glass, pool>>

KdeQuits ==
  /\ frontend = "kde" /\ Idle /\ ~visible
  /\ Free
  /\ UNCHANGED viewVars

-----------------------------------------------------------------------------
(* gnome: display.c and its frame buffer pool *)

Given(p, b) ==
  IF Cardinality(p.spare) < PoolKeep THEN [p EXCEPT !.spare = @ \cup {b}] ELSE p

(* pool_take: a spare buffer, or a new one. *)
Takeable == IF pool.spare # {} THEN pool.spare ELSE Buffers \ pool.lent

Taken(b) == [pool EXCEPT !.spare = @ \ {b}]

Lent_AndSpare(b) ==
  [Given(Taken(b), b) EXCEPT !.lent = @ \cup {b}, !.refs = @ + 1, !.shown = b]

(* publish_texture: the texture borrows the buffer, and GSK the one before  *)
(* for as long as it draws with it.                                         *)
Lent(b) == [Taken(b) EXCEPT !.lent = @ \cup {b}, !.refs = @ + 1, !.shown = b]

(* tick_cb *)
GnomeTick ==
  /\ frontend = "gnome" /\ Idle /\ active[One]
  /\ \E b \in Takeable :
       pool' = IF Copies(held[One].serial) THEN Lent(b) ELSE Given(Taken(b), b)
  /\ Pull(One)
  /\ texture' = Set(texture, One, held'[One].picture)
  /\ UNCHANGED <<storeVars, frontend, central, visible, state, active, pending,
                 posted, gui, failed, losses, glass>>

GnomeSnapshot ==
  /\ frontend = "gnome" /\ Idle /\ visible /\ paint[One]
  /\ paint' = Set(paint, One, FALSE)
  /\ glass' = texture[One]
  /\ UNCHANGED <<storeVars, frontend, central, visible, state, active, pending,
                 posted, gui, held, dirty, texture, failed, losses, pool>>

(* loan_release and pool_unref *)
Unref(p) == IF p.refs = 1 THEN [p EXCEPT !.refs = 0, !.spare = {}]
            ELSE [p EXCEPT !.refs = @ - 1]

GskDrops ==
  /\ frontend = "gnome"
  /\ \E b \in pool.lent \ {pool.shown} :
       pool' = Unref([Given(pool, b) EXCEPT !.lent = @ \ {b}])
  /\ UNCHANGED <<storeVars, frontend, central, visible, state, active, pending,
                 posted, gui, held, dirty, texture, paint, failed, losses, glass>>

(* map, unmap and notify::suspended, by update_tick *)
GnomeShows ==
  /\ frontend = "gnome" /\ Idle /\ state[One] = "made"
  /\ visible' = ~visible
  /\ active' = Set(active, One, ~visible)
  /\ UNCHANGED <<storeVars, frontend, central, state, pending, posted, gui, held,
                 dirty, texture, paint, failed, losses, glass, pool>>

GnomeDisposes ==
  /\ frontend = "gnome" /\ Idle /\ state[One] = "made"
  /\ state' = Set(state, One, "gone")
  /\ visible' = FALSE
  /\ active' = Set(active, One, FALSE)
  /\ pool' = Unref([pool EXCEPT !.shown = NoBuffer])
  /\ UNCHANGED <<storeVars, frontend, central, pending, posted, gui, held, dirty,
                 texture, paint, failed, losses, glass>>

GnomeShutsDown ==
  /\ frontend = "gnome" /\ Idle /\ state[One] = "gone"
  /\ Free
  /\ UNCHANGED viewVars

-----------------------------------------------------------------------------
(* win: display.c *)

LoopRuns(v) == frontend = "win" /\ active[v] /\ state[v] = "made"

(* A pass of render_thread: copy, upload, draw, present. *)
WinPass ==
  /\ LoopRuns(One) /\ visible
  /\ held' = Set(held, One, Copied(One))
  /\ texture' = IF Copies(held[One].serial) THEN Set(texture, One, stored) ELSE texture
  /\ glass' = IF held'[One].picture = NoPicture THEN glass ELSE texture'[One]
  /\ UNCHANGED <<storeVars, frontend, central, visible, state, active, pending,
                 posted, gui, dirty, paint, failed, losses, pool>>

(* The device was removed: the upload and the present of this pass fail.    *)
(* Everything is built again, and the frame is wanted again; or neither     *)
(* device can be had and the thread goes on as the GDI loop.                *)
WinLost ==
  /\ LoopRuns(One) /\ visible /\ losses < MaxLosses
  /\ losses' = losses + 1
  /\ held' = Set(held, One, [Copied(One) EXCEPT !.serial = 0])
  /\ texture' = Set(texture, One, NoPicture)
  /\ \/ UNCHANGED <<central, state, active, paint>>
     \/ /\ central' = Two
        /\ active' = [active EXCEPT ![One] = FALSE, ![Two] = TRUE]
        /\ state' = [state EXCEPT ![One] = "gone", ![Two] = "made"]
        /\ paint' = Set(paint, Two, TRUE)
  /\ UNCHANGED <<storeVars, frontend, visible, pending, posted, gui, dirty,
                 failed, glass, pool>>

(* A pass of gdi_loop, and WM_PAINT. *)
GdiPass ==
  /\ LoopRuns(Two)
  /\ held' = Set(held, Two, Copied(Two))
  /\ paint' = Set(paint, Two, paint[Two] \/ (visible /\ Copies(held[Two].serial)))
  /\ UNCHANGED <<storeVars, frontend, central, visible, state, active, pending,
                 posted, gui, dirty, texture, failed, losses, glass, pool>>

GdiPaint ==
  /\ frontend = "win" /\ Idle /\ central = Two /\ visible /\ paint[Two]
  /\ paint' = Set(paint, Two, FALSE)
  /\ glass' = held[Two].picture
  /\ UNCHANGED <<storeVars, frontend, central, visible, state, active, pending,
                 posted, gui, held, dirty, texture, failed, losses, pool>>

WinShows ==
  /\ frontend = "win" /\ Idle /\ state[central] = "made"
  /\ visible' = ~visible
  /\ paint' = Set(paint, central, TRUE)
  /\ UNCHANGED <<storeVars, frontend, central, state, active, pending, posted,
                 gui, held, dirty, texture, failed, losses, glass, pool>>

(* apple2_display_destroy clears g_running and waits for the thread to see  *)
(* it; the thread is taken to see it within the wait's three seconds.       *)
WinDestroys ==
  /\ frontend = "win" /\ Idle /\ state[central] = "made"
  /\ state' = Set(state, central, "hidden")
  /\ visible' = FALSE
  /\ UNCHANGED <<storeVars, frontend, central, active, pending, posted, gui, held,
                 dirty, texture, paint, failed, losses, glass, pool>>

WinThreadEnds ==
  /\ frontend = "win" /\ state[central] = "hidden" /\ active[central]
  /\ active' = Set(active, central, FALSE)
  /\ UNCHANGED <<storeVars, frontend, central, visible, state, pending, posted,
                 gui, held, dirty, texture, paint, failed, losses, glass, pool>>

WinQuits ==
  /\ frontend = "win" /\ Idle /\ state[central] = "hidden" /\ ~active[central]
  /\ Free
  /\ UNCHANGED viewVars

-----------------------------------------------------------------------------
(* mac: DisplayView.m *)

(* onVsync, on the display link's thread, which runs hidden or not. *)
MacVsync ==
  /\ frontend = "mac" /\ active[One]
  /\ posted[One] < MaxPosted
  /\ posted' = Set(posted, One, posted[One] + 1)
  /\ UNCHANGED <<storeVars, frontend, central, visible, state, active, pending,
                 gui, held, dirty, texture, paint, failed, losses, glass, pool>>

(* pullFrame; the image refers to the buffer in place. *)
MacPull ==
  /\ frontend = "mac" /\ Idle /\ posted[One] > 0
  /\ posted' = Set(posted, One, posted[One] - 1)
  /\ Pull(One)
  /\ UNCHANGED <<storeVars, frontend, central, visible, state, active, pending,
                 gui, texture, failed, losses, glass, pool>>

MacDraw ==
  /\ frontend = "mac" /\ Idle /\ visible /\ paint[One]
  /\ paint' = Set(paint, One, FALSE)
  /\ glass' = held[One].picture
  /\ UNCHANGED <<storeVars, frontend, central, visible, state, active, pending,
                 posted, gui, held, dirty, texture, failed, losses, pool>>

MacShows ==
  /\ frontend = "mac" /\ Idle
  /\ visible' = ~visible
  /\ UNCHANGED <<storeVars, frontend, central, state, active, pending, posted,
                 gui, held, dirty, texture, paint, failed, losses, glass, pool>>

-----------------------------------------------------------------------------
(* A restart, from the settings or after importing ROMs: the GUI thread is  *)
(* in it.                                                                   *)
Restart ==
  /\ gui = NoView
  /\ Stop \/ StartSerial \/ StartEmpty
  /\ UNCHANGED viewVars

Emulates == (Store \/ Notify) /\ UNCHANGED viewVars

Init ==
  /\ StoreInit
  /\ frontend \in Frontends
  /\ central \in IF frontend = "win" THEN Views ELSE {One}
  /\ visible = FALSE
  /\ state = [v \in Views |-> IF v = central THEN "made" ELSE "none"]
  /\ active = [v \in Views |-> v = central /\ frontend \in {"win", "mac"}]
  /\ pending = [v \in Views |-> FALSE]
  /\ posted = [v \in Views |-> 0]
  /\ gui = NoView
  /\ held = [v \in Views |-> [serial |-> 0, picture |-> NoPicture]]
  /\ dirty = [v \in Views |-> FALSE]
  /\ texture = [v \in Views |-> NoPicture]
  /\ paint = [v \in Views |-> FALSE]
  /\ failed = FALSE /\ losses = 0
  /\ glass = NoPicture
  /\ pool = [spare |-> {}, lent |-> {}, refs |-> 1, shown |-> NoBuffer]

Kde == FeedCalled \/ KdeRender \/ UseSoftware
       \/ \E v \in Views : Deliver(v) \/ DeliverLooks(v)
KdeShown == visible /\ KdeShows    (* a central widget in a shown window    *)
KdeEvent == KdeShows \/ KdeHides \/ KdeInitialize \/ KdeQuits
            \/ \E v \in Views : KdeDeletes(v)
Gnome == GnomeTick \/ GnomeSnapshot \/ GskDrops
GnomeEvent == GnomeShows \/ GnomeDisposes \/ GnomeShutsDown
Win == WinPass \/ GdiPass \/ GdiPaint \/ WinThreadEnds
WinEvent == WinLost \/ WinShows \/ WinDestroys \/ WinQuits
Mac == MacVsync \/ MacPull \/ MacDraw

Next == \/ Emulates \/ Restart
        \/ Kde \/ KdeEvent
        \/ Gnome \/ GnomeEvent
        \/ Win \/ WinEvent
        \/ Mac \/ MacShows

Spec == Init /\ [][Next]_vars

(* The threads run: the emulator thread's callback, the GUI thread's queued *)
(* events, ticks and repaints, each loop.  No picture need come, no window  *)
(* need be shown, no device need be lost.                                   *)
Fairness ==
  /\ WF_vars(Notify /\ UNCHANGED viewVars)
  /\ WF_vars(FeedCalled) /\ WF_vars(KdeRender) /\ WF_vars(UseSoftware)
  /\ WF_vars(KdeShown)
  /\ \A v \in Views : WF_vars(Deliver(v)) /\ WF_vars(DeliverLooks(v))
  /\ WF_vars(GnomeTick) /\ WF_vars(GnomeSnapshot) /\ WF_vars(GskDrops)
  /\ WF_vars(WinPass) /\ WF_vars(GdiPass) /\ WF_vars(GdiPaint)
  /\ WF_vars(MacVsync) /\ WF_vars(MacPull) /\ WF_vars(MacDraw)

LiveSpec == Spec /\ Fairness

-----------------------------------------------------------------------------
Pictures == 0..MaxPictures

TypeOK ==
  /\ session \in {"down", "starting", "up", "freed"}
  /\ stored \in Pictures /\ produced \in Pictures /\ serial \in 0..MaxPictures
  /\ serial <= produced
  /\ emu \in {"run", "notify", "calling"} /\ callback \in Views \cup {NoView}
  /\ central \in Views /\ visible \in BOOLEAN /\ gui \in Views \cup {NoView}
  /\ state \in [Views -> {"none", "made", "hidden", "gone"}]
  /\ active \in [Views -> BOOLEAN] /\ pending \in [Views -> BOOLEAN]
  /\ posted \in [Views -> 0..MaxPosted]
  /\ held \in [Views -> [serial : 0..MaxPictures, picture : Pictures]]
  /\ texture \in [Views -> Pictures] /\ glass \in Pictures
  /\ dirty \in [Views -> BOOLEAN] /\ paint \in [Views -> BOOLEAN]
  /\ pool.spare \subseteq Buffers /\ pool.lent \subseteq Buffers

(* The emulator thread calls the view that is active, which exists: hiding  *)
(* or deleting the GPU display does not take the callback from its          *)
(* successor, and once the session is freed no view is in it.               *)
CallbackIsTheActiveViews ==
  /\ frontend = "kde" => \A v \in Views : active[v] <=> callback = v
  /\ emu = "calling" => state[callback] = "made"
  /\ session = "freed" => \A v \in Views : ~active[v]

(* A buffer that a texture still borrows is not taken for the next frame,   *)
(* and the pool outlives what it lent, though the widget may not.           *)
LentIsNotReused ==
  /\ pool.spare \cap pool.lent = {}
  /\ pool.refs = 0 => pool.lent = {}

(* A visible window shows the newest picture, though nothing more may ever  *)
(* be published: over delivery racing the next frame, hidden windows, a     *)
(* lost device and the fallback displays.  Except a picture whose serial,   *)
(* counted anew since a restart, is the one the view already holds.         *)
Passed == held[central].serial = serial /\ held[central].picture # stored

PictureArrives ==
  \A p \in 1..MaxPictures :
    (session = "up" /\ visible /\ stored = p /\ ~Passed)
      ~> (glass = p \/ stored # p \/ ~visible \/ session # "up")
=============================================================================
