------------------------------- MODULE Layout -------------------------------
(***************************************************************************)
(* The layout manager of layout.js: the actors of the chrome it tracks,    *)
(* what of them the stage takes input for and which room the workspaces    *)
(* keep free, the windows and the panel that hide, the box of the          *)
(* on-screen keyboard, and the hot corner with its barriers. The regions   *)
(* are only put off, never dropped: before a redraw, to the end of a modal *)
(* grab, to the end of the start-up.                                       *)
(***************************************************************************)
EXTENDS Integers, Sequences, SequencesExt, FiniteSetsExt

CONSTANTS Extras,          \* actors that others add to the chrome and destroy
          MaxWorkspaces,   \* bound
          Threshold,       \* the pressure that opens the overview
          Timeout,         \* after which a push is forgotten
          MostPerEvent     \* what one push adds at most

VARIABLE ly   \* the chrome, the keyboard's box and the corner

lyVars == <<ly>>

Actors == {"panel", "overview", "shield", "keyboard", "cover"} \cup Extras
Barriers == {"vertical", "horizontal"}
Heights == 1..2
Workspaces == 1..MaxWorkspaces

State == [tracked    : SUBSET Actors,            \* _trackedActors
          visible    : SUBSET Actors,
          inOverview : BOOLEAN,
          hasWindows : BOOLEAN,                  \* of the session mode
          windows    : BOOLEAN,                  \* window_group.visible
          fullscreen : BOOLEAN,                  \* a window of the panel's monitor is
          modals     : 0..1,                     \* modalCount
          popup      : BOOLEAN,                  \* a popup window is there
          restacking : BOOLEAN,                  \* 'restacked' will be emitted
          popupSeen  : BOOLEAN,                  \* _isPopupWindowVisible
          idle       : BOOLEAN,                  \* _updateRegionIdle
          starting   : {"up", "prepared", "done"},   \* _startingUp but for "done"
          region     : SUBSET Actors,            \* the stage's input region
          panel      : Heights,                  \* the height of panelBox
          n          : Workspaces,
          struts     : [Workspaces -> 0..2],     \* builtin struts, by their size
          box        : {"down", "rising", "up", "sinking"},
          height     : Heights,                  \* of keyboardBox
          anchor     : 0..2,                     \* its anchor_y, or what it goes to
          watched    : BOOLEAN,                  \* _keyboardHeightNotifyId
          grew       : BOOLEAN,                  \* the height changed under the animation
          corners    : BOOLEAN,                  \* 'enable-hot-corners'
          hit        : SUBSET Barriers,          \* _isHit
          triggered  : BOOLEAN,                  \* _isTriggered
          pushes     : Seq((0..Timeout) \X (0..MostPerEvent)),   \* _barrierEvents: age and
                                                 \* distance, as of the last one
          pressure   : Int,                      \* _currentPressure
          pointer    : {"out", "environs", "corner"},   \* with respect to the fallback corner
          entered    : BOOLEAN]                  \* _entered

Init == ly = [tracked |-> Actors \ ({"cover"} \cup Extras), visible |-> {"panel", "keyboard"},
              inOverview |-> FALSE, hasWindows |-> TRUE, windows |-> TRUE, fullscreen |-> FALSE,
              modals |-> 0, popup |-> FALSE, restacking |-> FALSE, popupSeen |-> FALSE,
              idle |-> FALSE, starting |-> "up", region |-> {}, panel |-> 1, n |-> 1,
              struts |-> [w \in Workspaces |-> 0], box |-> "down", height |-> 1, anchor |-> 0,
              watched |-> FALSE, grew |-> FALSE, corners |-> TRUE, hit |-> {},
              triggered |-> FALSE, pushes |-> <<>>, pressure |-> 0, pointer |-> "out",
              entered |-> FALSE]
-----------------------------------------------------------------------------
\* _queueUpdateRegions(): not while starting up.
Queued(s) == [s EXCEPT !.idle = @ \/ s.starting = "done"]

\* What takes input: nothing of the chrome while a popup window does.
Reactive(s) == IF s.popup THEN {}
               ELSE {a \in s.tracked \cap s.visible : a # "keyboard" \/ s.box # "down"}

\* _updateRegions(): not under a modal grab, and then the queue is empty all the same.
UpdateRegions(s) ==
  LET t == [s EXCEPT !.idle = FALSE]
  IN IF s.modals > 0 THEN t
     ELSE [t EXCEPT !.region = Reactive(s), !.popupSeen = s.popup,
                    !.struts = [w \in Workspaces |-> IF w <= s.n THEN s.panel ELSE 0]]

\* A notify::visible of a tracked actor queues.
Show(s, a) == IF a \in s.visible THEN s
              ELSE LET t == [s EXCEPT !.visible = @ \cup {a}]
                   IN IF a \in s.tracked THEN Queued(t) ELSE t
Hide(s, a) == IF a \notin s.visible THEN s
              ELSE LET t == [s EXCEPT !.visible = @ \ {a}]
                   IN IF a \in s.tracked THEN Queued(t) ELSE t

\* _updateVisibility(): the windows, and the panel, that gives way to a window in fullscreen.
UpdateVisibility(s) ==
  LET t == [s EXCEPT !.windows = s.hasWindows /\ ~s.inOverview]
  IN IF t.windows /\ t.fullscreen THEN Hide(t, "panel") ELSE Show(t, "panel")

\* _trackActor(), _untrackActor()
Track(s, a) == Queued([s EXCEPT !.tracked = @ \cup {a}])
Untrack(s, a) == IF a \in s.tracked THEN Queued([s EXCEPT !.tracked = @ \ {a}]) ELSE s

\* showOverview(), hideOverview()
OverviewShown(s, on) ==
  UpdateVisibility([(IF on THEN Show(s, "overview") ELSE Hide(s, "overview")) EXCEPT !.inOverview = on])
-----------------------------------------------------------------------------
SetOverview(on) == on # ly.inOverview /\ ly' = OverviewShown(ly, on)

\* The session mode, which may have no windows.
SessionUpdated(has) == ly' = Queued(UpdateVisibility([ly EXCEPT !.hasWindows = has]))

\* 'in-fullscreen-changed'
FullscreenChanged(on) == ly' = Queued(UpdateVisibility([ly EXCEPT !.fullscreen = on]))

PushModal == ly.modals = 0 /\ ly' = [ly EXCEPT !.modals = 1]

\* Mutant of PopModal: the end of the grab is not told.
PopModalQuietly == ly.modals = 1 /\ ly' = [ly EXCEPT !.modals = 0]

\* popModal() and modalEnded()
PopModal == ly.modals = 1 /\ ly' = Queued([ly EXCEPT !.modals = 0])

\* addChrome() or trackChrome(); a destroyed actor is untracked; its owner shows and hides it.
Appear(a) == a \in Extras \ ly.tracked /\ ly' = Track([ly EXCEPT !.visible = @ \cup {a}], a)
Vanish(a) == a \in Extras \cap ly.tracked /\ ly' = Untrack([ly EXCEPT !.visible = @ \ {a}], a)
Toggle(a) == /\ a \in (Extras \cap ly.tracked) \cup {"shield"}
             /\ ly' = IF a \in ly.visible THEN Hide(ly, a) ELSE Show(ly, a)

\* A popup window comes or goes; the stack is told later.
PopupChanges == ~ly.restacking /\ ly' = [ly EXCEPT !.popup = ~@, !.restacking = TRUE]
Restacked == /\ ly.restacking
             /\ LET s == [ly EXCEPT !.restacking = FALSE]
                IN ly' = IF s.popup # s.popupSeen THEN Queued(UpdateVisibility(s)) ELSE s

\* notify::n-workspaces; a workspace is made without struts.
WorkspacesChanged(n) ==
  n # ly.n /\ ly' = Queued([ly EXCEPT !.n = n, !.struts = [w \in Workspaces |-> IF w <= n THEN @[w] ELSE 0]])

\* Before the next redraw.
BeforeRedraw == ly.idle /\ ly' = UpdateRegions(ly)

\* _prepareStartupAnimation(): a pane over everything; of a greeter the regions can wait.
StartupPrepared(greeter) ==
  /\ ly.starting = "up"
  /\ LET s == [ly EXCEPT !.starting = "prepared", !.tracked = @ \cup {"cover"},
                         !.visible = @ \cup {"cover"}]
     IN ly' = IF greeter THEN s ELSE [UpdateRegions(s) EXCEPT !.visible = @ \ {"keyboard"}]

\* _startupAnimationComplete(): the pane goes while nothing is queued yet.
StartupCompleted ==
  /\ ly.starting = "prepared"
  /\ LET s == Untrack([ly EXCEPT !.visible = @ \ {"cover"}], "cover")
     IN ly' = Queued(Show([s EXCEPT !.starting = "done"], "keyboard"))
-----------------------------------------------------------------------------
\* showKeyboard(), of a keyboard that is not: it overtakes the one that sinks.
ShowKeyboard ==
  /\ ly.starting = "done" /\ ly.box \in {"down", "sinking"}
  /\ ly' = [Show(ly, "keyboard") EXCEPT !.box = "rising", !.anchor = ly.height, !.grew = FALSE]

\* _showKeyboardComplete()
Shown(s) == [UpdateRegions([s EXCEPT !.box = "up"]) EXCEPT !.watched = TRUE]

\* _hideKeyboardComplete()
Sunk(s) == UpdateRegions(Hide([s EXCEPT !.box = "down"], "keyboard"))

\* hideKeyboard()
HideKeyboard(immediate) ==
  /\ ly.starting = "done"
  /\ LET s == [ly EXCEPT !.watched = FALSE, !.anchor = 0, !.box = "sinking"]
     IN ly' = IF immediate THEN Sunk(s) ELSE s

KeyboardEased == ly.box \in {"rising", "sinking"} /\ ly' = IF ly.box = "rising" THEN Shown(ly) ELSE Sunk(ly)

\* The keyboard is laid out anew: its box follows once it is up.
KeyboardResized(h) ==
  /\ h # ly.height
  /\ ly' = Queued([ly EXCEPT !.height = h, !.anchor = IF ly.watched THEN h ELSE @,
                             !.grew = @ \/ ly.box = "rising"])
-----------------------------------------------------------------------------
Sum2(pushes) == FoldLeft(LAMBDA sum, p : sum + p[2], 0, pushes)

\* _reset()
Released(s) == [s EXCEPT !.pushes = <<>>, !.pressure = 0]

\* _toggleOverview(): not over a window in fullscreen, nor while it is animated.
Toggled(s, willing) ==
  IF (s.fullscreen /\ ~s.inOverview) \/ ~willing THEN s ELSE OverviewShown(s, ~s.inOverview)

\* _trigger()
Trigger(s, willing) == Released(Toggled([s EXCEPT !.triggered = TRUE], willing))

\* _trimBarrierEvents(), dt after the last push
Trimmed(s, dt) ==
  LET aged == [i \in DOMAIN s.pushes |-> <<s.pushes[i][1] + dt, s.pushes[i][2]>>]
      old == SelectSeq(aged, LAMBDA p : p[1] > Timeout)
  IN [s EXCEPT !.pushes = SelectSeq(aged, LAMBDA p : p[1] <= Timeout), !.pressure = @ - Sum2(old)]

\* Mutant of Pushed: a push counts as a whole.
PushedWhole(s, across, dt, willing) ==
  LET t == Trimmed(s, dt)
      u == [t EXCEPT !.pushes = Append(@, <<0, IF across < MostPerEvent THEN across ELSE MostPerEvent>>),
                     !.pressure = @ + across]
  IN IF u.pressure >= Threshold THEN Trigger(u, willing) ELSE u

\* A push that counts, dt after the last.
Pushed(s, across, dt, willing) ==
  LET t == Trimmed(s, dt)
      d == IF across < MostPerEvent THEN across ELSE MostPerEvent
      u == [t EXCEPT !.pushes = Append(@, <<0, d>>), !.pressure = @ + d]
  IN IF u.pressure >= Threshold THEN Trigger(u, willing) ELSE u

\* _onBarrierHit(): what goes further along the barrier than across it is no push.
Hit(b, across, along, dt, willing) ==
  /\ ly.corners
  /\ LET s == [ly EXCEPT !.hit = @ \cup {b}]
     IN ly' = CASE s.triggered \/ s.modals > 0 -> s
                [] ~(s.triggered \/ s.modals > 0) /\ across >= Threshold -> Trigger(s, willing)
                [] OTHER -> IF along > across THEN s ELSE Pushed(s, across, dt, willing)

\* _onBarrierLeft()
Left(b) ==
  /\ b \in ly.hit
  /\ LET s == [ly EXCEPT !.hit = @ \ {b}]
     IN ly' = IF s.hit = {} THEN [Released(s) EXCEPT !.triggered = FALSE] ELSE s

\* _panelBoxChanged(): the corner has new barriers, which nothing has hit.
PanelResized(h) == h # ly.panel /\ ly' = Queued([ly EXCEPT !.panel = h, !.hit = {}])

\* _updateHotCorners(), for the setting or the monitors: corners are made anew.
CornersChanged(on) ==
  ly' = [Released(ly) EXCEPT !.corners = on, !.hit = {}, !.triggered = FALSE, !.pointer = "out",
                             !.entered = FALSE]

\* _onCornerLeft() and leave-event: what counts is to leave the environs too.
StillEntered(from, to) == to # "out" /\ ly.entered

\* Without barriers there is an actor of one pixel in one of three.
PointerMoves(to, willing) ==
  /\ ly.corners /\ to # ly.pointer
  /\ LET s == [ly EXCEPT !.pointer = to, !.entered = StillEntered(ly.pointer, to)]
     IN ly' = IF to = "corner" /\ ~s.entered THEN Toggled([s EXCEPT !.entered = TRUE], willing) ELSE s

Next ==
  \/ PushModal \/ PopModal \/ PopupChanges \/ Restacked \/ BeforeRedraw \/ StartupCompleted
  \/ ShowKeyboard \/ KeyboardEased
  \/ \E on \in BOOLEAN :
       \/ SetOverview(on) \/ SessionUpdated(on) \/ FullscreenChanged(on) \/ StartupPrepared(on)
       \/ HideKeyboard(on) \/ CornersChanged(on)
  \/ \E a \in Actors : Appear(a) \/ Vanish(a) \/ Toggle(a)
  \/ \E n \in Workspaces : WorkspacesChanged(n)
  \/ \E h \in Heights : PanelResized(h) \/ KeyboardResized(h)
  \/ \E b \in Barriers : Left(b)
  \/ \E b \in Barriers, across \in 1..Threshold, along \in {0, Threshold}, dt \in 0..(Timeout + 1), w \in BOOLEAN :
       Hit(b, across, along, dt, w)
  \/ \E to \in {"out", "environs", "corner"}, w \in BOOLEAN : PointerMoves(to, w)

Spec == Init /\ [][Next]_lyVars
-----------------------------------------------------------------------------
TypeOK == ly \in State

\* Once nothing is put off any more, the stage takes input for what can be seen of the chrome
\* and every workspace keeps room for the panel; the windows and the panel that gives way to
\* them are as the overview, the session and fullscreen want them at any time.
RegionsFollow ==
  /\ ly.starting = "done" /\ ~ly.idle /\ ly.modals = 0 /\ ~ly.restacking /\ ly.box \in {"down", "up"}
       => ly.region = Reactive(ly) /\ \A w \in 1..ly.n : ly.struts[w] = ly.panel
  /\ ly.windows <=> ly.hasWindows /\ ~ly.inOverview
  /\ "panel" \in ly.visible <=> ~(ly.windows /\ ly.fullscreen)

\* The box of the keyboard stands as high as it is, unless it grew while it rose; it is
\* watched only while it is up.
KeyboardFits == /\ ly.watched <=> ly.box = "up"
                /\ ly.box = "up" => ly.anchor = ly.height \/ ly.grew

\* The pressure on the corner is that of the pushes not yet forgotten, and too little to open
\* the overview; no visit to the fallback corner outlasts that to its environs.
PressureIsOfLate ==
  /\ ly.pressure = Sum2(ly.pushes) /\ ly.pressure < Threshold
  /\ ly.triggered => ly.pushes = <<>>
  /\ ly.entered => ly.pointer # "out"
=============================================================================
