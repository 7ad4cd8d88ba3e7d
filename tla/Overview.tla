------------------------------ MODULE Overview ------------------------------
(***************************************************************************)
(* The activities overview, js/ui/overview.js, with the flags it shares    *)
(* with the layout manager (showOverview() and hideOverview()) and the     *)
(* OverviewActive property the shell exports on D-Bus.                     *)
(*                                                                         *)
(* Requests come at any time: in the middle of an animation, in an XDND    *)
(* drag from an application, while another client holds the grab, while    *)
(* the session mode has no overview.  The operators below are the methods  *)
(* of the class, as functions of its state; an action is a call from the   *)
(* main loop.  The model starts after init() in a mode with an overview.   *)
(***************************************************************************)
EXTENDS Naturals

CONSTANTS
  Refusals,     \* pushModal() may fail, because another client holds a grab
  CtrlClicks,   \* requests may come from a click with the Ctrl key held
  Modes,        \* values of sessionMode.hasOverview the session goes through
  InnerDrags    \* drags inside the overview: items, windows

ASSUME OverviewAssumption == /\ {Refusals, CtrlClicks} \subseteq BOOLEAN
                             /\ Modes \subseteq BOOLEAN

VARIABLES
  ov,       \* the Overview object
  drags     \* _inItemDrag, _inWindowDrag

vars == <<ov, drags>>

Signals == {"showing", "shown", "hiding", "hidden"}

State == [isDummy      : BOOLEAN,
          visible      : BOOLEAN,   \* _visible
          shown        : BOOLEAN,   \* _shown
          modal        : BOOLEAN,   \* _modal
          animating    : BOOLEAN,   \* _animationInProgress
          target       : BOOLEAN,   \* _visibleTarget
          inXdndDrag   : BOOLEAN,   \* _inXdndDrag
          switchTimer  : BOOLEAN,   \* _windowSwitchTimeoutId # 0
          coverPane    : BOOLEAN,   \* _coverPane.visible
          unredirect   : 0 .. 2,    \* its Meta.disable_unredirect_for_display()
          inOverview   : BOOLEAN,   \* layoutManager._inOverview
          active       : BOOLEAN,   \* GnomeShell._cachedOverviewVisible
          signal       : Signals]   \* the last signal emitted

Granted == IF Refusals THEN BOOLEAN ELSE {TRUE}

Ctrl == IF CtrlClicks THEN BOOLEAN ELSE {FALSE}

-----------------------------------------------------------------------------
(* The methods *)

\* The D-Bus object looks at 'showing' and at 'hidden'.
Emit(o, signal) ==
  [o EXCEPT !.signal = signal,
            !.active = IF signal \in {"showing", "hidden"} THEN o.visible ELSE @]

\* Mutant: a show() in the middle of the animation out starts its own.
AnimateVisibleTwice(o) ==
  Emit([o EXCEPT !.visible = TRUE, !.animating = TRUE, !.target = TRUE,
                 !.unredirect = @ + 1, !.coverPane = TRUE], "showing")

AnimateVisible(o) ==
  IF o.visible \/ o.animating THEN o
  ELSE Emit([o EXCEPT !.visible = TRUE, !.animating = TRUE, !.target = TRUE,
                      !.unredirect = @ + 1, !.coverPane = TRUE], "showing")

AnimateNotVisible(o) ==
  IF ~o.visible \/ o.animating THEN o
  ELSE Emit([o EXCEPT !.animating = TRUE, !.target = FALSE,
                      !.coverPane = TRUE], "hiding")

\* Mutant: the grab is released as soon as the overview starts to leave.
ReleaseAtOnce(o) == [o EXCEPT !.modal = FALSE]

\* _syncGrab() of an overview that is not to be shown.
Release(o) == [o EXCEPT !.modal = @ /\ o.animating]

\* Any event that hides the overview keeps it with Ctrl and a mouse button.
Hide(o, ctrl) ==
  IF o.isDummy \/ ~o.shown \/ ctrl THEN o
  ELSE Release(AnimateNotVisible([o EXCEPT !.shown = FALSE]))

NeedsGrab(o) == ~o.animating /\ o.shown /\ ~o.inXdndDrag /\ ~o.modal

SyncGrab(o, granted, ctrl) ==
  IF NeedsGrab(o)
  THEN IF granted THEN [o EXCEPT !.modal = TRUE] ELSE Hide(o, ctrl)
  ELSE IF o.shown THEN o ELSE Release(o)

Show(o, granted, ctrl) ==
  IF o.isDummy \/ o.shown THEN o
  ELSE LET asked == [o EXCEPT !.shown = TRUE]
           synced == SyncGrab(asked, granted, ctrl)
       IN  IF NeedsGrab(asked) /\ ~granted THEN synced
           ELSE AnimateVisible([synced EXCEPT !.inOverview = TRUE])

Toggle(o, granted, ctrl) ==
  IF o.visible THEN Hide(o, ctrl) ELSE Show(o, granted, ctrl)

\* Mutant: a hide() during the animation in is forgotten.
ShowDoneForgetsHide(o, granted) ==
  SyncGrab(Emit([o EXCEPT !.animating = FALSE, !.coverPane = FALSE], "shown"),
           granted, FALSE)

AtShowDone(o, granted) ==
  LET done == Emit([o EXCEPT !.animating = FALSE, !.coverPane = FALSE], "shown")
  IN  SyncGrab(IF done.shown THEN done ELSE AnimateNotVisible(done), granted, FALSE)

\* Mutants: a show() during the animation out is forgotten; 'hidden' is
\* emitted before the state it announces.
HideDoneForgetsShow(o, granted) ==
  LET done == Emit([o EXCEPT !.unredirect = @ - 1, !.coverPane = FALSE,
                             !.visible = FALSE, !.animating = FALSE], "hidden")
  IN  SyncGrab([done EXCEPT !.inOverview = FALSE], granted, FALSE)

HideDoneEmitsFirst(o, granted) ==
  LET done == [Emit(o, "hidden") EXCEPT !.unredirect = @ - 1, !.coverPane = FALSE,
                                        !.visible = FALSE, !.animating = FALSE]
  IN  SyncGrab(IF done.shown THEN AnimateVisible(done)
               ELSE [done EXCEPT !.inOverview = FALSE], granted, FALSE)

AtHideDone(o, granted) ==
  LET done == Emit([o EXCEPT !.unredirect = @ - 1, !.coverPane = FALSE,
                             !.visible = FALSE, !.animating = FALSE], "hidden")
  IN  SyncGrab(IF done.shown THEN AnimateVisible(done)
               ELSE [done EXCEPT !.inOverview = FALSE], granted, FALSE)

\* Mutant: a drag that ends in the overview leaves it where it is.
DragEndStays(o) == [o EXCEPT !.inXdndDrag = FALSE, !.switchTimer = FALSE]

AtDragEnd(o) ==
  [Hide([o EXCEPT !.inXdndDrag = FALSE], FALSE) EXCEPT !.switchTimer = FALSE]
-----------------------------------------------------------------------------
(* The calls *)

Init ==
  /\ ov = [isDummy |-> FALSE, visible |-> FALSE, shown |-> FALSE, modal |-> FALSE,
           animating |-> FALSE, target |-> FALSE, inXdndDrag |-> FALSE,
           switchTimer |-> FALSE, coverPane |-> FALSE, unredirect |-> 0,
           inOverview |-> FALSE, active |-> FALSE, signal |-> "hidden"]
  /\ drags = {}

\* Keybindings, the D-Bus property, search, a click on the Activities button.
RequestShow == \E granted \in Granted, ctrl \in Ctrl :
  ov' = Show(ov, granted, ctrl) /\ UNCHANGED drags

RequestHide == \E ctrl \in Ctrl :
  ov' = Hide(ov, ctrl) /\ UNCHANGED drags

RequestToggle == \E granted \in Granted, ctrl \in Ctrl :
  ov' = Toggle(ov, granted, ctrl) /\ UNCHANGED drags

\* The monitors changed; no input event is being handled.
Relayout == ov' = Hide(ov, FALSE) /\ UNCHANGED drags

\* The onComplete callbacks of the two animations.
ShowDone ==
  /\ ov.animating /\ ov.target
  /\ \E granted \in Granted : ov' = AtShowDone(ov, granted)
  /\ UNCHANGED drags

HideDone ==
  /\ ov.animating /\ ~ov.target
  /\ \E granted \in Granted : ov' = AtHideDone(ov, granted)
  /\ UNCHANGED drags

DragBegin ==
  /\ ~ov.inXdndDrag
  /\ ov' = [ov EXCEPT !.inXdndDrag = TRUE]
  /\ UNCHANGED drags

\* The drag moves over a window preview, or away from it.  The cover pane
\* keeps it from the previews during the animations.
DragMotion == \E over \in BOOLEAN :
  /\ ov.inXdndDrag
  /\ over => ov.visible /\ ~ov.coverPane
  /\ ov' = [ov EXCEPT !.switchTimer = over]
  /\ UNCHANGED drags

\* DND_WINDOW_SWITCH_TIMEOUT: the window below the drag is activated.
WindowSwitch ==
  /\ ov.switchTimer
  /\ ov' = Hide([ov EXCEPT !.switchTimer = FALSE], FALSE)
  /\ UNCHANGED drags

DragEnd ==
  /\ ov.inXdndDrag
  /\ ov' = AtDragEnd(ov)
  /\ drags' = drags \ {"item"}

BeginInnerDrag == \E kind \in InnerDrags :
  /\ ov.visible /\ ~ov.coverPane
  /\ drags' = drags \cup {kind}
  /\ UNCHANGED ov

EndInnerDrag == \E kind \in drags :
  drags' = drags \ {kind} /\ UNCHANGED ov

\* The hot corner, the Activities button, an XDND drag resting on it; the
\* activation timeout may have passed or not.
CornerToggle ==
  /\ ~ov.animating /\ drags = {}
  /\ RequestToggle

\* The session is locked, or unlocked.
SessionUpdated == \E hasOverview \in Modes :
  ov' = [ov EXCEPT !.isDummy = ~hasOverview] /\ UNCHANGED drags

Next ==
  \/ RequestShow \/ RequestHide \/ RequestToggle \/ CornerToggle \/ Relayout
  \/ ShowDone \/ HideDone
  \/ DragBegin \/ DragMotion \/ WindowSwitch \/ DragEnd
  \/ BeginInnerDrag \/ EndInnerDrag
  \/ SessionUpdated

\* Clutter runs every transition of a mapped actor to its end.
Fairness == WF_vars(ShowDone) /\ WF_vars(HideDone)

Spec == Init /\ [][Next]_vars /\ Fairness
-----------------------------------------------------------------------------
(* Properties *)

\* Every variable has a value of its type.
TypeOK == ov \in State /\ drags \subseteq InnerDrags

\* An overview that is not moving is visible exactly when it was asked for,
\* and the layout manager hides the windows exactly then: a request made in
\* the middle of an animation is neither lost nor half done (_showDone() and
\* _hideDone(), "Handle any calls to hide* while we were showing").
AtRestAsAsked ==
  ~ov.animating => ov.visible = ov.shown /\ ov.inOverview = ov.visible

\* An overview that rests on the screen holds the input, unless an XDND drag
\* needs it, and one that has left the screen holds none (_syncGrab()).
GrabFollows ==
  /\ ~ov.animating /\ ov.shown /\ ~ov.inXdndDrag => ov.modal
  /\ ~ov.visible => ~ov.modal

\* However often the requests cross, unredirection is disabled once and by the
\* visible overview only, the pane that swallows the input is up exactly
\* during the animations, and OverviewActive tells D-Bus clients the truth.
SideEffectsBalanced ==
  /\ ov.unredirect = (IF ov.visible THEN 1 ELSE 0)
  /\ ov.coverPane = ov.animating
  /\ ov.active = ov.visible
  /\ ov.visible => ov.inOverview

\* "We delay grab changes during animation so that when removing the overview
\* we don't have a problem with the release of a press/release going to an
\* application": once taken, the grab is kept until the overview is gone.
GrabHeldUntilHidden ==
  [][ov.modal /\ ~ov'.modal => ov.animating /\ ~ov.target /\ ~ov'.visible]_vars

Promise == INSTANCE OverviewPromise WITH wanted <- ov.shown, phase <- ov.signal

\* The listeners see what OverviewPromise says: the signals alternate, and the
\* overview settles as it was last asked to.
KeepsPromise == Promise!Spec

\* An overview nobody asked for leaves the screen, also when the grab is
\* refused at the end of its animation and when the session mode has changed
\* in between.
UnwantedLeaves == ov.visible /\ ~ov.shown ~> ~ov.visible \/ ov.shown
=============================================================================
