---------------------------- MODULE WindowPicker ----------------------------
(***************************************************************************)
(* A workspace of the window picker (workspace.js): the clones of the      *)
(* windows on one workspace and monitor, which come and go with mutter's   *)
(* signals, the layout they are put in, at once or when the user lets them *)
(* alone, the caption and close button over them, their drags, and the     *)
(* choice of the rows of the layout.                                       *)
(***************************************************************************)
EXTENDS Integers, Sequences, SequencesExt, FiniteSetsExt

CONSTANTS Windows,
          Parent,     \* of each attached dialog, the window it is attached to
          Cells,      \* the sizes of windows, as <<width, height>>, that a layout is tried on
          MaxCells    \* how many of them there are at most

VARIABLE wp   \* what mutter knows, the clones, the layout and the trial

wpVars == <<wp>>

Places == {"workspace", "monitor"}
Nothing == ""
Dialogs == DOMAIN Parent
Clonable == Windows \ Dialogs                    \* _isOverviewWindow()
Flags == {"initial", "animate"}
NoTrial == [cells |-> <<>>, rows |-> 0, done |-> TRUE]

State == [at        : [Windows -> SUBSET Places],    \* on this workspace, on this monitor
          actor     : [Windows -> {"none", "alive", "gone"}],   \* get_compositor_private()
          hint      : SUBSET Windows,                \* the actors with an _overviewHint
          adds      : [Windows -> 0..2],             \* idles of _doAddWindow
          life      : {"none", "up", "leaving"},     \* "leaving": leavingOverview
          current   : BOOLEAN,                       \* it is the active workspace
          fading    : BOOLEAN,                       \* _animatingWindowsFade
          clones    : SUBSET Windows,                \* _windows
          dialogs   : [Dialogs -> 0..2],             \* copies in their parent's clone
          asked     : SUBSET Windows,                \* _closeRequested
          positioned : SUBSET Windows,
          moving    : SUBSET Windows,                \* eased to a slot
          layout    : SUBSET Windows,                \* whom _currentLayout is for; {}: null
          slot      : [Windows -> SUBSET Windows],   \* the layout each got its slot from
          missed    : SUBSET Windows,                \* history: dragged while it was given
          later     : BOOLEAN,                       \* _positionWindowsId
          flags     : SUBSET Flags,                  \* _positionWindowsFlags
          timer     : BOOLEAN,                       \* _repositionWindowsId
          geometry  : BOOLEAN,                       \* _actualGeometryLater
          hidden    : SUBSET Windows,                \* whose overlay is _hidden
          shown     : SUBSET Windows,                \* whose caption and button can be seen
          idles     : SUBSET Windows,                \* _idleHideOverlayId
          on        : {"away", "clone", "title"},    \* what the pointer is on,
          pointer   : Windows \cup {Nothing},        \* and of which window
          focus     : Windows \cup {Nothing, "entry"},   \* the stage's key focus
          pressed   : SUBSET Windows,                \* _longPressLater
          selected  : SUBSET Windows,                \* _selected
          drag      : Windows \cup {Nothing},        \* the clone that is inDrag
          told      : Windows \cup {Nothing},        \* the overview's drag of a window
          trial     : [cells : Seq(Cells), rows : Nat, done : BOOLEAN]]   \* _getBestLayout()

Init == wp = [at |-> [w \in Windows |-> {}], actor |-> [w \in Windows |-> "none"], hint |-> {},
              adds |-> [w \in Windows |-> 0], life |-> "none", current |-> TRUE,
              fading |-> FALSE, clones |-> {}, dialogs |-> [d \in Dialogs |-> 0], asked |-> {},
              positioned |-> {}, moving |-> {}, layout |-> {}, slot |-> [w \in Windows |-> {}],
              missed |-> {}, later |-> FALSE, flags |-> {}, timer |-> FALSE,
              geometry |-> FALSE, hidden |-> {}, shown |-> {}, idles |-> {}, on |-> "away",
              pointer |-> Nothing, focus |-> Nothing, pressed |-> {}, selected |-> {},
              drag |-> Nothing, told |-> Nothing, trial |-> NoTrial]
-----------------------------------------------------------------------------
\* _isMyWindow()
IsMine(s, w) == s.at[w] = Places

\* _recalculateWindowPositions()
Recalculate(s, flags) == [s EXCEPT !.flags = @ \cup flags, !.later = TRUE]

\* hideOverlay()
HideOverlay(s, w) == [s EXCEPT !.shown = @ \ {w}, !.idles = @ \ {w}]

\* hide() and show() of an overlay
OverlayHidden(s, w) == [HideOverlay(s, w) EXCEPT !.hidden = @ \cup {w}]
OverlayShown(s, w) ==
  [s EXCEPT !.hidden = @ \ {w}, !.shown = IF s.on = "clone" /\ s.pointer = w THEN @ \cup {w} ELSE @]

\* _onHideChrome()
HideChrome(s, w) == IF w \in s.clones THEN [s EXCEPT !.idles = @ \cup {w}] ELSE s

\* Mutant of ShowChrome: those of the other windows stay.
ShowChromeAlone(s, w) ==
  IF w \in s.hidden THEN s
  ELSE [s EXCEPT !.shown = @ \cup {w}, !.focus = IF @ = "entry" THEN @ ELSE w]

\* _onShowChrome() and 'chrome-visible': the other overlays go; the window takes the focus,
\* unless something else than the workspace has it.
ShowChrome(s, w) ==
  IF w \in s.hidden THEN s
  ELSE [s EXCEPT !.shown = {w}, !.idles = @ \cap {w}, !.focus = IF @ = "entry" THEN @ ELSE w]

\* 'drag-end' of a clone
EndDrag(s) == [OverlayShown(s, s.drag) EXCEPT !.told = Nothing, !.drag = Nothing]

\* 'destroy' of the clone of w, its overlay with it
Destroyed(s, w) ==
  LET t == IF s.drag = w THEN EndDrag(s) ELSE s
  IN [t EXCEPT !.clones = @ \ {w}, !.asked = @ \ {w}, !.positioned = @ \ {w}, !.moving = @ \ {w},
               !.slot[w] = {}, !.missed = @ \ {w}, !.hidden = @ \ {w}, !.shown = @ \ {w},
               !.idles = @ \ {w}, !.pressed = @ \ {w}, !.selected = @ \ {w},
               !.on = IF t.pointer = w THEN "away" ELSE @,
               !.pointer = IF @ = w THEN Nothing ELSE @, !.focus = IF @ = w THEN Nothing ELSE @,
               !.dialogs = [d \in Dialogs |-> IF Parent[d] = w THEN 0 ELSE @[d]]]

\* _addWindowClone(): the clone takes the dialogs there are along.
AddClone(s, w, positioned) ==
  [s EXCEPT !.clones = @ \cup {w}, !.positioned = IF positioned THEN @ \cup {w} ELSE @,
            !.dialogs = [d \in Dialogs |-> IF Parent[d] = w /\ s.actor[d] = "alive" THEN 1 ELSE @[d]]]

\* addDialog(), also of a dialog that is there; of a window asked to close, it selects that.
AddDialog(s, d) ==
  LET t == [Recalculate(s, {}) EXCEPT !.dialogs[d] = IF @ < 2 THEN @ + 1 ELSE 2]
  IN IF Parent[d] \in s.asked THEN [t EXCEPT !.selected = @ \cup {Parent[d]}] ELSE t

\* Mutant of DoAdd: a window is shown on whichever monitor it is.
DoAddAnywhere(s, w) ==
  CASE s.life # "up" \/ w \in s.clones -> s
    [] ~(s.life # "up" \/ w \in s.clones) /\ s.actor[w] # "alive" -> [s EXCEPT !.adds[w] = @ + 1]
    [] OTHER -> IF w \in Dialogs THEN s
                ELSE [Recalculate(AddClone(s, w, w \in s.hint), {"animate"}) EXCEPT !.layout = {}]

\* _doAddWindow()
DoAdd(s, w) ==
  CASE s.life # "up" -> s
    [] s.life = "up" /\ s.actor[w] # "alive" -> [s EXCEPT !.adds[w] = @ + 1]
    [] s.life = "up" /\ s.actor[w] = "alive" /\ (w \in s.clones \/ ~IsMine(s, w)) -> s
    [] OTHER -> IF w \in Dialogs THEN IF Parent[w] \in s.clones THEN AddDialog(s, w) ELSE s
                ELSE [Recalculate(AddClone(s, w, w \in s.hint), {"animate"})
                        EXCEPT !.hint = @ \ {w}, !.layout = {}]

\* Mutant of DoRemove: what was laid out stays.
DoRemoveOnly(s, w) ==
  IF s.life = "none" THEN s
  ELSE IF w \in s.clones THEN Destroyed(s, w) ELSE s

\* _doRemoveWindow(), whether or not there is a clone; the others move up later.
DoRemove(s, w) ==
  IF s.life = "none" THEN s
  ELSE LET t == IF w \in s.clones /\ s.actor[w] = "alive" THEN [s EXCEPT !.hint = @ \cup {w}] ELSE s
           u == IF w \in s.clones THEN Destroyed(t, w) ELSE t
       IN [u EXCEPT !.layout = {}, !.timer = TRUE]

\* _showWindowOverlay()
ShowOverlay(s, w) == IF s.drag = w \/ w \notin s.hidden THEN s ELSE OverlayShown(s, w)

\* _updateWindowPositions(): without a layout one is computed first; not while fading or
\* leaving; a window that is dragged is left where it is.
UpdatePositions(s, flags) ==
  IF s.layout = {} THEN Recalculate(s, flags)
  ELSE IF s.life = "leaving" \/ s.fading THEN s
  ELSE LET put == s.layout \ {s.drag}
           fresh == IF "initial" \in flags THEN put ELSE put \ s.positioned
           eased == "animate" \in flags /\ s.current
           t == FoldSet(LAMBDA w, u : OverlayHidden(u, w), s, fresh)
           v == [t EXCEPT !.positioned = @ \cup put,
                          !.moving = IF eased THEN @ \cup put ELSE @ \ put,
                          !.slot = [w \in Windows |-> IF w \in put THEN s.layout ELSE @[w]],
                          !.missed = (@ \ put) \cup (s.layout \cap {s.drag})]
       IN IF eased THEN v ELSE FoldSet(LAMBDA w, u : ShowOverlay(u, w), v, put)
-----------------------------------------------------------------------------
\* Mutter makes a window; its actor comes when the workspace and monitor have been told.
Created(w) ==
  /\ wp.actor[w] = "none"
  /\ w \in Dialogs => wp.actor[Parent[w]] = "alive"
  /\ LET s == [wp EXCEPT !.at[w] = Places]
     IN wp' = [DoAdd(DoAdd(s, w), w) EXCEPT !.actor[w] = "alive"]

\* The idle of _doAddWindow()
AddIdle(w) ==
  /\ wp.adds[w] > 0
  /\ LET s == [wp EXCEPT !.adds[w] = @ - 1]
     IN wp' = IF s.actor[w] = "alive" /\ "workspace" \in s.at[w] THEN DoAdd(s, w) ELSE s

\* 'window-removed', 'window-left-monitor'; 'window-added', 'window-entered-monitor'
Leaves(w, p) == wp.actor[w] = "alive" /\ p \in wp.at[w] /\ wp' = DoRemove([wp EXCEPT !.at[w] = @ \ {p}], w)
Enters(w, p) == wp.actor[w] = "alive" /\ p \notin wp.at[w] /\ wp' = DoAdd([wp EXCEPT !.at[w] = @ \cup {p}], w)

\* What a window's actor takes with it: its clone, or its copies in the clone of its parent.
ActorGone(s, w) ==
  LET t == [s EXCEPT !.actor[w] = "gone", !.hint = @ \ {w}]
  IN CASE w \in s.clones -> Destroyed(t, w)
       [] w \in Dialogs -> IF s.dialogs[w] > 0 THEN Recalculate([t EXCEPT !.dialogs[w] = 0], {}) ELSE t
       [] OTHER -> t

\* A window is unmanaged, its dialogs before it; its actor may be the first to go.
Unmanaged(w, actorFirst) ==
  /\ wp.actor[w] = "alive" /\ \A d \in Dialogs : Parent[d] = w => wp.actor[d] # "alive"
  /\ wp' = IF actorFirst THEN DoRemove([ActorGone(wp, w) EXCEPT !.at[w] = {}], w)
           ELSE ActorGone(DoRemove([wp EXCEPT !.at[w] = {}], w), w)

\* The overview's views are made: the clones of the windows there are; they zoom to their
\* slots, or fade where they are until the overview is shown.
Constructed(fade) ==
  /\ wp.life = "none"
  /\ LET mine == {w \in Clonable : wp.actor[w] = "alive" /\ IsMine(wp, w)}
         s == FoldSet(LAMBDA w, u : AddClone(u, w, TRUE), [wp EXCEPT !.life = "up", !.geometry = TRUE], mine)
     IN wp' = IF fade THEN [s EXCEPT !.fading = TRUE, !.hidden = IF wp.current THEN mine ELSE @]
              ELSE Recalculate(s, Flags)

\* 'shown'
Shown == wp.life = "up" /\ wp.fading /\ wp' = Recalculate([wp EXCEPT !.fading = FALSE], {"initial"})

\* zoomFromOverview(), fadeFromOverview()
Leave(fade) ==
  /\ wp.life = "up" /\ ~wp.fading
  /\ LET s == [wp EXCEPT !.life = "leaving", !.moving = {}, !.timer = @ /\ fade /\ wp.clones = {}]
     IN wp' = IF s.current THEN FoldSet(LAMBDA w, u : OverlayHidden(u, w), s, s.clones) ELSE s

\* The views are destroyed; a clone that is dragged is not below them any more.
Gone ==
  /\ wp.life \in {"up", "leaving"}
  /\ LET s == FoldSet(LAMBDA w, u : Destroyed(u, w), wp, wp.clones)
     IN wp' = [s EXCEPT !.life = "none", !.fading = FALSE, !.layout = {}, !.later = FALSE,
                        !.flags = {}, !.timer = FALSE, !.geometry = FALSE]

\* _realRecalculateWindowPositions()
BeforeRedraw ==
  /\ wp.later
  /\ LET s == [wp EXCEPT !.later = FALSE, !.flags = {}, !.timer = FALSE]
     IN wp' = IF s.clones = {} THEN s ELSE UpdatePositions([s EXCEPT !.layout = s.clones], wp.flags)

\* _syncActualGeometry() and its later
GeometryChanges == wp.life # "none" /\ ~wp.geometry /\ wp' = [wp EXCEPT !.geometry = TRUE]
GeometryLater(animating) ==
  /\ wp.geometry
  /\ LET s == [wp EXCEPT !.geometry = FALSE]
     IN wp' = IF s.current THEN UpdatePositions(s, IF animating THEN {"animate"} ELSE {}) ELSE s

\* _delayedWindowRepositioning(): it waits for a pointer that moves or is on a window.
RepositionTimeout == wp.timer /\ wp.on # "clone" /\ wp' = [Recalculate(wp, {"animate"}) EXCEPT !.timer = FALSE]

\* A window is where it is to be.
Eased(w) == w \in wp.moving /\ wp' = ShowOverlay([wp EXCEPT !.moving = @ \ {w}], w)

\* A window of this workspace changes its size.
SizeChanged(w) == w \in wp.clones /\ wp' = Recalculate(wp, {})

\* Another workspace becomes active; this one's actor is mapped again when it does.
SwitchWorkspace ==
  wp' = [wp EXCEPT !.current = ~@, !.geometry = @ \/ (~wp.current /\ wp.life # "none"), !.on = "away",
                   !.pointer = Nothing, !.idles = IF wp.on = "clone" THEN @ \cup {wp.pointer} ELSE @]
-----------------------------------------------------------------------------
\* The pointer leaves what it is on for something else; titles lie beside the clones.
PointerMoves(to, w) ==
  /\ wp.current /\ wp.drag = Nothing
  /\ IF to = "away" THEN w = Nothing ELSE w \in wp.clones
  /\ LET s == IF wp.on = "clone" /\ <<to, w>> # <<"clone", wp.pointer>> THEN HideChrome(wp, wp.pointer) ELSE wp
         t == [s EXCEPT !.on = to, !.pointer = w]
     IN wp' = IF to = "clone" /\ <<to, w>> # <<wp.on, wp.pointer>> THEN ShowChrome(t, w) ELSE t

\* Keyboard focus goes to a clone, to an entry elsewhere, or nowhere.
FocusMoves(w) ==
  /\ w # wp.focus /\ w \in wp.clones \cup {"entry", Nothing}
  /\ LET s == [HideChrome(wp, wp.focus) EXCEPT !.focus = w]
     IN wp' = IF w \in wp.clones THEN ShowChrome(s, w) ELSE s

\* _idleHideOverlay(): it waits while the pointer is on the caption or the button.
IdleHide(w) ==
  /\ w \in wp.idles /\ ~(wp.on = "title" /\ wp.pointer = w)
  /\ wp' = [wp EXCEPT !.idles = @ \ {w}, !.shown = IF wp.pointer = w THEN @ ELSE @ \ {w}]

\* A click or Return; the close button
Activate(w) == w \in wp.clones /\ wp.drag = Nothing /\ wp' = [wp EXCEPT !.selected = @ \cup {w}]
DeleteAll(w) == w \in wp.shown /\ wp.on = "title" /\ wp.pointer = w /\ wp' = [wp EXCEPT !.asked = @ \cup {w}]

\* _onLongPress(), when the press becomes too long or too far for a click
LongPressCancelled(w) == /\ wp.on = "clone" /\ wp.pointer = w /\ wp.drag = Nothing
                         /\ wp' = [wp EXCEPT !.pressed = @ \cup {w}]

\* Its later: the drag begins, unless it was a click; the drag begins with a recalculation,
\* setReservedSlot() finds the window here.
LongPressLater(w) ==
  /\ w \in wp.pressed
  /\ LET s == [wp EXCEPT !.pressed = @ \ {w}]
     IN wp' = IF w \in s.selected \/ s.drag # Nothing THEN s
              ELSE Recalculate([OverlayHidden(s, w) EXCEPT !.drag = w, !.told = w], {"animate"})

\* The drag ends without a drop that moves the window; a drop that does is Leaves().
DragEnd == wp.drag # Nothing /\ wp' = EndDrag(wp)
-----------------------------------------------------------------------------
Widths(cells) == FoldLeft(LAMBDA sum, c : sum + c[1], 0, cells)

\* _keepSameRow(): in the unit in which the ideal width is the total one.
KeepSameRow(width, c, rows, total) ==
  LET old == width * rows
      new == (width + c[1]) * rows
  IN new <= total \/ new - total < total - old

\* Mutant of PutCell: a row is as high as the window that it was begun with.
PutCellBegun(rows, c, total) ==
  LET n == Len(rows)
      begun == Max({1} \cup {i \in 1..n : rows[i].height > 0})
      target == Min({i \in begun..n : i = n \/ KeepSameRow(rows[i].width, c, n, total)})
      high == [i \in 1..n |-> IF i \in begun..target /\ rows[i].height = 0
                              THEN [rows[i] EXCEPT !.height = c[2]] ELSE rows[i]]
  IN [high EXCEPT ![target].cells = Append(@, c), ![target].width = @ + c[1]]

\* One window into the row begun last or one after it: the last row takes what is left; a row
\* that it did not fit is as high all the same.
PutCell(rows, c, total) ==
  LET n == Len(rows)
      begun == Max({1} \cup {i \in 1..n : rows[i].height > 0})
      target == Min({i \in begun..n : i = n \/ KeepSameRow(rows[i].width, c, n, total)})
      high == [i \in 1..n |-> IF i \in begun..target /\ c[2] > rows[i].height
                              THEN [rows[i] EXCEPT !.height = c[2]] ELSE rows[i]]
  IN [high EXCEPT ![target].cells = Append(@, c), ![target].width = @ + c[1]]

\* computeLayout() of UnalignedLayoutStrategy, of cells from top to bottom
Rows(cells, n) ==
  FoldLeft(LAMBDA rows, c : PutCell(rows, c, Widths(cells)),
           [i \in 1..n |-> [cells |-> <<>>, width |-> 0, height |-> 0]], cells)

Area == <<12, 8>>                                    \* of the screen that is laid out
Spacing == 1
Thousand == 1000                                     \* scales are in thousandths, rounded down

Heights(rows) == FoldLeft(LAMBDA sum, r : sum + r.height, 0, rows)
Widest(rows) == Min({i \in DOMAIN rows : \A j \in DOMAIN rows : rows[j].width <= rows[i].width})

\* computeScaleAndSpace()
ScaleAndSpace(cells, n) ==
  LET rows == Rows(cells, n)
      hspacing == (Len(rows[Widest(rows)].cells) - 1) * Spacing
      vspacing == (n - 1) * Spacing
      scale == Min({((Area[1] - hspacing) * Thousand) \div rows[Widest(rows)].width,
                         ((Area[2] - vspacing) * Thousand) \div Heights(rows), Thousand})
  IN [scale |-> scale,
      space |-> (((rows[Widest(rows)].width * scale + hspacing * Thousand) \div Area[1])
                 * ((Heights(rows) * scale + vspacing * Thousand) \div Area[2])) \div Thousand]

\* _isBetterLayout(): space counts for a tenth of what scale does.
IsBetter(old, new) ==
  LET scale == 10 * (new.scale - old.scale)
      space == new.space - old.space
  IN CASE new.scale > old.scale -> space > 0 \/ scale > space
       [] new.scale <= old.scale /\ space > 0 -> space > scale
       [] OTHER -> FALSE

Columns(cells, n) == (Len(cells) + n - 1) \div n

\* _computeLayout() of some windows
TryCells(cells) == wp.trial = NoTrial /\ cells # <<>> /\ wp' = [wp EXCEPT !.trial = [cells |-> cells, rows |-> 0, done |-> FALSE]]

\* One turn of _getBestLayout(): one row more, unless that takes no column less or is no better.
TryRow ==
  /\ ~wp.trial.done
  /\ LET c == wp.trial.cells
         n == wp.trial.rows
     IN wp' = IF n > 0 /\ (Columns(c, n + 1) = Columns(c, n) \/ ~IsBetter(ScaleAndSpace(c, n), ScaleAndSpace(c, n + 1)))
              THEN [wp EXCEPT !.trial.done = TRUE] ELSE [wp EXCEPT !.trial.rows = n + 1]

LaidOut == wp.trial.done /\ wp.trial # NoTrial /\ wp' = [wp EXCEPT !.trial = NoTrial]

\* computeWindowSlots(), of what fits of an area that may be smaller: the scale of each row
\* on top of the layout's, and what the rows then take.
RowScale(row, scale, area, vertical) ==
  IF row.cells = <<>> THEN vertical
  ELSE Min({vertical, ((area[1] - (Len(row.cells) - 1) * Spacing) * Thousand * Thousand) \div (row.width * scale)})
RowScales(rows, scale, area) ==
  LET vertical == Min({Thousand, ((area[2] - (Len(rows) - 1) * Spacing) * Thousand * Thousand)
                                        \div (Heights(rows) * scale)})
  IN [i \in DOMAIN rows |-> RowScale(rows[i], scale, area, vertical)]

Next ==
  \/ Shown \/ Gone \/ BeforeRedraw \/ GeometryChanges \/ RepositionTimeout \/ SwitchWorkspace
  \/ DragEnd \/ TryRow \/ LaidOut
  \/ \E w \in Windows :
       \/ Created(w) \/ AddIdle(w) \/ Eased(w) \/ SizeChanged(w) \/ IdleHide(w) \/ Activate(w)
       \/ DeleteAll(w) \/ LongPressCancelled(w) \/ LongPressLater(w)
  \/ \E w \in Windows, p \in Places : Leaves(w, p) \/ Enters(w, p)
  \/ \E w \in Windows, first \in BOOLEAN : Unmanaged(w, first)
  \/ \E b \in BOOLEAN : Constructed(b) \/ Leave(b) \/ GeometryLater(b)
  \/ \E to \in {"away", "clone", "title"}, w \in Clonable \cup {Nothing} : PointerMoves(to, w)
  \/ \E w \in Clonable \cup {Nothing, "entry"} : FocusMoves(w)
  \/ \E n \in 1..MaxCells : \E cells \in [1..n -> Cells] : TryCells(cells)

Spec == Init /\ [][Next]_wpVars
-----------------------------------------------------------------------------
TypeOK == wp \in State

\* With no idle left to run, the picker shows the windows of its workspace and monitor, and
\* no other, in whichever order the two signals, the actor and the moves came.
ClonesFollow ==
  wp.life = "up" /\ (\A w \in Windows : wp.adds[w] = 0)
    => wp.clones = {w \in Clonable : wp.actor[w] = "alive" /\ IsMine(wp, w)}

\* When nothing is put off any more, every window is in its slot of the layout of the windows
\* that are there; except one that was dragged when it was given its slot.
EachInItsSlot ==
  wp.life = "up" /\ ~wp.fading /\ ~wp.later /\ ~wp.timer
    => /\ wp.layout = wp.clones
       /\ \A w \in wp.clones : wp.slot[w] = wp.layout \/ w \in wp.missed \cup {wp.drag}

\* A caption that can be seen is under the pointer, is focused, or will be hidden; the
\* overview thinks of a window as dragged as long as one is, and its clone is there.
ChromeGoes ==
  /\ \A w \in wp.shown : w \in wp.idles \/ (wp.on = "clone" /\ wp.pointer = w) \/ wp.focus = w
  /\ wp.shown \cup wp.idles \cup wp.hidden \subseteq wp.clones
  /\ wp.told = wp.drag /\ (wp.drag # Nothing => wp.drag \in wp.clones)

\* Of the layout chosen every window has a place, and the rows, each as high as the highest
\* of its windows, fit in the area, also when that has become smaller than it was laid out for.
LayoutFits ==
  wp.trial.done /\ wp.trial # NoTrial =>
    LET cells == wp.trial.cells
        rows == Rows(cells, wp.trial.rows)
        scale == ScaleAndSpace(cells, wp.trial.rows).scale
        Of(i) == ToSet(rows[i].cells)
        high == [i \in DOMAIN rows |-> Max({0} \cup {c[2] : c \in Of(i)})]
    IN /\ FlattenSeq([i \in DOMAIN rows |-> rows[i].cells]) = cells
       /\ \A area \in {Area, <<Area[1] - 3, Area[2]>>, <<Area[1], Area[2] - 2>>} :
            LET by == [i \in DOMAIN rows |-> scale * RowScales(rows, scale, area)[i]]
                taken == [i \in DOMAIN rows |-> (high[i] * by[i]) \div Thousand]
            IN /\ \A i \in DOMAIN rows : Of(i) # {} =>
                    (rows[i].width * by[i]) \div Thousand + (Len(rows[i].cells) - 1) * Spacing * Thousand
                      <= area[1] * Thousand
               /\ FoldLeft(+, 0, taken) + (Len(rows) - 1) * Spacing * Thousand <= area[2] * Thousand
=============================================================================
