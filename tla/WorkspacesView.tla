--------------------------- MODULE WorkspacesView ---------------------------
(***************************************************************************)
(* The row of workspaces that the overview shows on each monitor           *)
(* (workspacesView.js). Three things move it: the adjustment that a pan, a *)
(* gesture or an ease drives, the ease of the workspaces themselves, and   *)
(* the workspaces of the window manager, which come, go and change places  *)
(* meanwhile. The adjustment of the primary view drives the others and     *)
(* activates the workspace it comes to, which moves all views in turn. How *)
(* the windows get their places in a workspace is in WindowPicker.         *)
(***************************************************************************)
EXTENDS Integers, Sequences, SequencesExt, FiniteSets

CONSTANTS Ids,           \* workspaces; one that is removed may come again
          MaxMonitors    \* bound

VARIABLE wv   \* the workspaces, and the views of the overview, one per monitor

wvVars == <<wv>>

None == -1    \* no ease of the adjustment
Still == 1    \* no ease of the workspaces: their goals are never positive

\* Positions and values count in half workspaces.
View == [kind      : {"all", "extra"},   \* WorkspacesView, ExtraWorkspaceView
         list      : Seq(Ids),           \* _workspaces
         spread    : BOOLEAN,            \* the workspaces have been given their places
         first     : Int,                \* where the first one is
         to        : Int,                \* what its place is eased to
         visible   : SUBSET Ids,
         animating : BOOLEAN, scrolling : BOOLEAN, gesture : BOOLEAN, drag : BOOLEAN,
         value     : Nat, upper : Nat,   \* scrollAdjustment
         slide     : Int,                \* its ease: _animatingScroll
         older     : BOOLEAN,            \* that ease ends before the one of the workspaces
         shown     : BOOLEAN]

State == [list : Seq(Ids), active : Ids,          \* the workspace manager
          views : Seq(View), primary : 1..MaxMonitors,
          onlyPrimary : BOOLEAN,
          panning : BOOLEAN, gesturing : BOOLEAN, dragging : BOOLEAN,   \* of the user
          tail    : {"no", "stale", "missing"},   \* the last workspace went, and came anew
          shifted : BOOLEAN]                      \* the active one got another index by itself

Init == wv = [list |-> SetToSeq(Ids), active |-> CHOOSE i \in Ids : TRUE, views |-> <<>>,
              primary |-> 1, onlyPrimary |-> FALSE, panning |-> FALSE, gesturing |-> FALSE,
              dragging |-> FALSE, tail |-> "no", shifted |-> FALSE]
-----------------------------------------------------------------------------
IndexIn(l, i) == (CHOOSE n \in DOMAIN l : l[n] = i) - 1
Active(s) == IndexIn(s.list, s.active)
Abs(n) == IF n < 0 THEN -n ELSE n
RowViews(s) == SelectSeq([k \in DOMAIN s.views |-> k], LAMBDA k : s.views[k].kind = "all")

\* _updateVisibility()
Visibility(s, v) ==
  [v EXCEPT !.visible =
     IF v.animating \/ v.scrolling \/ v.gesture THEN Range(v.list)
     ELSE {v.list[w] : w \in {x \in DOMAIN v.list :
             Abs(x - 1 - Active(s)) <= (IF v.drag THEN 1 ELSE 0)}}]

\* _updateWorkspaceActors(): on a view that is not mapped the ease is over at once.
UpdateActors(s, v, animated) ==
  LET there == [v EXCEPT !.first = -2 * Active(s), !.to = Still, !.spread = TRUE,
                         !.animating = FALSE]
  IN IF animated /\ v.shown
     THEN Visibility(s, [v EXCEPT !.animating = TRUE, !.to = -2 * Active(s), !.older = TRUE])
     ELSE Visibility(s, there)

\* _scrollToActive(), with _updateScrollAdjustment()
ScrollToActive(s, v) ==
  LET u == UpdateActors(s, v, TRUE)
  IN IF v.scrolling \/ v.gesture THEN u
     ELSE [u EXCEPT !.slide = 2 * Active(s), !.older = FALSE]

\* A workspace becomes active: every view hears of it at once (_activeWorkspaceChanged()).
\* What is no workspace any more is not activated.
Activate(s, i) ==
  IF i = s.active \/ i \notin Range(s.list) THEN s
  ELSE LET t == [s EXCEPT !.active = i]
       IN [t EXCEPT !.views = [k \in DOMAIN @ |->
             IF @[k].kind = "all" /\ ~@[k].scrolling THEN ScrollToActive(t, @[k]) ELSE @[k]]]

\* The workspaces of the view are moved to where the value is; that ends their ease.
Follow(v) ==
  IF v.upper = 1 THEN v
  ELSE [v EXCEPT !.first = IF v.spread
                           THEN -((v.value * (Len(v.list) - 1)) \div (v.upper - 1)) ELSE @,
                 !.to = Still,
                 !.visible = {v.list[w] : w \in {x \in DOMAIN v.list :
                                Abs((2 * (x - 1)) - v.value) <= 2}}]

\* Mutant of OnScroll: the ease of the adjustment is taken for a scroll of the user.
OnScrollAlways(s, k) ==
  LET v == s.views[k]
      round == (v.value + 1) \div 2
      current == IF round < Len(v.list) THEN round ELSE Len(v.list) - 1
      t == IF Active(s) # round /\ ~v.gesture THEN Activate(s, v.list[current + 1]) ELSE s
  IN [t EXCEPT !.views[k] = Follow(@)]

\* _onScroll() of the view k
OnScroll(s, k) ==
  LET v == s.views[k]
      round == (v.value + 1) \div 2
      current == IF round < Len(v.list) THEN round ELSE Len(v.list) - 1
      t == IF Active(s) # round /\ ~v.gesture THEN Activate(s, v.list[current + 1]) ELSE s
  IN IF v.slide # None THEN s ELSE [t EXCEPT !.views[k] = Follow(@)]

\* The value of one adjustment is set, within its bounds.
SetOne(s, k, x) ==
  LET v == s.views[k]
      most == 2 * (v.upper - 1)
      y == IF x < 0 THEN 0 ELSE IF x > most THEN most ELSE x
  IN IF y = v.value THEN s ELSE OnScroll([s EXCEPT !.views[k].value = y], k)

\* 'notify::value' of the primary one goes to the others (_scrollValueChanged()).
SetValue(s, k, x) ==
  LET t == SetOne(s, k, x)
  IN IF k # s.primary \/ t.views[k].value = s.views[k].value THEN t
     ELSE FoldLeft(LAMBDA u, o : IF o = k THEN u ELSE SetOne(u, o, u.views[k].value),
                   t, RowViews(s))
-----------------------------------------------------------------------------
\* Mutant of Synced: new workspaces are added at the end, whatever went before.
SyncedOnly(l, ids) ==
  FoldLeft(LAMBDA m, j : IF j > Len(m) THEN Append(m, ids[j]) ELSE m, l,
           [j \in DOMAIN ids |-> j])

\* The loop of _updateWorkspaces(): a workspace is missed only where another took its place.
Synced(l, ids) ==
  FoldLeft(LAMBDA m, j : CASE j > Len(m) -> Append(m, ids[j])
                           [] j <= Len(m) /\ m[j] # ids[j] -> RemoveAt(m, j)
                           [] OTHER -> m,
           l, [j \in DOMAIN ids |-> j])

\* _updateWorkspaces() of the view k: the new bound comes first, and may move the old list.
UpdateWorkspaces(s, k) ==
  LET t == SetValue([s EXCEPT !.views[k].upper = Len(s.list)], k, s.views[k].value)
      u == [t EXCEPT !.views[k].list = Synced(@, s.list)]
  IN [u EXCEPT !.views[k] = UpdateActors(u, @, FALSE)]

\* 'notify::n-workspaces'
CountChanged(s) == FoldLeft(UpdateWorkspaces, s, RowViews(s))

NewView(s, kind) ==
  [kind |-> kind, list |-> IF kind = "all" THEN s.list ELSE <<>>, spread |-> FALSE, first |-> 0,
   to |-> Still, visible |-> IF kind = "all" THEN Range(s.list) ELSE {}, animating |-> FALSE,
   scrolling |-> FALSE, gesture |-> FALSE, drag |-> FALSE,
   value |-> IF kind = "all" THEN 2 * Active(s) ELSE 0,
   upper |-> IF kind = "all" THEN Len(s.list) ELSE 1, slide |-> None, older |-> FALSE,
   shown |-> TRUE]

\* _updateWorkspacesViews(): the views are made anew.
Remade(s, monitors) ==
  [s EXCEPT !.tail = "no", !.shifted = FALSE,
            !.views = [k \in 1..monitors |->
               NewView(s, IF s.onlyPrimary /\ k # s.primary THEN "extra" ELSE "all")]]

\* show() of the display, with animateToOverview() of each view; the display listens to keys
\* and the wheel while there are views.
Show(monitors, primary) ==
  /\ wv.views = <<>> /\ primary <= monitors
  /\ LET t == Remade([wv EXCEPT !.primary = primary], monitors)
     IN wv' = [t EXCEPT !.views = [k \in DOMAIN @ |->
                 IF @[k].kind = "all" THEN UpdateActors(t, @[k], FALSE) ELSE @[k]]]

\* hide(); the display is not mapped any more, and hears no gesture.
Hide ==
  /\ wv.views # <<>>
  /\ wv' = [wv EXCEPT !.views = <<>>, !.panning = FALSE, !.gesturing = FALSE, !.dragging = FALSE]

\* _workspacesOnlyOnPrimaryChanged(): in the overview the new views are given no places.
OnlyPrimaryChanged ==
  LET t == [wv EXCEPT !.onlyPrimary = ~@]
  IN wv' = IF wv.views = <<>> THEN t ELSE Remade(t, Len(wv.views))

\* A key, the wheel (_onKeyPressEvent(), _onScrollEvent()) or anything else switches.
Switch(i) == /\ i \in Range(wv.list) \ {wv.active}
             /\ wv' = Activate(wv, i)

WorkspaceAdded(i) ==
  /\ i \notin Range(wv.list) /\ wv.tail # "missing"
  /\ wv' = CountChanged([wv EXCEPT !.list = Append(@, i),
                                   !.tail = IF @ = "stale" THEN "missing" ELSE @])

\* The window manager first makes a neighbour active, then it removes the workspace.
\* Bound: nothing else goes once the last of the shown ones went.
WorkspaceRemoved(i, neighbour) ==
  /\ {i, neighbour} \subseteq Range(wv.list) /\ wv.tail = "no"
  /\ Abs(IndexIn(wv.list, i) - IndexIn(wv.list, neighbour)) = 1
  /\ LET t == IF i = wv.active THEN Activate(wv, neighbour) ELSE wv
         last == i = Last(wv.list) /\ wv.views # <<>>
         before == IndexIn(wv.list, i) < IndexIn(wv.list, t.active)
     IN wv' = CountChanged([t EXCEPT !.list = SelectSeq(@, LAMBDA x : x # i),
                  !.tail = IF last THEN "stale" ELSE @,
                  !.shifted = @ \/ (before /\ wv.views # <<>>)])

\* 'workspaces-reordered': the active one keeps being the active one.
Reordered(n) ==
  /\ n < Len(wv.list) /\ wv.tail = "no"
  /\ LET swapped == [j \in DOMAIN wv.list |->
                       IF j = n THEN wv.list[n + 1] ELSE IF j = n + 1 THEN wv.list[n] ELSE wv.list[j]]
         t == [wv EXCEPT !.list = swapped,
                 !.shifted = @ \/ (wv.views # <<>> /\ wv.active \in {wv.list[n], wv.list[n + 1]})]
     IN wv' = [t EXCEPT !.views = [k \in DOMAIN @ |->
                IF @[k].kind = "all" THEN UpdateActors(t, [@[k] EXCEPT !.list = swapped], FALSE)
                ELSE @[k]]]
-----------------------------------------------------------------------------
EachRow(s, Op(_)) ==
  [s EXCEPT !.views = [k \in DOMAIN @ |-> IF @[k].kind = "all" THEN Op(@[k]) ELSE @[k]]]

\* _startSwipeScroll(): 'gesture-begin' of the pan
PanBegin == /\ wv.views # <<>> /\ ~wv.panning
            /\ wv' = EachRow([wv EXCEPT !.panning = TRUE], LAMBDA v : [v EXCEPT !.scrolling = TRUE])

\* _onPan()
Pan(d) == /\ wv.panning
          /\ wv' = SetValue(wv, wv.primary, wv.views[wv.primary].value + d)

\* endSwipeScroll() of every view
EndSwipe(s) == EachRow(s, LAMBDA v :
                 Visibility(s, ScrollToActive(s, [v EXCEPT !.scrolling = FALSE])))

PanEnd == /\ wv.panning
          /\ wv' = EndSwipe([wv EXCEPT !.panning = FALSE])

\* _onSwitchWorkspaceMotion(); each motion counts from the active workspace.
Motion(d) ==
  /\ wv.views # <<>>
  /\ LET t == EachRow([wv EXCEPT !.gesturing = TRUE], LAMBDA v : [v EXCEPT !.gesture = TRUE])
     IN wv' = SetValue(t, t.primary, (2 * Active(t)) + d)

EndGesture(s) == EachRow(s, LAMBDA v :
                   Visibility(s, ScrollToActive(s, [v EXCEPT !.gesture = FALSE])))

\* _onSwitchWorkspaceActivated(): to the neighbour, if there is one
GestureActivated(d) ==
  LET n == Active(wv) + d + 1
  IN /\ wv.gesturing
     /\ wv' = EndGesture(IF n \in DOMAIN wv.list
                         THEN Activate([wv EXCEPT !.gesturing = FALSE], wv.list[n])
                         ELSE [wv EXCEPT !.gesturing = FALSE])

GestureCancelled == /\ wv.gesturing
                    /\ wv' = EndGesture([wv EXCEPT !.gesturing = FALSE])

\* Mutant of Arrived: the end of the ease does not show what it hid.
ArrivedOnly(s, v) == [v EXCEPT !.first = v.to, !.to = Still, !.spread = TRUE]

\* The ease of the workspaces ends.
Arrived(s, v) == Visibility(s, [v EXCEPT !.first = v.to, !.to = Still, !.spread = TRUE,
                                         !.animating = FALSE])

\* The next eases end: both, if they began together; the older one, if not.
Eased ==
  LET Ends(v) == v.to # Still /\ ~(v.slide # None /\ v.older)
      moved == EachRow(wv, LAMBDA v : IF Ends(v) THEN Arrived(wv, v) ELSE v)
      Slid(t, k) == IF t.views[k].slide = None THEN t
                    ELSE [SetValue(t, k, t.views[k].slide) EXCEPT !.views[k].slide = None]
  IN /\ \E k \in DOMAIN wv.views : wv.views[k].to # Still \/ wv.views[k].slide # None
     /\ wv' = FoldLeft(Slid, moved, RowViews(wv))

\* A frame of the eases of the adjustments
Frame ==
  LET Step(t, k) == LET v == t.views[k]
                    IN CASE v.slide = None \/ v.slide = v.value -> t
                         [] v.slide > v.value /\ v.slide # None -> SetValue(t, k, v.value + 1)
                         [] v.slide < v.value /\ v.slide # None -> SetValue(t, k, v.value - 1)
  IN /\ \E k \in DOMAIN wv.views : wv.views[k].slide \notin {None, wv.views[k].value}
     /\ wv' = FoldLeft(Step, wv, RowViews(wv))

\* A window of the overview is dragged (_dragBegin(), _dragEnd()).
Drag(b) == /\ wv.views # <<>> /\ b # wv.dragging
           /\ wv' = EachRow([wv EXCEPT !.dragging = b], LAMBDA v : [v EXCEPT !.drag = b])

\* 'notify::opacity' of the page: the primary view appears and goes with it.
PageOpacity(b) == /\ wv.views # <<>> /\ b # wv.views[wv.primary].shown
                  /\ wv' = [wv EXCEPT !.views[wv.primary].shown = b]

Next ==
  \/ Hide \/ OnlyPrimaryChanged \/ PanBegin \/ PanEnd \/ GestureCancelled \/ Frame \/ Eased
  \/ \E m, p \in 1..MaxMonitors : Show(m, p)
  \/ \E i \in Ids : Switch(i) \/ WorkspaceAdded(i)
  \/ \E i, n \in Ids : WorkspaceRemoved(i, n)
  \/ \E n \in 1..Cardinality(Ids) : Reordered(n)
  \/ \E d \in {-1, 1} : Pan(d) \/ GestureActivated(d)
  \/ \E d \in -2..2 : Motion(d)
  \/ \E b \in BOOLEAN : Drag(b) \/ PageOpacity(b)

Spec == Init /\ [][Next]_wvVars
-----------------------------------------------------------------------------
\* The state is of the declared type.
TypeOK == wv \in State

Rows == {wv.views[k] : k \in {x \in DOMAIN wv.views : wv.views[x].kind = "all"}}

\* Every view of all workspaces holds the workspaces there are in their order, whatever came,
\* went or changed places; unless the last one went, which the loop does not see.
ViewsFollow == wv.tail = "no" => \A v \in Rows : v.list = wv.list /\ v.upper = Len(wv.list)

\* Once nobody moves it and no ease runs, a view rests on the active workspace: that one is in
\* its place, visible, and at most its neighbours are with it; and the adjustment is there too,
\* unless the active workspace got another index in the meantime.
SettlesOnActive ==
  (wv.tail = "no" /\ ~wv.panning /\ ~wv.gesturing) =>
    \A v \in Rows :
      (v.spread /\ v.slide = None /\ v.to = Still) =>
        /\ v.first = -2 * Active(wv)
        /\ wv.active \in v.visible
        /\ \A i \in v.visible : Abs(IndexIn(wv.list, i) - Active(wv)) <= 1
        /\ wv.shifted \/ v.value = 2 * Active(wv)

\* What eases, drags, settings and other workspaces do leaves the active workspace alone: the
\* adjustments that follow one another never switch by themselves, unless the active workspace
\* got another index, which they are not told.
SparesActive ==
  \/ wv'.active = wv.active
  \/ wv.active \notin Range(wv'.list)
  \/ wv.panning \/ wv.shifted
  \/ \E i \in Ids : Switch(i)
  \/ \E d \in {-1, 1} : GestureActivated(d)

\* No step takes the active workspace away otherwise.
NobodySwitches == [][SparesActive]_wvVars
=============================================================================
