---------------------------- MODULE ViewSelector ----------------------------
(***************************************************************************)
(* The pages of the overview (viewSelector.js) and the controls at its     *)
(* sides (overviewControls.js). A page leaves, by a fade or by the spring  *)
(* of the application grid, before the next one comes; what ends the       *)
(* leaving, or overtakes it, brings in whatever page is active by then.    *)
(* The dash and the thumbnails slide while no page is there. The overview  *)
(* itself opens and closes meanwhile, and remembers what it is asked.      *)
(***************************************************************************)
EXTENDS Integers, FiniteSets

CONSTANT MaxOuts    \* bound: the handlers of 'animation-done' that are left

VARIABLE vs   \* the overview, its pages, its search entry and its sliders

vsVars == <<vs>>

Pages == {"windows", "apps", "search"}
Nothing == "nothing"
Sliders == {"dash", "thumbnails"}

State == [at      : {"hidden", "showing", "shown", "hiding"},   \* of the overview
          asked   : BOOLEAN,                       \* overview._shown
          active  : Pages \cup {Nothing},          \* _activePage
          on      : SUBSET Pages,                  \* visible
          opaque  : [Pages -> BOOLEAN],            \* opacity, once no fade runs
          fade    : [Pages -> {"no", "in", "out"}],
          checked : BOOLEAN,                       \* _showAppsButton.checked
          text    : {"", " ", "term"},             \* of the entry
          search  : BOOLEAN,                       \* _searchActive
          icon    : BOOLEAN,                       \* _iconClickedId
          keys    : BOOLEAN,                       \* _stageKeyPressId
          spring  : {"no", "in", "out"},           \* what the grid's clones do
          paint   : BOOLEAN,                       \* the spring in waits for a paint
          outs    : 0..MaxOuts,                    \* handlers that wait for the spring out
          popup   : BOOLEAN,                       \* a folder is open in the grid
          closing : BOOLEAN,                       \* the spring out waits for its space
          wanted  : [Sliders -> BOOLEAN],          \* _visible
          inDrag  : [Sliders -> BOOLEAN],          \* _inDrag
          slide   : [Sliders -> {"none", "part", "full"}],   \* slide-x, or where it goes
          place   : [Sliders -> {"in", "between", "out"}],   \* translation-x
          goal    : [Sliders -> {"no", "in", "out"}],        \* of its ease
          left    : SUBSET Pages,                  \* still there when the overview opened
          missed  : SUBSET Sliders,                \* it goes on where it should have turned
          hover   : BOOLEAN, many : BOOLEAN,       \* over the thumbnails; workspaces are used
          dim     : BOOLEAN,                       \* fadeHalf()
          spacer  : BOOLEAN]                       \* _dashSpacer.visible

Init == vs = [at |-> "hidden", asked |-> FALSE, active |-> Nothing, on |-> {},
              opaque |-> [p \in Pages |-> TRUE], fade |-> [p \in Pages |-> "no"],
              checked |-> FALSE, text |-> "", search |-> FALSE, icon |-> FALSE, keys |-> FALSE,
              spring |-> "no", paint |-> FALSE, outs |-> 0, popup |-> FALSE, closing |-> FALSE,
              wanted |-> [d \in Sliders |-> TRUE], inDrag |-> [d \in Sliders |-> FALSE],
              slide |-> [d \in Sliders |-> "full"], place |-> [d \in Sliders |-> "in"],
              goal |-> [d \in Sliders |-> "no"], left |-> {}, missed |-> {}, hover |-> FALSE,
              many |-> FALSE, dim |-> FALSE, spacer |-> TRUE]
-----------------------------------------------------------------------------
Mapped(s) == s.at # "hidden"
Leaving(s) == s.at = "hiding"

\* _getSlide() of either slider, with _getAlwaysZoomOut()
Slide(s, d) ==
  CASE d = "dash" -> IF s.wanted[d] \/ s.inDrag[d] THEN "full" ELSE "none"
    [] d = "thumbnails" -> IF ~s.wanted[d] THEN "none"
                           ELSE IF s.hover \/ s.inDrag[d] \/ s.many THEN "full" ELSE "part"

UpdateSlide(s, d) == [s EXCEPT !.slide[d] = Slide(s, d)]

\* _updateTranslation(): a slider that is still where it should end is left alone, and so is
\* the ease that takes it away from there.
UpdateTranslation(s, d) ==
  LET end == IF Slide(s, d) = "none" THEN "out" ELSE "in"
      start == IF end = "in" THEN "out" ELSE "in"
  IN CASE s.place[d] = end -> [s EXCEPT !.missed = IF s.goal[d] = start THEN @ \cup {d} ELSE @]
       [] s.place[d] # end /\ Mapped(s) ->
            [s EXCEPT !.place[d] = start, !.goal[d] = end, !.missed = @ \ {d}]
       [] s.place[d] # end /\ ~Mapped(s) ->
            [s EXCEPT !.place[d] = end, !.goal[d] = "no", !.missed = @ \ {d}]

SlideIn(s, d) == [s EXCEPT !.wanted[d] = TRUE]
SlideOut(s, d) == UpdateTranslation([s EXCEPT !.wanted[d] = FALSE], d)

\* _updateSpacerVisibility()
UpdateSpacer(s) == IF Leaving(s) THEN s ELSE [s EXCEPT !.spacer = s.active = "windows"]

\* Mutant of PageEmpty: the slide is left to the next drag.
PageEmptyOnly(s) ==
  UpdateSpacer(UpdateTranslation(UpdateTranslation(s, "dash"), "thumbnails"))

\* _onPageEmpty() of a slider, and of both
SliderEmpty(s, d) == UpdateTranslation(UpdateSlide(s, d), d)
PageEmpty(s) == UpdateSpacer(SliderEmpty(SliderEmpty(s, "dash"), "thumbnails"))

\* 'page-changed': _setVisibility() of the controls
SetVisibility(s) ==
  LET Thumbnails(t) == IF s.active = "windows" THEN SlideIn(t, "thumbnails")
                       ELSE SlideOut(t, "thumbnails")
  IN IF Leaving(s) THEN s
     ELSE Thumbnails(IF s.active = "search" THEN SlideOut(s, "dash") ELSE SlideIn(s, "dash"))
-----------------------------------------------------------------------------
\* A page is hidden; the grid that is not mapped any more drops its clones.
HidePage(s, p) == [s EXCEPT !.on = @ \ {p}, !.left = @ \ {p},
                            !.spring = IF p = "apps" THEN "no" ELSE @]

\* What _animateIn() begins with
Emptied(s, old) ==
  LET Opened(t) == [t EXCEPT !.on = @ \cup {t.active}]
  IN Opened(PageEmpty(IF old = Nothing THEN s ELSE HidePage(s, old)))

\* Any ease or value of the opacity of p ends the fade that runs.
FadeIn(s) == IF Mapped(s) THEN [s EXCEPT !.fade[s.active] = "in"]
             ELSE [s EXCEPT !.fade[s.active] = "no", !.opaque[s.active] = TRUE]

\* Mutant of AnimateIn: the page that was there stays.
AnimateInOver(s, old) == FadeIn(Emptied(s, Nothing))

\* The active page may itself be fading out: to end that fade is to bring the page in once
\* more, before it is brought in.
Again(s) == IF s.fade[s.active] = "out"
            THEN FadeIn(Emptied([s EXCEPT !.fade[s.active] = "no"], s.active)) ELSE s

\* The page appears, the applications with their spring if they follow the windows.
Appear(s, old) ==
  IF s.active = "apps" /\ old = "windows"
  THEN [s EXCEPT !.opaque["apps"] = TRUE, !.fade["apps"] = "no", !.paint = TRUE] ELSE FadeIn(s)

\* _animateIn()
AnimateIn(s, old) == Appear(Again(Emptied(s, old)), old)

\* The opacity's transition is removed: a page that was leaving has left.
Unfaded(s, p) == IF s.fade[p] = "out" THEN AnimateIn([s EXCEPT !.fade[p] = "no"], p)
                 ELSE [s EXCEPT !.fade[p] = "no"]

SetOpacity(s, p, b) == [Unfaded(s, p) EXCEPT !.opaque[p] = b]

\* _fadePageOut(): a page that nobody sees has left at once.
FadeOut(s, p) == IF Mapped(s) /\ p \in s.on THEN [s EXCEPT !.fade[p] = "out"]
                 ELSE AnimateIn([s EXCEPT !.opaque[p] = FALSE], p)
FadePageOut(s, p) == FadeOut(Unfaded(s, p), p)

\* appDisplay.animate(OUT): an open folder closes first.
SpringOut(s) == IF s.popup THEN [s EXCEPT !.popup = FALSE, !.closing = TRUE]
                ELSE [s EXCEPT !.spring = "out", !.outs = @ + 1]

\* _animateOut()
AnimateOut(s, p) ==
  IF p = "apps" /\ s.active = "windows" /\ s.at = "shown" THEN SpringOut(s) ELSE FadePageOut(s, p)

\* The active page takes the place of old.
Replace(s, old) == IF old = Nothing THEN AnimateIn(s, Nothing) ELSE AnimateOut(s, old)

\* _showPage()
ShowPage(s, p) == IF ~Mapped(s) \/ p = s.active THEN s
                  ELSE Replace(SetVisibility([s EXCEPT !.active = p]), s.active)

\* The page that the button chooses
Home(s) == IF s.checked THEN "apps" ELSE "windows"
GoHome(s) == ShowPage(s, Home(s))

\* _onTextChanged(), with _searchCancelled(): text without a term is dropped.
TextChanged(s) ==
  LET isSearch == s.text = "term"
  IN [ShowPage([s EXCEPT !.search = isSearch, !.icon = isSearch],
               IF isSearch THEN "search" ELSE Home(s)) EXCEPT !.text = IF isSearch THEN @ ELSE ""]

\* reset()
Reset(s) == IF s.text = "" THEN s ELSE TextChanged([s EXCEPT !.text = ""])

\* _onShowAppsButtonToggled()
Check(s, b) == IF b = s.checked THEN s ELSE GoHome([s EXCEPT !.checked = b])
-----------------------------------------------------------------------------
\* _animateVisible() of the overview, with show() of the selector; then 'showing'
AnimateVisible(s) ==
  LET Forgotten(t) == [t EXCEPT !.active = Nothing, !.left = t.on \ {"windows"}]
  IN UpdateSpacer([GoHome(Forgotten(Reset([s EXCEPT !.at = "showing"]))) EXCEPT !.keys = TRUE])

\* _animateNotVisible(), with animateFromOverview() of the selector; then 'hiding'
AnimateNotVisible(s) ==
  SlideOut(SlideOut([Check(SetOpacity([s EXCEPT !.at = "hiding"], "windows", TRUE), FALSE)
                       EXCEPT !.keys = FALSE], "dash"), "thumbnails")

\* overview.show() and hide(): what is asked while it moves is done afterwards.
OverviewShow(s) == LET t == [s EXCEPT !.asked = TRUE]
                   IN IF ~s.asked /\ s.at = "hidden" THEN AnimateVisible(t) ELSE t
OverviewHide(s) == LET t == [s EXCEPT !.asked = FALSE]
                   IN IF s.asked /\ s.at = "shown" THEN AnimateNotVisible(t) ELSE t

Show == vs' = OverviewShow(vs)
Hide == vs' = OverviewHide(vs)

\* 'shown': the windows, which moved into place behind another page, go.
Shown(s) ==
  IF s.active = "windows" THEN [s EXCEPT !.at = "shown"]
  ELSE HidePage(SetOpacity([s EXCEPT !.at = "shown"], "windows", FALSE), "windows")

\* _showDone()
IfStillAsked(s) == IF s.asked THEN s ELSE AnimateNotVisible(s)
ShowDone == vs.at = "showing" /\ vs' = IfStillAsked(Shown(vs))

\* _hideDone(), with hide() of the selector. A fade that began late still runs.
IfAskedAgain(s) == IF s.asked THEN AnimateVisible(s) ELSE [s EXCEPT !.spring = "no"]
HideDone == vs.at = "hiding" /\ vs' = IfAskedAgain([Reset(vs) EXCEPT !.at = "hidden"])

Room == vs.outs < MaxOuts   \* bound: a spring out may begin

\* The dash's button, the switcher of groups, a key (_toggleAppsPage()) or showApps()
ToggleApps == Mapped(vs) /\ Room /\ vs' = Check(vs, ~vs.checked)
ToggleAppsPage == Room /\ vs' = OverviewShow(Check(vs, ~vs.checked))
ShowApps == vs' = OverviewShow(Check(vs, TRUE))

\* The drag from the edge goes to the applications, or back (EdgeDragAction).
EdgeDrag == vs' = IF Mapped(vs) THEN OverviewHide(vs) ELSE OverviewShow(Check(vs, TRUE))

\* The user types; text replaced by text without a term counts as dropped.
Type(t) == /\ vs.at \in {"showing", "shown"} /\ t # vs.text
           /\ vs' = TextChanged([vs EXCEPT !.text = t])

\* The icon that clears the text
IconClicked == vs.icon /\ vs' = Reset(vs)

\* _onKeyPress() of the entry: Escape drops the text, Return activates the first result,
\* which closes the overview.
EntryKey == \/ vs.text # "" /\ vs' = Reset(vs)
            \/ vs.search /\ vs' = OverviewHide(vs)

\* Escape on the stage (_onStageKeyPress())
Escape ==
  /\ vs.keys /\ Room
  /\ vs' = CASE vs.search -> Reset(vs)
             [] ~vs.search /\ vs.checked -> Check(vs, FALSE)
             [] ~vs.search /\ ~vs.checked -> OverviewHide(vs)
-----------------------------------------------------------------------------
\* Nothing ends before the next frame.
Framed == \A d \in Sliders : vs.goal[d] # "no" => vs.place[d] = "between"

\* A fade ends.
FadeEnds(p) ==
  /\ vs.fade[p] # "no" /\ Framed
  /\ vs' = LET t == [vs EXCEPT !.opaque[p] = vs.fade[p] = "in", !.fade[p] = "no"]
           IN IF vs.fade[p] = "out" THEN AnimateIn(t, p) ELSE t

\* 'paint' of the grid: its spring begins, over any other.
Painted == /\ vs.paint /\ Mapped(vs) /\ "apps" \in vs.on
           /\ vs' = [vs EXCEPT !.paint = FALSE, !.spring = "in"]

\* 'space-closed': the spring out begins, now that the folder is closed.
SpaceClosed == /\ vs.closing /\ Room
               /\ vs' = [vs EXCEPT !.closing = FALSE, !.spring = "out", !.outs = @ + 1]

\* 'animation-done': every handler is run, those of springs that were overtaken too.
SpringDone ==
  /\ vs.spring # "no" /\ Framed
  /\ LET t == [vs EXCEPT !.spring = "no", !.outs = 0]
     IN vs' = CASE vs.outs = 0 -> t
                [] vs.outs = 1 -> AnimateIn(t, "apps")
                [] vs.outs > 1 -> AnimateIn(AnimateIn(t, "apps"), "apps")

PopupOpens == /\ vs.active = "apps" /\ vs.at = "shown" /\ "apps" \in vs.on /\ ~vs.popup
              /\ vs' = [vs EXCEPT !.popup = TRUE]
PopupCloses == vs.popup /\ vs' = [vs EXCEPT !.popup = FALSE]
-----------------------------------------------------------------------------
\* The sliders move in the next frame; each arrives.
Frame == LET moving == {d \in Sliders : vs.goal[d] # "no" /\ vs.place[d] # "between"}
         IN /\ moving # {}
            /\ vs' = [vs EXCEPT !.place = [d \in Sliders |->
                        IF d \in moving THEN "between" ELSE @[d]]]
SliderArrives(d) == /\ vs.goal[d] # "no" /\ vs.place[d] = "between"
                    /\ vs' = [vs EXCEPT !.place[d] = vs.goal[d], !.goal[d] = "no"]

DragOn(s, d) == UpdateSlide(UpdateTranslation([s EXCEPT !.inDrag[d] = TRUE], d), d)

DragOff(s, d) == UpdateSlide([s EXCEPT !.inDrag[d] = FALSE], d)

\* 'item-drag-begin', and 'item-drag-end' or 'item-drag-cancelled'
ItemDrag(b) ==
  /\ Mapped(vs)
  /\ vs' = IF b THEN DragOn(DragOn(vs, "dash"), "thumbnails")
           ELSE DragOff(DragOff(vs, "dash"), "thumbnails")

\* Of a window the dash only makes way for the eye.
WindowDrag(b) ==
  /\ Mapped(vs)
  /\ vs' = [(IF b THEN DragOn(vs, "thumbnails") ELSE DragOff(vs, "thumbnails")) EXCEPT !.dim = b]

\* The pointer is over the thumbnails; the workspaces, or the monitors, change.
Hover(b) == Mapped(vs) /\ vs' = UpdateSlide([vs EXCEPT !.hover = b], "thumbnails")
UseWorkspaces(b) == vs' = UpdateSlide([vs EXCEPT !.many = b], "thumbnails")

Next ==
  \/ Show \/ Hide \/ ShowDone \/ HideDone \/ ToggleApps \/ ToggleAppsPage \/ ShowApps \/ EdgeDrag
  \/ IconClicked \/ EntryKey \/ Escape \/ Painted \/ SpaceClosed \/ SpringDone \/ Frame
  \/ PopupOpens \/ PopupCloses
  \/ \E t \in {"", " ", "term"} : Type(t)
  \/ \E p \in Pages : FadeEnds(p)
  \/ \E d \in Sliders : SliderArrives(d)
  \/ \E b \in BOOLEAN : ItemDrag(b) \/ WindowDrag(b) \/ Hover(b) \/ UseWorkspaces(b)

Spec == Init /\ [][Next]_vsVars
-----------------------------------------------------------------------------
\* The state is of the declared type.
TypeOK == vs \in State

\* Nothing moves any more: no fade, no spring, and nobody waits for one.
AtRest == /\ vs.at = "shown" /\ \A p \in Pages : vs.fade[p] = "no"
          /\ vs.outs = 0 /\ ~vs.closing /\ ~vs.paint

\* Whatever was asked meanwhile, once the pages have come to rest the overview shows the
\* active one alone, at full opacity; the search's page only while there is a search, the
\* others as the button says.
PageSettles ==
  AtRest => /\ vs.on \ (vs.left \ {vs.active}) = {vs.active}
            /\ vs.opaque[vs.active]
            /\ IF vs.active = "search" THEN vs.search ELSE vs.active = Home(vs)

\* By then the controls fit the page: each slider is as far out as it should be, and one that
\* shows is in its place or on its way there, unless it was turned back in the very frame in
\* which it left.
SlidersFollow ==
  AtRest => /\ \A d \in Sliders : /\ vs.slide[d] = Slide(vs, d)
                                  /\ (vs.slide[d] # "none" /\ d \notin vs.missed) =>
                                        "in" \in {vs.place[d], vs.goal[d]}
            /\ vs.wanted["thumbnails"] = (vs.active = "windows")
            /\ vs.spacer = (vs.active = "windows")
=============================================================================
