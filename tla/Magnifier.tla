----------------------------- MODULE Magnifier -----------------------------
(***************************************************************************)
(* The magnifier (magnifier.js), what it offers to other programs          *)
(* (magnifierDBus.js) and the events of the focus and the caret            *)
(* (focusCaretTracker.js): zoom regions that show a part of the screen     *)
(* enlarged, in a view port that takes the whole screen, one half or what  *)
(* was asked for, and follow the pointer, the focus or the caret.          *)
(* Lengths are chosen so that no quotient has a remainder.                 *)
(***************************************************************************)
EXTENDS Integers, Sequences, FiniteSets, SequencesExt

CONSTANTS Screens,      \* sizes of the screen
          Points,       \* where the pointer, the focus and the caret are
          Factors,      \* how much is magnified
          Rest,         \* POINTER_REST_TIME
          MaxRegions    \* bounds the regions that are made

VARIABLE mg   \* the magnifier

mgVars == <<mg>>

Axes == {"x", "y"}
Smaller(a, b) == IF a < b THEN a ELSE b
Larger(a, b) == IF a > b THEN a ELSE b
Pair(a, b) == [x |-> a, y |-> b]
Half(p) == [a \in Axes |-> p[a] \div 2]
Minus(p, q) == [a \in Axes |-> p[a] - q[a]]
Plus(p, q) == [a \in Axes |-> p[a] + q[a]]
NoTimer == [left |-> -1, to |-> Pair(0, 0)]

Ids == 1..MaxRegions
Modes == {"none", "centered", "proportional", "push"}
Positions == {"none", "full", "top", "bottom", "left", "right"}
Vectors == [Axes -> Int]
Hairs == [thickness : Nat, length : Nat, clip : Nat, size : Vectors,
          left : Int, right : Int, top : Int, bottom : Int]

Region == [active   : BOOLEAN,
           mouse    : Modes,                      \* _mouseTrackingMode
           focus    : Modes,
           caret    : Modes,
           clamp    : BOOLEAN,                    \* _clampScrollingAtEdges
           lens     : BOOLEAN,
           position : Positions,
           at       : Vectors,                    \* the view port
           size     : Vectors,
           factor   : Vectors,
           center   : Vectors,
           follows  : BOOLEAN,                    \* _followingCursor
           chosen   : BOOLEAN,                    \* history: followed since its mode was set
           timer    : [left : -1..Rest, to : Vectors],
           pointer  : {"none", "sprite", "clone"},   \* _mouseActor
           cross    : {"none", "hairs", "clone"},    \* _crossHairsActor
           pointerAt : Vectors,
           crossAt  : Vectors,
           cloneAt  : Vectors,                    \* the clone of all that is on the screen
           shade    : [brightness : BOOLEAN, contrast : BOOLEAN, inverted : BOOLEAN],
           effects  : [full : BOOLEAN, inverted : BOOLEAN]]   \* those that are enabled

State == [screen   : Screens,
          pointer  : Points,
          idle     : 0..Rest,               \* since it moved
          mouse    : Points,                \* xMouse, yMouse
          list     : Seq(Ids),              \* _zoomRegions
          regions  : Seq(Region),           \* all that were made
          exported : SUBSET Ids,            \* those that have a proxy
          lens     : BOOLEAN,               \* the setting
          hairs    : Hairs,
          shown    : BOOLEAN,               \* the pointer of the system
          watch    : BOOLEAN,               \* _pointerWatch
          handlers : 0..MaxRegions + 2,     \* of 'cursor-changed'
          direct   : 0..MaxRegions + 2,     \* calls of disable_unredirect_for_display()
          cleared  : BOOLEAN,               \* history: the list was cleared
          early    : BOOLEAN,               \* history: a region was added to an inactive one
          asked    : BOOLEAN]               \* history: a program showed or hid the pointer
-----------------------------------------------------------------------------
\* reCenter(): where the four hairs begin; the gap is not about their middle.
ReCenter(h) ==
  LET across == h.thickness \div 2 IN
  [h EXCEPT !.left = (h.size.x \div 2) - (h.clip \div 4) - h.length,
            !.right = (h.size.x \div 2) + 3 * (h.clip \div 4),
            !.top = (h.size.y \div 2) - (h.clip \div 4) - h.length - across,
            !.bottom = (h.size.y \div 2) + 3 * (h.clip \div 4) + across]

\* _monitorsChanged() of the crosshairs
HairsSized(h, screen) == ReCenter([h EXCEPT !.size = [a \in Axes |-> 3 * screen[a]]])

\* getROI(): its size; its middle is the center.
Roi(r) == [a \in Axes |-> r.size[a] \div r.factor[a]]

\* _isFullScreen(), _isMouseOverRegion()
IsFull(s, r) == r.at = Pair(0, 0) /\ r.size = s.screen
Over(s, r) == r.active /\ \A a \in Axes : s.mouse[a] >= r.at[a] /\ s.mouse[a] < r.at[a] + r.size[a]

\* _screenToViewPort()
ToPort(r, p) == [a \in Axes |-> (r.size[a] \div 2) + (p[a] - r.center[a]) * r.factor[a]]

\* _updateMousePosition()
PlacePointer(s, r) ==
  IF ~r.active THEN r
  ELSE [r EXCEPT !.pointerAt = ToPort(r, s.mouse),
                 !.crossAt = IF r.cross = "none" THEN @ ELSE Minus(ToPort(r, s.mouse), Half(s.hairs.size))]

\* _updateCloneGeometry()
PlaceClone(s, r) ==
  IF ~r.active THEN r ELSE PlacePointer(s, [r EXCEPT !.cloneAt = ToPort(r, Pair(0, 0))])

\* What _setViewPort() makes of a rectangle: it fits the screen.
Port(s, r, at, size) ==
  LET fits == [a \in Axes |-> Smaller(size[a], s.screen[a])]
  IN [r EXCEPT !.size = fits,
               !.at = [a \in Axes |-> Smaller(Larger(at[a], 0), s.screen[a] - fits[a])]]

\* _centerFromPointPush(), -Proportional(), -Centered(), for a pointer without a size
Push(r, p) ==
  [a \in Axes |-> LET half == Roi(r)[a] \div 2
                  IN Smaller(Larger(r.center[a], p[a] - half), p[a] + half)]
Proportional(s, r, p) ==
  [a \in Axes |->
     LET padding == Smaller(r.size.x, r.size.y) \div (5 * r.factor[a])
         half    == s.screen[a] \div 2
     IN p[a] - (((p[a] - half) * ((Roi(r)[a] \div 2) - padding)) \div half)]
From(s, r, mode, p) == CASE mode = "push" -> Push(r, p)
                         [] mode = "proportional" -> Proportional(s, r, p)
                         [] OTHER -> p

\* Mutant of Clamped: from the lower edge first.
ClampedLast(s, r) ==
  LET half == Half(Roi(r)) IN
  IF ~r.clamp THEN r
  ELSE [r EXCEPT !.center = [a \in Axes |-> Smaller(Larger(@[a], half[a]), s.screen[a])]]

\* With _clampScrollingAtEdges, nothing beyond the edges of the screen is shown.
Clamped(s, r) ==
  LET half == Half(Roi(r)) IN
  IF ~r.clamp THEN r
  ELSE [r EXCEPT !.center = [a \in Axes |-> Larger(Smaller(@[a], s.screen[a] - half[a]), half[a])]]

\* The region i as r; the pointer of the system is hidden when it is over it.
With(s, i, r) == [s EXCEPT !.regions[i] = r]
Hiding(s, i) == IF Over(s, s.regions[i]) THEN [s EXCEPT !.shown = FALSE] ELSE s

\* _changeROI(), the factors and the center of r set: a lens moves to what it shows.
ChangeROI(s, i, r, again) ==
  LET tracks == again /\ r.mouse # "none"
      Move(t) == IF t.lens /\ ~IsFull(s, t) THEN Port(s, t, Minus(t.center, Half(t.size)), t.size)
                 ELSE t
      Hide(t) == IF r.lens /\ ~IsFull(s, r) THEN Hiding(t, i) ELSE t
  IN Hide(With(s, i, PlaceClone(s, Move(Clamped(s,
       IF tracks THEN [r EXCEPT !.center = From(s, r, r.mouse, s.mouse), !.chosen = TRUE]
       ELSE r)))))

\* _setViewPort()
SetPort(s, i, r, at, size) == Hiding(ChangeROI(s, i, Port(s, r, at, size), r.follows), i)

\* setScreenPosition(); there is nothing to do for "none".
SetPosition(s, i, r, position) ==
  LET half == Half(s.screen)
      at   == CASE position = "bottom" -> Pair(0, half.y)
                [] position = "right" -> Pair(half.x, 0)
                [] OTHER -> Pair(0, 0)
      size == CASE position \in {"top", "bottom"} -> Pair(s.screen.x, half.y)
                [] position \in {"left", "right"} -> Pair(half.x, s.screen.y)
                [] OTHER -> s.screen
  IN IF position = "none" THEN With(s, i, r)
     ELSE SetPort(s, i, [r EXCEPT !.position = position], at, size)

\* _updateScreenPosition() of a region
UpdatePosition(s, i, r) ==
  IF r.position = "none" THEN SetPort(s, i, r, r.at, r.size) ELSE SetPosition(s, i, r, r.position)
-----------------------------------------------------------------------------
\* MagShaderEffects: one effect serves the brightness and the contrast.
Effects(shade) == [full |-> shade.brightness \/ shade.contrast, inverted |-> shade.inverted]

\* Who has the sprite of the pointer and the crosshairs, of which the others show clones.
Holds(s, f, what) == \E i \in DOMAIN s.regions : s.regions[i][f] = what

\* _createActors(), with the pointer and the crosshairs put in
Create(s, r) ==
  [r EXCEPT !.active = TRUE,
            !.pointer = IF Holds(s, "pointer", "sprite") THEN "clone" ELSE "sprite",
            !.cross = IF Holds(s, "cross", "hairs") THEN "clone" ELSE "hairs",
            !.effects = Effects(r.shade)]

\* _destroyActors()
Destroy(r) ==
  [r EXCEPT !.active = FALSE, !.pointer = "none", !.cross = "none",
            !.pointerAt = Pair(0, 0), !.crossAt = Pair(0, 0), !.cloneAt = Pair(0, 0)]

\* setActive() of a region
Activate(s, i) ==
  IF s.regions[i].active THEN s
  ELSE LET Placed(t) == With(t, i, PlaceClone(t, t.regions[i]))
           Shown(r) == UpdatePosition(IF Over(s, r) THEN [s EXCEPT !.shown = FALSE] ELSE s, i, r)
       IN Placed(Shown(Create(s, s.regions[i])))
Deactivate(s, i) == IF s.regions[i].active THEN With(s, i, Destroy(s.regions[i])) ELSE s

SetRegions(s, on) == FoldLeft(LAMBDA t, i : IF on THEN Activate(t, i) ELSE Deactivate(t, i), s, s.list)

\* isActive() of the magnifier: the first region tells.
IsActive(s) == s.list # <<>> /\ s.regions[s.list[1]].active

\* Mutant of SetActive: windows are drawn directly again only when the magnifier goes.
SetActiveOnly(s, on) ==
  LET change == IF on = IsActive(s) THEN 0 ELSE IF on THEN 1 ELSE -1
  IN [SetRegions(s, on) EXCEPT !.handlers = @ + change, !.direct = IF on THEN @ + change ELSE @,
                               !.watch = IF change = 0 THEN @ ELSE on, !.shown = @ \/ ~on]

\* setActive()
SetActive(s, on) ==
  LET change == IF on = IsActive(s) THEN 0 ELSE IF on THEN 1 ELSE -1
  IN [SetRegions(s, on) EXCEPT !.handlers = @ + change, !.direct = @ + change,
                               !.watch = IF change = 0 THEN @ ELSE on, !.shown = @ \/ ~on]

\* scrollToMousePos() of a region
Follow(s, i) ==
  LET r == [s.regions[i] EXCEPT !.follows = TRUE]
  IN IF r.mouse = "none" THEN With(s, i, PlacePointer(s, r)) ELSE ChangeROI(s, i, r, TRUE)

\* scrollContentsTo()
ScrollTo(s, i, p) ==
  ChangeROI(s, i, [s.regions[i] EXCEPT !.timer = NoTimer, !.follows = FALSE, !.center = p], FALSE)

\* _scrollContentsToDelayed(): not while the pointer moves
ScrollToDelayed(s, i, p) ==
  IF s.idle >= Rest THEN ScrollTo(s, i, p)
  ELSE [s EXCEPT !.regions[i].timer = [left |-> Rest, to |-> p]]
-----------------------------------------------------------------------------
NewRegion(screen) ==
  [active |-> FALSE, mouse |-> "none", focus |-> "none", caret |-> "none", clamp |-> FALSE,
   lens |-> FALSE, position |-> "full", at |-> Pair(0, 0), size |-> screen,
   factor |-> Pair(1, 1), center |-> Half(screen), follows |-> FALSE, chosen |-> FALSE,
   timer |-> NoTimer, pointer |-> "none", cross |-> "none", pointerAt |-> Pair(0, 0),
   crossAt |-> Pair(0, 0), cloneAt |-> Pair(0, 0),
   shade |-> [brightness |-> FALSE, contrast |-> FALSE, inverted |-> FALSE],
   effects |-> [full |-> FALSE, inverted |-> FALSE]]

Init ==
  \E screen \in Screens, p \in Points, f \in Factors :
    LET first == [NewRegion(screen) EXCEPT !.factor = Pair(f, f), !.mouse = "proportional",
                    !.focus = "proportional", !.caret = "proportional", !.clamp = TRUE, !.center = p]
        hairs == HairsSized([thickness |-> 8, length |-> 8, clip |-> 0, size |-> Pair(0, 0),
                             left |-> 0, right |-> 0, top |-> 0, bottom |-> 0], screen)
        s == [screen |-> screen, pointer |-> p, idle |-> 0, mouse |-> p, list |-> <<1>>,
              regions |-> <<first>>, exported |-> {}, lens |-> FALSE, hairs |-> hairs,
              shown |-> TRUE, watch |-> FALSE, handlers |-> 0, direct |-> 0, cleared |-> FALSE,
              early |-> FALSE, asked |-> FALSE]
    IN (\A a \in Axes : p[a] < screen[a]) /\ mg = ScrollTo(s, 1, p)

\* Whether the magnifier is switched on or off, by the setting or over D-Bus.
Switched(on) == (on => mg.direct <= MaxRegions) /\ mg' = SetActive(mg, on)

PointerMoves(p) == /\ p # mg.pointer /\ \A a \in Axes : p[a] < mg.screen[a]
                   /\ mg' = [mg EXCEPT !.pointer = p, !.idle = 0]

\* scrollToMousePos(), called by the pointer watcher
Watched ==
  /\ mg.watch /\ mg.mouse # mg.pointer
  /\ LET s == FoldLeft(Follow, [mg EXCEPT !.mouse = mg.pointer], mg.list)
     IN mg' = [s EXCEPT !.shown = ~\E i \in ToSet(s.list) : Over(s, s.regions[i])]

Tick == /\ \A i \in DOMAIN mg.regions : mg.regions[i].timer.left # 0
        /\ \/ mg.idle < Rest
           \/ \E i \in DOMAIN mg.regions : mg.regions[i].timer.left > 0
        /\ mg' = [mg EXCEPT !.idle = Smaller(@ + 1, Rest),
                            !.regions = [i \in DOMAIN @ |-> IF @[i].timer.left > 0
                                           THEN [@[i] EXCEPT !.timer.left = @ - 1] ELSE @[i]]]

\* Whether the region listens to the events of the focus, or of the caret
Listens(i, f) == i \in DOMAIN mg.regions /\ mg.regions[i].active /\ mg.regions[i][f] # "none"

\* 'focus-changed', 'caret-moved'
FocusMoves(i, p) ==
  Listens(i, "focus") /\ mg' = ScrollToDelayed(mg, i, From(mg, mg.regions[i], mg.regions[i].focus, p))
CaretMoves(i, p) ==
  Listens(i, "caret") /\ mg' = ScrollToDelayed(mg, i, From(mg, mg.regions[i], mg.regions[i].caret, p))

\* The timeout of _scrollContentsToDelayed(); the region may have been destroyed.
TimerFires(i) == /\ i \in DOMAIN mg.regions /\ mg.regions[i].timer.left = 0
                 /\ mg' = ScrollToDelayed(mg, i, mg.regions[i].timer.to)

\* The monitors change; the crosshairs hear of it before the regions, which do so if active.
MonitorsChanged(screen, p) ==
  /\ screen # mg.screen /\ \A a \in Axes : p[a] < screen[a]
  /\ LET s == [mg EXCEPT !.screen = screen, !.pointer = p, !.hairs = HairsSized(@, screen)]
         Update(t, i) == IF t.regions[i].active
                         THEN UpdatePosition(t, i, t.regions[i]) ELSE t
     IN mg' = FoldLeft(Update, s, [i \in DOMAIN mg.regions |-> i])
-----------------------------------------------------------------------------
\* The settings are about the first region.
First(s) == s.regions[s.list[1]]

\* setLensMode()
LensMode(s, i, on) ==
  LET r == [s.regions[i] EXCEPT !.lens = on]
  IN IF on THEN With(s, i, r) ELSE SetPosition(s, i, r, r.position)

PositionSet(position) ==
  /\ mg.list # <<>>
  /\ LET s == SetPosition(mg, mg.list[1], First(mg), position)
     IN mg' = IF position = "full" THEN s ELSE LensMode(s, mg.list[1], mg.lens)

LensSet == mg.list # <<>> /\ mg' = LensMode([mg EXCEPT !.lens = ~@], mg.list[1], ~mg.lens)

ClampSet == /\ mg.list # <<>>
            /\ LET r == [First(mg) EXCEPT !.clamp = ~@]
               IN mg' = IF r.clamp THEN ChangeROI(mg, mg.list[1], r, FALSE) ELSE With(mg, mg.list[1], r)

\* Mutant of Magnified: the view is enlarged about its middle.
MagnifiedMiddle(s, i, f) == ChangeROI(s, i, [s.regions[i] EXCEPT !.factor = f], FALSE)

\* setMagFactor()
Magnified(s, i, f) == ChangeROI(s, i, [s.regions[i] EXCEPT !.factor = f], s.regions[i].follows)

FactorSet(f) == mg.list # <<>> /\ mg' = Magnified(mg, mg.list[1], Pair(f, f))

MouseModeSet(mode) == /\ mg.list # <<>>
                      /\ mg' = With(mg, mg.list[1], [First(mg) EXCEPT !.mouse = mode, !.chosen = FALSE])
FocusModeSet(mode) == mg.list # <<>> /\ mg' = With(mg, mg.list[1], [First(mg) EXCEPT !.focus = mode])
CaretModeSet(mode) == mg.list # <<>> /\ mg' = With(mg, mg.list[1], [First(mg) EXCEPT !.caret = mode])

\* Mutant of Shaded: the contrast alone decides.
ShadedAlone(r, shade) ==
  [r EXCEPT !.shade = shade, !.effects = IF r.active THEN [Effects(shade) EXCEPT !.full = shade.contrast] ELSE @]

\* setBrightness(), setContrast(), setInvertLightness()
Shaded(r, shade) == [r EXCEPT !.shade = shade, !.effects = IF r.active THEN Effects(shade) ELSE @]
ShadeSet(f) ==
  mg.list # <<>> /\ mg' = With(mg, mg.list[1], Shaded(First(mg), [First(mg).shade EXCEPT ![f] = ~@]))

\* setCrosshairsThickness(), -Length(), -Clip()
HairsSet(f, n) == mg.hairs[f] # n /\ mg' = [mg EXCEPT !.hairs = ReCenter([mg.hairs EXCEPT ![f] = n])]
-----------------------------------------------------------------------------
\* Over D-Bus: createZoomRegion(), addZoomRegion(), getZoomRegions(), clearAllZoomRegions()
CreateZoomRegion(f, p, at, size) ==
  /\ Len(mg.regions) < MaxRegions
  /\ LET i == Len(mg.regions) + 1
         s == [mg EXCEPT !.regions = Append(@, NewRegion(mg.screen)), !.exported = @ \cup {i}]
         t == SetPort(s, i, s.regions[i], at, size)
     IN mg' = ChangeROI(t, i, [t.regions[i] EXCEPT !.position = "none", !.factor = f,
                                 !.center = Plus(p, [a \in Axes |-> size[a] \div (2 * f[a])])], FALSE)

AddZoomRegion(i) == /\ i \in mg.exported /\ Len(mg.list) < MaxRegions
                    /\ mg' = [mg EXCEPT !.list = Append(@, i), !.watch = TRUE,
                                        !.early = @ \/ ~IsActive(mg)]
GetZoomRegions == mg' = [mg EXCEPT !.exported = @ \cup ToSet(mg.list)]
ClearAllZoomRegions ==
  mg' = [FoldLeft(Deactivate, mg, mg.list) EXCEPT !.list = <<>>, !.exported = {}, !.watch = FALSE,
                                                  !.shown = TRUE, !.cleared = TRUE]

\* showCursor(), hideCursor()
ShowCursor(on) == mg' = [mg EXCEPT !.shown = on, !.asked = TRUE]

\* setMagFactor(), setRoi() for the factor f, shiftContentsTo(), moveResize() of a region
ProxySetsFactor(i, f) == i \in mg.exported /\ mg' = Magnified(mg, i, f)
ProxySetsRoi(i, p, f) ==
  /\ i \in mg.exported
  /\ LET r == mg.regions[i]
         middle == Plus(p, [a \in Axes |-> r.size[a] \div (2 * f[a])])
     IN mg' = ChangeROI(mg, i, [r EXCEPT !.follows = FALSE, !.factor = f, !.center = middle], FALSE)
ProxyShifts(i, p) == i \in mg.exported /\ mg' = ScrollTo(mg, i, p)
ProxyMoves(i, at, size) ==
  /\ i \in mg.exported
  /\ LET s == SetPort(mg, i, mg.regions[i], at, size)
     IN mg' = With(s, i, [s.regions[i] EXCEPT !.position = "none"])

Next ==
  \/ Watched \/ Tick \/ LensSet \/ ClampSet \/ GetZoomRegions \/ ClearAllZoomRegions
  \/ \E b \in BOOLEAN : Switched(b) \/ ShowCursor(b)
  \/ \E p \in Points : PointerMoves(p) \/ \E screen \in Screens : MonitorsChanged(screen, p)
  \/ \E i \in Ids, p \in Points :
       \/ FocusMoves(i, p) \/ CaretMoves(i, p) \/ ProxyShifts(i, p)
       \/ \E f \in Factors, g \in Factors : ProxySetsRoi(i, p, Pair(f, g))
       \/ \E screen \in Screens : ProxyMoves(i, p, Half(screen))
  \/ \E i \in Ids :
       \/ TimerFires(i) \/ AddZoomRegion(i)
       \/ \E f \in Factors, g \in Factors : ProxySetsFactor(i, Pair(f, g))
  \/ \E p \in Positions : PositionSet(p)
  \/ \E f \in Factors : FactorSet(f)
  \/ \E m \in Modes : MouseModeSet(m) \/ FocusModeSet(m) \/ CaretModeSet(m)
  \/ \E f \in {"brightness", "contrast", "inverted"} : ShadeSet(f)
  \/ \E f \in {"thickness", "length", "clip"}, n \in {0, 8} : HairsSet(f, n)
  \/ \E f \in Factors, p \in Points, screen \in Screens :
       CreateZoomRegion(Pair(f, f), p, p, Half(screen))

Spec == Init /\ [][Next]_mgVars
-----------------------------------------------------------------------------
TypeOK == mg \in State

Regions == {mg.regions[i] : i \in DOMAIN mg.regions}
Inside(s, at, size) == \A a \in Axes : at[a] >= 0 /\ at[a] + size[a] <= s.screen[a]

\* A region that is shown is on the screen, whatever became of the monitors while it was not,
\* and shows nothing beyond the edges if it is not to.
FitsScreen ==
  \A r \in Regions : r.active =>
    /\ Inside(mg, r.at, r.size)
    /\ r.clamp => Inside(mg, Minus(r.center, Half(Roi(r))), Roi(r))

\* What a region shows, the pointer and the crosshairs in it are put where the pointer is
\* known to be; the hairs meet around it, with a gap of the size that was asked for; and the
\* colors are what was asked for, also of a region that was made since.
PointerInPlace ==
  /\ \A r \in Regions : r.active =>
       /\ r.pointerAt = ToPort(r, mg.mouse) /\ r.cloneAt = ToPort(r, Pair(0, 0))
       /\ Plus(r.crossAt, Half(mg.hairs.size)) = r.pointerAt
       /\ r.effects = Effects(r.shade)
  /\ mg.hairs.right - (mg.hairs.left + mg.hairs.length) = mg.hairs.clip
  /\ mg.hairs.bottom - (mg.hairs.top + mg.hairs.length) = mg.hairs.clip + mg.hairs.thickness
  /\ mg.hairs.left + mg.hairs.length <= (3 * mg.screen.x) \div 2 /\ mg.hairs.right >= (3 * mg.screen.x) \div 2

\* A region that follows the pointer shows it, once it has moved in the mode that is set.
PointerSeen ==
  \A r \in Regions : r.active /\ r.follows /\ r.chosen =>
    \A a \in Axes : mg.mouse[a] \in 0..mg.screen[a] =>
      mg.mouse[a] - r.center[a] \in -(Roi(r)[a] \div 2)..(Roi(r)[a] \div 2)

\* Of the regions that are shown one has the pointer and the crosshairs themselves. Nothing
\* is left of a magnifier that was switched off, as long as no program has cleared its list.
OneOriginal ==
  /\ \A f \in {"pointer", "cross"} :
       Cardinality({i \in DOMAIN mg.regions : mg.regions[i][f] \in {"sprite", "hairs"}})
         = IF \E r \in Regions : r.active THEN 1 ELSE 0
  /\ \A r \in Regions : r.active <=> r.pointer # "none"
  /\ ~mg.cleared => /\ mg.direct = mg.handlers
                    /\ mg.direct = IF IsActive(mg) THEN 1 ELSE 0
                    /\ IsActive(mg) => mg.watch
                    /\ mg.watch => IsActive(mg) \/ mg.early
  /\ ~mg.asked /\ ~(\E r \in Regions : r.active) => mg.shown
=============================================================================
