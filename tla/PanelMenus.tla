----------------------------- MODULE PanelMenus -----------------------------
(***************************************************************************)
(* The panel and its menus: which indicators a session mode shows and in   *)
(* which box (panel.js), the manager that keeps one menu open and grabs    *)
(* for it, the box pointers that rise and fall (popupMenu.js,              *)
(* boxpointer.js), the items of a menu with a section and two submenus,    *)
(* and the button of the focused application.                              *)
(***************************************************************************)
EXTENDS Integers, Sequences, SequencesExt, FiniteSets

CONSTANTS Extra,      \* the roles that extensions register indicators for
          Apps,       \* applications
          Actioned    \* those whose desktop files have actions, "new-window" among them

VARIABLE pm   \* the panel, its menus, and the application it shows

pmVars == <<pm>>

None == "none"

\* PANEL_ITEM_IMPLEMENTATIONS, and what sessionMode.js puts where
BuiltIn == {"activities", "appMenu", "dateMenu", "aggregateMenu"}
Roles == BuiltIn \cup Extra
Menus == Roles \ {"activities"}      \* whose menu is not a dummy
Boxes == {"left", "center", "right"}
Modes == {"user", "gdm", "lock-screen"}
Panels(mode, b) ==
  CASE b = "left" -> IF mode = "user" THEN <<"activities", "appMenu">> ELSE <<>>
    [] b = "center" -> IF mode = "lock-screen" THEN <<>> ELSE <<"dateMenu">>
    [] b = "right" -> <<"aggregateMenu">>

\* The aggregate menu: the item "a" and a section with the item "b". Each has a submenu, which
\* goes by its name, with one item of its own.
Items == {"a", "b", "x", "y"}
Subs == {"a", "b"}
Containers == Subs \cup {"menu", "section"}
Of(i) == CASE i = "a" -> "menu" [] i = "b" -> "section" [] i = "x" -> "a" [] i = "y" -> "b"
Above(c) == {c, "menu"} \cup (IF c = "b" THEN {"section"} ELSE {})   \* what 'active-changed' reaches
Inside(c) == {i \in Items : c \in Above(Of(i))}

Rows == {2, 4, 6, 8, 10}      \* of the application's menu: windows, new window, actions, ...
Separators == <<3, 5, 7, 9>>  \* between them; the heading, 1, has a text and stays

State == [mode   : Modes,
          area   : SUBSET Roles,                   \* statusArea
          box    : [Boxes -> Seq(Roles)],          \* the containers in each box
          unseen : SUBSET Roles,                   \* the containers that are hidden
          gone   : SUBSET Roles,                   \* the buttons that are
          corner : Roles \cup {None},              \* what the left corner follows
          align  : Boxes, blocked : BOOLEAN,       \* bannerAlignment, bannerBlocked
          open   : SUBSET Menus,                   \* isOpen
          point  : [Menus -> {"hidden", "rising", "shown", "falling"}],   \* the box pointers
          grabs  : Seq(Roles),                     \* the manager's grabStack
          free   : SUBSET Menus,                   \* open although the grab was refused
          orphan : BOOLEAN,                        \* the banner followed a menu that is gone, or had no grab
          live   : SUBSET Items, active : SUBSET Items,
          act    : [Containers -> Items \cup {None}],   \* _activeMenuItem
          focus  : Items \cup {None}, hover : Items \cup {None},
          subs   : SUBSET Subs, opened : Subs \cup {None},   \* open; _openedSubMenu
          slide  : [Subs -> {"hidden", "opening", "shown", "closing"}],
          sens   : SUBSET (Items \cup Containers), \* _sensitive
          react  : SUBSET Items,                   \* reactive
          late   : SUBSET Items,                   \* added after its menu became insensitive
          run    : [Apps -> {"stopped", "starting", "running"}],
          here   : SUBSET Apps, busy : SUBSET Apps, focused : Apps \cup {None},
          start  : Seq(Apps),                      \* _startingApps
          target : Apps \cup {None}, app : Apps \cup {None},   \* _targetApp; _app of the menu
          vis    : BOOLEAN, ready : BOOLEAN,       \* _visible; reactive
          fade   : {"no", "in", "out"}, over : BOOLEAN,   \* overview.visibleTarget
          stale  : BOOLEAN,                        \* a loss of focus was ignored
          rows   : SUBSET Rows, seps : SUBSET Range(Separators),
          asOf   : SUBSET Rows,                    \* the rows that the separators fit
          xdnd   : BOOLEAN]                        \* _xdndTimeOut

Init == pm = [mode |-> "user", area |-> BuiltIn, box |-> [b \in Boxes |-> Panels("user", b)],
              unseen |-> {}, gone |-> {"appMenu"}, corner |-> "activities", align |-> "center",
              blocked |-> FALSE, open |-> {}, point |-> [m \in Menus |-> "hidden"],
              grabs |-> <<>>, free |-> {}, orphan |-> FALSE, live |-> Items, active |-> {},
              act |-> [c \in Containers |-> None], focus |-> None, hover |-> None, subs |-> {},
              opened |-> None, slide |-> [i \in Subs |-> "hidden"],
              sens |-> Items \cup Containers, react |-> Items, late |-> {},
              run |-> [a \in Apps |-> "stopped"], here |-> {}, busy |-> {}, focused |-> None,
              start |-> <<>>, target |-> None, app |-> None, vis |-> FALSE, ready |-> FALSE,
              fade |-> "no", over |-> FALSE, stale |-> FALSE, rows |-> {4, 8, 10},
              seps |-> {3, 5, 7, 9}, asOf |-> {}, xdnd |-> FALSE]
-----------------------------------------------------------------------------
(***************************************************************************)
(* The items of the aggregate menu.                                        *)
(***************************************************************************)
\* item.active = false: every menu above forgets its active item, whichever that is.
Deactivate(s, i) ==
  LET lost == {i} \cup {s.act[c] : c \in Above(Of(i))}
  IN CASE i \notin s.active -> s
       [] i \in s.active /\ s.act[Of(i)] # i -> [s EXCEPT !.active = @ \ {i}]
       [] i \in s.active /\ s.act[Of(i)] = i ->
            [s EXCEPT !.active = @ \ lost,
                      !.act = [c \in Containers |->
                                 IF c \in Above(Of(i)) \/ @[c] \in lost THEN None ELSE @[c]]]

DeactivateAll(s, I) == FoldLeft(Deactivate, s, SetToSeq(I))

\* Mutant of Unfocus: the item that has lost the focus is still active.
UnfocusOnly(s) == [s EXCEPT !.focus = None]

\* The key focus goes elsewhere.
Unfocus(s) == [(IF s.focus = None THEN s ELSE Deactivate(s, s.focus)) EXCEPT !.focus = None]

\* item.active = true takes the focus, then tells the menus above.
Activate(s, i) ==
  LET Alone(t) == DeactivateAll(t, {t.act[c] : c \in Above(Of(i))} \ {None, i})
  IN IF i \in s.active THEN s
     ELSE [Alone(IF s.focus = i THEN s ELSE Unfocus(s)) EXCEPT
             !.active = @ \cup {i}, !.focus = i,
             !.act = [c \in Containers |-> IF c \in Above(Of(i)) THEN i ELSE @[c]]]

\* Actors that are unmapped have neither the focus nor the pointer.
Unmap(s, I) ==
  LET Left(t) == IF t.hover \in I THEN [Deactivate(t, t.hover) EXCEPT !.hover = None] ELSE t
  IN Left(IF s.focus \in I THEN Unfocus(s) ELSE s)

\* PopupSubMenu.close(): the top menu, which is told, closes the one it has open.
CloseSub(s, i, slowly) ==
  LET shut == {i, s.opened} \cap s.subs
      fast == IF slowly THEN {} ELSE {i}
      Shut == DeactivateAll([s EXCEPT !.subs = @ \ shut, !.opened = None],
                            {s.act[j] : j \in shut} \ {None})
  IN IF i \notin s.subs THEN s
     ELSE Unmap([Shut EXCEPT !.slide = [j \in Subs |->
                   CASE j \in fast -> "hidden" [] j \in shut \ fast -> "closing" [] OTHER -> @[j]]],
                UNION {Inside(j) : j \in fast})

CloseAllSubs(s) == FoldLeft(LAMBDA t, i : CloseSub(t, i, FALSE), s, <<"a", "b">>)

\* Mutant of OpenSub: the submenu that was open is not told.
OpenSubToo(s, i, scroll) ==
  IF i \in s.subs \/ Inside(i) \cap s.live = {} THEN s
  ELSE [s EXCEPT !.subs = @ \cup {i}, !.opened = i, !.slide[i] = IF scroll THEN "shown" ELSE "opening"]

\* PopupSubMenu.open(), with _setOpenedSubMenu()
OpenSub(s, i, scroll) ==
  LET t == IF s.opened = None THEN s ELSE CloseSub(s, s.opened, TRUE)
  IN IF i \in s.subs \/ Inside(i) \cap s.live = {} THEN s
     ELSE [t EXCEPT !.subs = @ \cup {i}, !.opened = i,
                    !.slide[i] = IF scroll THEN "shown" ELSE "opening"]
-----------------------------------------------------------------------------
(***************************************************************************)
(* Menus that open and close, and the grab of their manager.               *)
(***************************************************************************)
BoxOf(s, r) == {b \in Boxes : r \in Range(s.box[b])}

\* Panel._onMenuSet(): the menus of the banner's box keep the banner away.
Block(s, r, isOpen) == IF s.align \in BoxOf(s, r) THEN [s EXCEPT !.blocked = isOpen, !.orphan = FALSE]
                       ELSE s

\* Mutant of Separated: what is before the separator does not matter.
SeparatedAfter(seen, i) ==
  LET after == CHOOSE j \in seen : j > i /\ \A k \in seen : k > i => k >= j
  IN IF after \in Rows THEN seen \cup {i} ELSE seen \ {i}

\* _updateSeparatorVisibility() of the i-th child, where the children in seen are visible
Separated(seen, i) ==
  LET before == CHOOSE j \in seen : j < i /\ \A k \in seen : k < i => k <= j
      after == CHOOSE j \in seen : j > i /\ \A k \in seen : k > i => k >= j
  IN IF before \in Rows /\ after \in Rows THEN seen \cup {i} ELSE seen \ {i}

\* 'open-state-changed' reaches the separators of the application's menu one by one.
Separate(s) ==
  LET seen == FoldLeft(Separated, {1} \cup s.rows \cup s.seps, Separators)
  IN [s EXCEPT !.seps = seen \cap Range(Separators), !.asOf = s.rows]

\* ungrab(): the focus goes back to where it was before.
Ungrab(s, r) ==
  LET t == [s EXCEPT !.grabs = SelectSeq(@, LAMBDA g : g # r)]
  IN IF r = "aggregateMenu" /\ r \in Range(s.grabs) THEN Unfocus(t) ELSE t

\* 'open-state-changed' with FALSE
Closed(s, r) ==
  LET t == IF r = "appMenu" THEN Separate(s) ELSE s
  IN Block(Ungrab(t, r), r, FALSE)

\* 'menu-closed'
Fallen(s, r) ==
  LET t == [s EXCEPT !.point[r] = "hidden"]
  IN IF r = "aggregateMenu" THEN Unmap(CloseAllSubs(t), Items) ELSE t

\* PopupMenu.close(), with BoxPointer.close(); the dummy's only emits.
Close(s, r, slowly) ==
  LET Fall(t) == CASE t.point[r] = "hidden" -> t
                   [] t.point[r] # "hidden" /\ slowly -> [t EXCEPT !.point[r] = "falling"]
                   [] t.point[r] # "hidden" /\ ~slowly -> Fallen(t, r)
      Shut(u) == IF r \notin u.open THEN u
                 ELSE [Closed([u EXCEPT !.open = @ \ {r}, !.free = @ \ {r}], r) EXCEPT
                         !.orphan = @ \/ r \in s.free]
  IN IF r = "activities" THEN Closed(s, r)
     ELSE Shut(Fall(IF r = "aggregateMenu" /\ s.act["menu"] # None
                    THEN Deactivate(s, s.act["menu"]) ELSE s))

\* The menu that has the grab closes.
Yield(s) == IF s.grabs # <<>> THEN Close(s, Head(s.grabs), TRUE) ELSE s

\* Mutant of Opened: the panel hears of the menu before the manager does.
OpenedFirst(s, r, granted) ==
  LET Grab(u) == IF granted THEN [u EXCEPT !.grabs = Append(@, r)]
                 ELSE IF r = "activities" THEN u ELSE [u EXCEPT !.free = @ \cup {r}]
  IN Grab(Yield(Block(s, r, TRUE)))

\* _onMenuOpenState() with TRUE: the menu that had the grab closes; the grab may be refused.
Opened(s, r, granted) ==
  LET Grab(u) == IF granted THEN [Unfocus(u) EXCEPT !.grabs = Append(@, r)]
                 ELSE IF r = "activities" THEN u ELSE [u EXCEPT !.free = @ \cup {r}]
  IN Block(Grab(Yield(IF r = "appMenu" THEN Separate(s) ELSE s)), r, TRUE)

IsEmpty(s, r) == r = "appMenu" /\ s.app = None

\* PopupMenu.open(), with BoxPointer.open(). While a menu has the grab, others are only taken away.
Open(s, r, granted) ==
  IF r # "activities" /\ (r \in s.open \/ IsEmpty(s, r)) THEN s
  ELSE Opened(IF r = "activities" THEN s
              ELSE [s EXCEPT !.open = @ \cup {r}, !.point[r] = "rising"], r, granted)

Toggle(s, r, granted) == IF r = "activities" THEN s
                         ELSE IF r \in s.open THEN Close(s, r, TRUE) ELSE Open(s, r, granted)

\* The button is there for the user.
Usable(s, r) == /\ r \in s.area /\ r \notin s.unseen \cup s.gone
                /\ r = "appMenu" => s.ready

Press(r, granted) == Usable(pm, r) /\ pm' = Toggle(pm, r, granted)

\* _onKeyPress() of the source: Escape closes the menu at once, Down opens it.
SourceKey(r, granted) ==
  /\ Usable(pm, r) /\ r # "activities" /\ r \notin Range(pm.grabs)
  /\ pm' = IF r \in pm.open THEN Close(pm, r, FALSE) ELSE Open(pm, r, granted)

\* _onMenuSourceEnter(): the pointer, or the focus, goes from one source to another.
SourceEnter(r, granted) ==
  /\ Usable(pm, r) /\ pm.grabs # <<>> /\ r \notin Range(pm.grabs)
  /\ pm' = Open(pm, r, granted)

\* Escape, or a click outside: the grab is gone before the menu closes.
UserUngrabs ==
  /\ pm.grabs # <<>>
  /\ LET r == Last(pm.grabs) IN pm' = Unfocus(Close([pm EXCEPT !.grabs = Front(@)], r, TRUE))

\* A key binding (_toggleMenu()), or closeCalendar()
KeyBinding(r, granted) == Usable(pm, r) /\ r \in {"appMenu", "dateMenu"} /\ pm' = Toggle(pm, r, granted)
CloseCalendar == pm' = Close(pm, "dateMenu", FALSE)

\* The box pointer has risen, or fallen.
Pointed(r) ==
  \/ pm.point[r] = "rising" /\ pm' = [pm EXCEPT !.point[r] = "shown"]
  \/ pm.point[r] = "falling" /\ pm' = Fallen(pm, r)
-----------------------------------------------------------------------------
(***************************************************************************)
(* The panel's boxes.                                                      *)
(***************************************************************************)
\* _addToPanelBox(): what is put at the place of a mode comes last.
Put(s, r, b, first) ==
  LET rest == [c \in Boxes |-> SelectSeq(s.box[c], LAMBDA q : q # r)]
  IN [s EXCEPT !.area = @ \cup {r}, !.unseen = @ \ {r},
               !.box = [rest EXCEPT ![b] = IF first THEN <<r>> \o @ ELSE Append(@, r)]]

UpdateBox(s, b) == FoldLeft(LAMBDA t, r : Put(t, r, b, FALSE), s, Panels(s.mode, b))

\* setStyleParent(): only the first container that is not hidden is looked into.
SetStyleParent(s) ==
  LET seen == SelectSeq(s.box["left"], LAMBDA r : r \notin s.unseen)
  IN IF seen # <<>> /\ Head(seen) \notin s.gone THEN [s EXCEPT !.corner = Head(seen)] ELSE s

\* Mutant of UpdatePanel: what the last mode showed stays.
UpdatePanelOnly(s) == SetStyleParent(UpdateBox(UpdateBox(UpdateBox(s, "left"), "center"), "right"))

\* _updatePanel()
UpdatePanel(s) ==
  LET t == [s EXCEPT !.unseen = @ \cup (s.area \cap BuiltIn)]
      u == UpdateBox(UpdateBox(UpdateBox(t, "left"), "center"), "right")
      at == {b \in {"left", "right"} : Contains(Panels(s.mode, b), "dateMenu")}
  IN SetStyleParent([u EXCEPT !.align = IF at = {} THEN "center" ELSE CHOOSE b \in at : TRUE])

\* 'updated': the panel comes first, then every menu closes (_sessionUpdated()).
SetMode(m) ==
  /\ m # pm.mode
  /\ pm' = FoldLeft(LAMBDA s, r : Close(s, r, FALSE), UpdatePanel([pm EXCEPT !.mode = m]),
                    SetToSeq(Menus))

\* addToStatusArea(), which throws when there is one for the role
AddToStatusArea(r, b) ==
  /\ r \notin pm.area
  /\ pm' = [Put(pm, r, b, TRUE) EXCEPT !.gone = @ \ {r}]

\* The button is destroyed: its container first, so that the banner does not hear of its menu.
Destroy(r) ==
  /\ r \in pm.area \cap Extra
  /\ LET s == [pm EXCEPT !.box = [b \in Boxes |-> SelectSeq(@[b], LAMBDA q : q # r)],
                         !.corner = IF @ = r THEN None ELSE @,
                         !.orphan = @ \/ (r \in pm.open /\ pm.align \in BoxOf(pm, r))]
     IN pm' = [Close(s, r, FALSE) EXCEPT !.area = @ \ {r}, !.unseen = @ \ {r}]

\* vfunc_hide() of a button: its menu closes.
HideButton(s, r) == Close([s EXCEPT !.gone = @ \cup {r}], r, FALSE)

ShowHide(r) == /\ r \in pm.area \cap Extra
               /\ pm' = IF r \in pm.gone THEN [pm EXCEPT !.gone = @ \ {r}] ELSE HideButton(pm, r)
-----------------------------------------------------------------------------
(***************************************************************************)
(* What the user and the system do with the items of the aggregate menu.   *)
(***************************************************************************)
\* getSensitive()
Sensitive(s, i) == /\ {i} \cup Above(Of(i)) \subseteq s.sens
                   /\ Of(i) \in Subs => Of(i) \in s.sens

\* The item can be seen, and is not behind a box pointer that moves.
Reachable(s, i) == /\ i \in s.live \cap s.react /\ s.point["aggregateMenu"] = "shown"
                   /\ Of(i) \in Subs => s.slide[Of(i)] # "hidden"

HoverEnds(s) == IF s.hover = None THEN s ELSE [Deactivate(s, s.hover) EXCEPT !.hover = None]

HoverLeaves == pm.hover # None /\ pm.point["aggregateMenu"] = "shown" /\ pm' = HoverEnds(pm)
HoverEnters(i) == /\ Reachable(pm, i) /\ pm.hover # i
                  /\ pm' = [Activate(HoverEnds(pm), i) EXCEPT !.hover = i]
KeyFocus(i) == Reachable(pm, i) /\ pm.focus # i /\ pm' = Activate(pm, i)
FocusLeaves == pm.focus # None /\ pm' = Unfocus(pm)

\* 'activate' of an item: the menu at the top closes (itemActivated()).
ItemActivated(i) == Reachable(pm, i) /\ i \notin Subs /\ pm' = Close(pm, "aggregateMenu", TRUE)

\* The item of a submenu toggles it when it is clicked, opens it at Return or Right, closes it at
\* Left. What fitted while it was open fits while it closes, so that it does not scroll then.
Clicked(i, scroll) ==
  /\ Reachable(pm, i) /\ i \in Subs /\ (scroll => pm.slide[i] # "closing")
  /\ pm' = IF i \in pm.subs THEN CloseSub(pm, i, ~scroll) ELSE OpenSub(pm, i, scroll)

\* _onKeyPressEvent() of the submenu: Left goes back to its item.
LeftKey(i) == /\ i \in pm.subs /\ pm.focus \in Inside(i) /\ pm.point["aggregateMenu"] = "shown"
              /\ pm' = Activate(CloseSub(pm, i, TRUE), i)

\* The height of a submenu has arrived.
Slid(i) ==
  \/ pm.slide[i] = "opening" /\ pm' = [pm EXCEPT !.slide[i] = "shown"]
  \/ /\ pm.slide[i] = "closing"
     /\ pm' = Unmap([pm EXCEPT !.slide[i] = "hidden"], Inside(i))

\* syncSensitive(): an item that is not has neither focus nor pointer, nor its submenu.
SyncSensitive(s, i) ==
  LET t == [s EXCEPT !.react = IF Sensitive(s, i) THEN @ \cup {i} ELSE @ \ {i}, !.late = @ \ {i}]
      Seal(u) == IF i \in Subs THEN CloseSub(u, i, FALSE) ELSE u
  IN IF Sensitive(s, i) THEN t ELSE Seal(Unmap(t, {i}))

SetSensitive(i, b) ==
  /\ i \in pm.live /\ b # (i \in pm.sens)
  /\ pm' = SyncSensitive([pm EXCEPT !.sens = IF b THEN @ \cup {i} ELSE @ \ {i}], i)

\* setSensitive() of the menu or of its section, which hands it on to the items
SetMenuSensitive(c, b) ==
  /\ c \in {"menu", "section"} /\ b # (c \in pm.sens)
  /\ pm' = FoldLeft(SyncSensitive, [pm EXCEPT !.sens = IF b THEN @ \cup {c} ELSE @ \ {c}],
                    IF c = "menu" THEN <<"a", "b">> ELSE <<"b">>)

\* An item is destroyed: only the menu it is in forgets it.
RemoveItem(i) ==
  /\ i \in pm.live \ Subs
  /\ pm' = [pm EXCEPT !.live = @ \ {i}, !.active = @ \ {i}, !.focus = IF @ = i THEN None ELSE @,
                      !.hover = IF @ = i THEN None ELSE @,
                      !.act[Of(i)] = IF @ = i THEN None ELSE @]

\* addMenuItem(): nobody tells the new item how sensitive the menus above are.
AddItem(i) == /\ i \notin pm.live /\ \A c \in Containers : pm.act[c] # i
          /\ pm' = [pm EXCEPT !.live = @ \cup {i}, !.sens = @ \cup {i}, !.react = @ \cup {i},
                              !.late = @ \cup {i}]
-----------------------------------------------------------------------------
(***************************************************************************)
(* The button of the application.                                          *)
(***************************************************************************)
\* _findTargetApp()
FindTarget(s) ==
  LET begun == SelectSeq(s.start, LAMBDA a : a \in s.here)
  IN CASE s.focused # None /\ s.focused \in s.here -> s.focused
       [] ~(s.focused # None /\ s.focused \in s.here) /\ begun # <<>> -> Head(begun)
       [] OTHER -> None

FadeIn(s) == IF s.vis THEN s
             ELSE [s EXCEPT !.vis = TRUE, !.gone = @ \ {"appMenu"},
                            !.fade = IF "appMenu" \in s.unseen THEN "no" ELSE "in"]

\* Mutant of Faded: the button does not close its menu.
FadedOnly(s) == IF s.vis THEN [s EXCEPT !.fade = "no"]
                ELSE [s EXCEPT !.fade = "no", !.gone = @ \cup {"appMenu"}]

\* The fade is over; hide() closes the menu.
Faded(s) == IF s.vis THEN [s EXCEPT !.fade = "no"] ELSE HideButton([s EXCEPT !.fade = "no"], "appMenu")

\* A button that is not mapped is out at once.
FadeOut(s) == IF ~s.vis THEN s
              ELSE LET t == [s EXCEPT !.vis = FALSE, !.fade = "out"]
                   IN IF "appMenu" \in s.unseen THEN Faded(t) ELSE t

UpdateWindows(s) == [s EXCEPT !.rows = IF s.app # None /\ s.run[s.app] = "running" THEN @ \cup {2}
                                       ELSE @ \ {2}]

\* AppMenu.setApp()
SetApp(s) ==
  LET t == UpdateWindows([s EXCEPT !.app = s.target])
      extra == IF s.target = None THEN {} ELSE IF s.target \in Actioned THEN {6} ELSE {4}
  IN IF s.app = s.target THEN s ELSE [t EXCEPT !.rows = (@ \ {4, 6}) \cup extra]

\* AppMenuButton._sync()
Sync(s) ==
  LET t == [s EXCEPT !.target = FindTarget(s), !.stale = FALSE]
      visible == t.target # None /\ ~t.over
      u == IF visible THEN FadeIn(t) ELSE FadeOut(t)
      isBusy == t.target # None /\ (t.run[t.target] = "starting" \/ t.target \in t.busy)
  IN SetApp([u EXCEPT !.ready = visible /\ ~isBusy])

FadeDone == pm.fade # "no" /\ pm' = Faded(pm)

\* 'app-state-changed', and 'windows-changed' after it
StateChanges(a, st, b) ==
  /\ st # pm.run[a] /\ ~(pm.run[a] = "running" /\ st = "starting")
  /\ LET s == [pm EXCEPT !.run[a] = st,
                         !.here = IF b /\ st # "stopped" THEN @ \cup {a} ELSE @ \ {a},
                         !.busy = @ \ {a},
                         !.start = IF st = "starting" THEN Append(@, a)
                                   ELSE SelectSeq(@, LAMBDA x : x # a)]
         Told(t) == IF t.app = a THEN UpdateWindows(t) ELSE t
     IN pm' = Told(Sync(s))

\* notify::focus-app: a loss of the focus to the shell is ignored.
FocusAppChanged(a, keys) ==
  /\ a # pm.focused /\ (a # None => pm.run[a] = "running")
  /\ LET s == [pm EXCEPT !.focused = a]
     IN pm' = IF a = None /\ keys THEN [s EXCEPT !.stale = TRUE] ELSE Sync(s)

SwitchWorkspace(A) == /\ A \subseteq {a \in Apps : pm.run[a] # "stopped"} /\ A # pm.here
                      /\ pm' = Sync([pm EXCEPT !.here = A])

\* notify::busy, which the button follows for its target only
BusyChanges(a) ==
  /\ pm.run[a] = "running"
  /\ LET s == [pm EXCEPT !.busy = IF a \in @ THEN @ \ {a} ELSE @ \cup {a}]
     IN pm' = IF a = pm.target THEN Sync(s) ELSE s

\* 'showing' and 'hiding' of the overview
OverviewToggles == pm' = Sync([pm EXCEPT !.over = ~@])

\* _updateDetailsVisibility()
InstalledChanged == pm' = [pm EXCEPT !.rows = IF 8 \in @ THEN @ \ {8} ELSE @ \cup {8}]

\* handleDragOver() of the activities; each motion begins the wait anew.
DragOver == pm.mode = "user" /\ pm' = [pm EXCEPT !.xdnd = TRUE]

\* _xdndToggleOverview(), if the pointer is still there and the overview may be toggled
XdndTimeout(may) == /\ pm.xdnd
                    /\ LET s == [pm EXCEPT !.xdnd = FALSE]
                       IN pm' = IF may THEN Sync([s EXCEPT !.over = ~@]) ELSE s
-----------------------------------------------------------------------------
Next ==
  \/ UserUngrabs \/ CloseCalendar \/ HoverLeaves \/ FocusLeaves \/ FadeDone \/ OverviewToggles
  \/ InstalledChanged \/ DragOver
  \/ \E b \in BOOLEAN, r \in Roles : Press(r, b) \/ SourceKey(r, b) \/ SourceEnter(r, b) \/ KeyBinding(r, b)
  \/ \E m \in Menus : Pointed(m)
  \/ \E m \in Modes : SetMode(m)
  \/ \E r \in Extra, b \in Boxes : AddToStatusArea(r, b)
  \/ \E r \in Extra : Destroy(r) \/ ShowHide(r)
  \/ \E i \in Items : HoverEnters(i) \/ KeyFocus(i) \/ ItemActivated(i) \/ RemoveItem(i) \/ AddItem(i)
  \/ \E i \in Subs : LeftKey(i) \/ Slid(i)
  \/ \E i \in Subs, b \in BOOLEAN : Clicked(i, b)
  \/ \E i \in Items, b \in BOOLEAN : SetSensitive(i, b)
  \/ \E c \in {"menu", "section"}, b \in BOOLEAN : SetMenuSensitive(c, b)
  \/ \E a \in Apps, st \in {"stopped", "starting", "running"}, b \in BOOLEAN : StateChanges(a, st, b)
  \/ \E a \in Apps \cup {None}, b \in BOOLEAN : FocusAppChanged(a, b)
  \/ \E A \in SUBSET Apps : SwitchWorkspace(A)
  \/ \E a \in Apps : BusyChanges(a)
  \/ \E b \in BOOLEAN : XdndTimeout(b)

Spec == Init /\ [][Next]_pmVars
-----------------------------------------------------------------------------
\* The state is of the declared type.
TypeOK == pm \in State

\* The manager keeps one menu open, and it has the grab: others are open only where a grab was
\* refused. What it has grabbed for can close again, and the user can reach it.
OneMenuGrabs ==
  /\ Len(pm.grabs) <= 1
  /\ pm.open \ pm.free = Range(pm.grabs) \cap Menus
  /\ \A r \in pm.open : pm.point[r] \in {"rising", "shown"} /\ r \in pm.area \ (pm.unseen \cup pm.gone)

\* The banner is kept away exactly while a menu next to it is open, unless a menu's indicator
\* was destroyed meanwhile, or menus are open without a grab.
BannerFollows ==
  (pm.free = {} /\ ~pm.orphan) =>
     (pm.blocked <=> \E r \in Range(pm.grabs) : pm.align \in BoxOf(pm, r))

\* The panel shows what the session mode names, in its order, and whatever extensions added;
\* its corner follows a button that exists.
PanelFollowsMode ==
  /\ \A b \in Boxes : SelectSeq(pm.box[b], LAMBDA r : r \in BuiltIn \ pm.unseen) = Panels(pm.mode, b)
  /\ \A r \in pm.area : Cardinality(BoxOf(pm, r)) = 1
  /\ pm.corner \in pm.area \cup {None}

\* At most one item is active: it has the focus, can be seen, and every menu above it knows it;
\* and what a menu calls its active item is active, if it still exists.
ActiveIsOne ==
  /\ Cardinality(pm.active) <= 1
  /\ \A i \in pm.active : /\ i = pm.focus /\ i \in pm.live
                          /\ pm.point["aggregateMenu"] # "hidden"
                          /\ Of(i) \in Subs => pm.slide[Of(i)] # "hidden"
                          /\ \A c \in Above(Of(i)) : pm.act[c] = i
  /\ \A c \in Containers : pm.act[c] \in pm.active \cup {None} \cup (Items \ pm.live)

\* One submenu is open at most, which is the one the menu remembers, and it does not go away;
\* what is not sensitive is not active and open, unless it goes with its submenu.
SubmenusFollow ==
  /\ pm.subs = {pm.opened} \ {None}
  /\ \A i \in Subs : (i \in pm.subs) <=> (pm.slide[i] \in {"opening", "shown"})
  /\ \A i \in Items : Sensitive(pm, i) \/ i \in pm.late \/ i \notin pm.active \cup pm.subs
                      \/ (Of(i) \in Subs /\ pm.slide[Of(i)] = "closing")

\* The button shows the application it would find now, unless it ignored that the focus went;
\* its menu is that application's; and a menu is never left open by a button that has faded.
AppMenuFollows ==
  /\ pm.stale \/ pm.target = FindTarget(pm)
  /\ pm.app = pm.target
  /\ pm.vis <=> (pm.target # None /\ ~pm.over)
  /\ pm.fade = "no" => (pm.vis <=> "appMenu" \notin pm.gone)
  /\ "appMenu" \in pm.open => "appMenu" \notin pm.gone

\* Between two rows of the application's menu that are visible there is one separator, and none
\* elsewhere, unless a row has come or gone since.
SeparatorsFit ==
  LET seen == {1} \cup pm.rows \cup pm.seps
      Next1(i) == CHOOSE j \in seen : j > i /\ \A k \in seen : k > i => k >= j
  IN pm.asOf = pm.rows => \A i \in seen \ {10} : i = 1 \/ (i \in Rows <=> Next1(i) \notin Rows)
=============================================================================
