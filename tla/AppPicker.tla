------------------------------ MODULE AppPicker ------------------------------
(***************************************************************************)
(* The application picker of appDisplay.js: the grid of all applications,  *)
(* the folders in it and the popup a folder opens, the drags that make,    *)
(* fill and empty folders, and the switch between its two views. What the  *)
(* grid shows follows the installed applications and the settings of the   *)
(* folders, each with its own signal; a popup waits for the rows of the    *)
(* grid to make space, and the page for the space to close.                *)
(***************************************************************************)
EXTENDS Integers, Sequences, SequencesExt, FiniteSets

CONSTANTS Apps, Folders,     \* Folders: ids, each used once
          Categories,        \* [Folders -> SUBSET Apps]: what the folder's categories take in
          MaxWaits           \* bound: the handlers of 'space-ready'

VARIABLE ap   \* the settings, the views, the popups and the drag

apVars == <<ap>>

NoFolder == "no folder"
AllView == "all"        \* where an icon is: in the grid, in a folder, or in neither any more
Orphan == "orphan"
NoDrag == [app |-> "none", place |-> Orphan]

State == [installed  : SUBSET Apps,
          children   : Seq(Folders),               \* 'folder-children'
          apps       : [Folders -> SUBSET Apps],   \* 'apps' of each folder
          excluded   : [Folders -> SUBSET Apps],   \* 'excluded-apps'
          queued     : BOOLEAN,                    \* _redisplayWorkId
          icons      : SUBSET Apps,                \* of applications in the grid
          hidden     : SUBSET Apps,                \* those with visible = false
          folders    : SUBSET Folders,             \* folderIcons
          made       : SUBSET Folders,             \* FolderIcons: they are never destroyed
          view       : [Folders -> SUBSET Apps],   \* the icons of each FolderView
          waits      : Seq(Folders \X BOOLEAN),    \* 'space-ready'; TRUE: _spaceReadySignalId
          open       : SUBSET Folders,             \* popups
          current    : Folders \cup {NoFolder},    \* _currentPopup
          blocking   : BOOLEAN,                    \* _eventBlocker.reactive
          displaying : BOOLEAN,                    \* _displayingPopup
          space      : {"closed", "opening", "open", "closing"},
          moved      : BOOLEAN,                    \* _translatedChildren
          drag       : [app : Apps \cup {"none"}, place : Folders \cup {AllView, Orphan}],
          inhibits   : Nat,                        \* _nEventBlockerInhibits
          hovering   : SUBSET Apps,                \* _hasDndHover
          previews   : SUBSET (Apps \X {"timer", "shown"}),
          usage      : BOOLEAN,                    \* 'remember-app-usage'
          tab        : {"all", "frequent"},        \* the view whose control is checked
          fading     : SUBSET {"all", "frequent"}, \* animateSwitch(OUT)
          shown      : BOOLEAN,                    \* the page of the picker
          leaving    : {"no", "waiting", "deaf", "spring"},  \* AllView.animate(OUT)
          astray     : SUBSET {"refused", "overtaken", "two"}]   \* a popup got no grab; its
                                 \* page left before it came; it came with another one

Init == ap = [installed |-> Apps, children |-> <<>>, apps |-> [f \in Folders |-> {}],
              excluded |-> [f \in Folders |-> {}], queued |-> FALSE, icons |-> Apps,
              hidden |-> {}, folders |-> {}, made |-> {}, view |-> [f \in Folders |-> {}],
              waits |-> <<>>, open |-> {}, current |-> NoFolder, blocking |-> FALSE,
              displaying |-> FALSE, space |-> "closed", moved |-> FALSE, drag |-> NoDrag,
              inhibits |-> 0, hovering |-> {}, previews |-> {}, usage |-> TRUE, tab |-> "all",
              fading |-> {}, shown |-> TRUE, leaving |-> "no", astray |-> {}]
-----------------------------------------------------------------------------
Views == {"all", "frequent"}
Visible(s, v) == s.shown /\ (s.tab = v \/ v \in s.fading)
Dragging(s) == s.drag # NoDrag

\* The space is closed again: a page that waits for it goes.
SpaceClosed(s) == [s EXCEPT !.displaying = FALSE, !.space = "closed",
                            !.leaving = IF @ \in {"waiting", "deaf"} THEN "spring" ELSE @]

\* _closeSpaceForPopup(): rows that were not moved, or that nobody sees, are back at once;
\* of rows that are back already nobody hears.
CloseSpace(s) ==
  CASE ~s.moved -> SpaceClosed(s)
    [] s.moved /\ s.space = "closed" -> s
    [] OTHER -> IF Visible(s, "all") THEN [s EXCEPT !.space = "closing"] ELSE SpaceClosed(s)

\* Mutant of Popdown: the view is not told that another popup is the current one.
PopdownQuietly(s, f) ==
  IF f \notin s.open THEN s ELSE CloseSpace([s EXCEPT !.open = @ \ {f}, !.blocking = FALSE])

\* popdown() of a folder's popup; the view forgets its current popup, whichever it is.
Popdown(s, f) ==
  IF f \notin s.open THEN s
  ELSE CloseSpace([s EXCEPT !.open = @ \ {f}, !.current = NoFolder, !.blocking = FALSE])

Popup(s, f) == IF f \in s.open THEN s
               ELSE [s EXCEPT !.open = @ \cup {f}, !.current = f, !.blocking = TRUE,
                       !.astray = IF s.open = {} THEN @ ELSE @ \cup {"two"}]

\* 'space-ready': each handler disconnects the folder's last one, which need not be itself,
\* and opens the popup, if it gets its grab.
SpaceReady(s, granted) ==
  LET Handler(t, w) ==
        LET disconnected == w[2] /\ \A i \in DOMAIN t.waits : t.waits[i] # w
            u == [t EXCEPT !.waits = SelectSeq(@, LAMBDA x : x # <<w[1], TRUE>>)]
        IN IF disconnected THEN t
           ELSE IF granted THEN Popup(u, w[1])
           ELSE [u EXCEPT !.astray = IF w[1] \in t.open THEN @ ELSE @ \cup {"refused"}]
  IN FoldLeft(Handler, [s EXCEPT !.space = "open"], s.waits)
-----------------------------------------------------------------------------
\* FolderView._loadApps()
Wanted(s, f) == ((s.apps[f] \cup Categories[f]) \cap s.installed) \ s.excluded[f]

\* An icon that leaves its view under a drag.
Orphaned(s) == [s EXCEPT !.drag = IF \/ @.place = AllView /\ @.app \notin s.icons
                                     \/ @.place \in s.made /\ @.app \notin s.view[@.place]
                                  THEN [@ EXCEPT !.place = Orphan] ELSE @]

\* A folder may still show an application that is gone: its view is not told.
Stale(s, f) == s.view[f] \ s.icons # {}

\* _refilterApps(): it stops where a folder shows an application the grid has not; which
\* icons were hidden by then depends on the names.
Hideable(s) ==
  LET fresh == {f \in s.folders : ~Stale(s, f)}
  IN IF fresh = s.folders THEN {UNION {s.view[f] : f \in s.folders}}
     ELSE {UNION {s.view[f] : f \in F} \cup part :
             F \in SUBSET fresh, part \in UNION {SUBSET (s.view[f] \cap s.icons) : f \in s.folders}}
Refiltered(s) == {[s EXCEPT !.hidden = h \cap s.icons] : h \in Hideable(s)}

\* Mutant of Redisplayed: the icons that a folder gives back stay hidden.
RedisplayedOnly(s) ==
  LET now == Range(s.children)
      new == now \ s.made
      gone == s.folders \ now
      t == [s EXCEPT !.icons = s.installed, !.folders = now, !.made = @ \cup new,
                     !.view = [f \in Folders |-> IF f \in new THEN Wanted(s, f) ELSE @[f]]]
      u == FoldLeft(Popdown, t, SetToSeq(gone))
  IN {[v EXCEPT !.hidden = (@ \cup s.hidden) \cap s.icons] : v \in Refiltered(Orphaned(u))}

\* _redisplay() of the grid: icons come and go, the popup of a folder that goes closes.
Redisplayed(s) ==
  LET now == Range(s.children)
      new == now \ s.made
      gone == s.folders \ now
      t == [s EXCEPT !.icons = s.installed, !.folders = now, !.made = @ \cup new,
                     !.view = [f \in Folders |-> IF f \in new THEN Wanted(s, f) ELSE @[f]]]
      u == FoldLeft(Popdown, t, SetToSeq(gone))
  IN Refiltered(Orphaned(u))

\* 'changed' of a folder's settings: its view, its icon and with 'apps-changed' the grid.
FolderChanged(s, f) ==
  IF f \notin s.made THEN {s}
  ELSE Redisplayed(Orphaned([s EXCEPT !.view[f] = Wanted(s, f)]))

Redisplay == ap.queued /\ ap' \in Redisplayed([ap EXCEPT !.queued = FALSE])

\* 'installed-changed' and 'changed::folder-children', the latter by another program, which
\* has written the folder before.
InstalledChanged(a) ==
  ap' = [ap EXCEPT !.installed = IF a \in @ THEN @ \ {a} ELSE @ \cup {a}, !.queued = TRUE]
FolderAdded(f, contents) ==
  /\ f \notin ap.made \cup Range(ap.children)
  /\ ap' = [ap EXCEPT !.children = Append(@, f), !.apps[f] = contents, !.queued = TRUE]
FolderTaken(f) ==
  /\ f \in Range(ap.children)
  /\ ap' = [ap EXCEPT !.children = SelectSeq(@, LAMBDA g : g # f), !.queued = TRUE]
-----------------------------------------------------------------------------
\* The blocker is invisible while something is dragged.
Reachable(s) == Visible(s, "all") /\ ~Dragging(s) /\ ~s.blocking /\ s.leaving = "no"

\* A click on a folder; a second one comes while the space opens. The rows need not move.
Open(f, rows, granted) ==
  /\ Reachable(ap) /\ f \in ap.folders /\ ap.view[f] # {} /\ Len(ap.waits) < MaxWaits
  /\ LET s == [ap EXCEPT !.displaying = TRUE, !.moved = rows,
                         !.waits = Append([i \in DOMAIN @ |-> IF @[i][1] = f THEN <<f, FALSE>> ELSE @[i]],
                                          <<f, TRUE>>)]
     IN ap' = IF rows THEN [s EXCEPT !.space = "opening"] ELSE SpaceReady(s, granted)

SpaceOpened(granted) == ap.space = "opening" /\ ap' = SpaceReady(ap, granted)
RowsBack == ap.space = "closing" /\ ap' = SpaceClosed(ap)

\* The close button, Escape, or a click on the blocker, which closes the current one.
Close(f) == f \in ap.open /\ ap' = Popdown(ap, f)

\* AllView.animate(OUT): the page goes when the space has closed, and connects to that
\* after it has asked for it.
Leave ==
  /\ ap.shown /\ ap.tab = "all" /\ ap.leaving = "no"
  /\ ap' = IF ap.displaying /\ ap.current # NoFolder
           THEN LET s == Popdown(ap, ap.current)
                IN [s EXCEPT !.leaving = IF s.space = "closing" THEN "waiting" ELSE "deaf"]
           ELSE [ap EXCEPT !.leaving = "spring"]

\* Mutant of Unmapped: the popups are left open.
UnmappedOnly(s) == s

\* vfunc_unmap() of the folders closes their popups.
Unmapped(s) == FoldLeft(Popdown, s, SetToSeq(s.open))
\* A page takes less time to leave than the rows to make space.
PageGone ==
  /\ ap.leaving = "spring"
  /\ ap' = Unmapped([ap EXCEPT !.shown = FALSE, !.leaving = "no",
               !.astray = IF ap.space = "opening" THEN @ \cup {"overtaken"} ELSE @])

\* The overview hides, which takes as long as the rows do; it is not left out while a page
\* leaves.
Hidden == /\ ap.shown /\ ap.space # "opening" /\ ap.leaving \in {"no", "deaf"}
          /\ ap' = Unmapped([ap EXCEPT !.shown = FALSE])
Shown == ~ap.shown /\ ap' = [ap EXCEPT !.shown = TRUE]

\* _showView(): one view comes, the other fades and hides at the end, unless it comes
\* again before.
ShowViewIn(s, v) ==
  LET other == IF v = "all" THEN "frequent" ELSE "all"
  IN [s EXCEPT !.tab = v, !.fading = (@ \cup (IF Visible(s, other) THEN {other} ELSE {})) \ {v}]
ShowView(v) == /\ ap.shown /\ ap.leaving = "no" /\ (v = "frequent" => ap.usage)
               /\ ap' = ShowViewIn(ap, v)
Faded(v) == /\ v \in ap.fading /\ (v = "all" => ap.space # "opening")
            /\ LET s == [ap EXCEPT !.fading = @ \ {v}]
               IN ap' = IF v = "all" THEN Unmapped(s) ELSE s

\* _updateFrequentVisibility()
SetUsage ==
  /\ ap.leaving = "no"
  /\ LET s == [ap EXCEPT !.usage = ~@]
     IN ap' = IF ~s.usage /\ s.tab = "frequent" THEN ShowViewIn(s, "all") ELSE s
-----------------------------------------------------------------------------
\* 'item-drag-begin': every folder icon there ever was inhibits the blocker once.
DragBegin(a, p) ==
  /\ ~Dragging(ap) /\ Visible(ap, "all")
  /\ \/ p = AllView /\ Reachable(ap) /\ a \in ap.icons \ ap.hidden
     \/ p \in ap.open /\ a \in ap.view[p]
  /\ ap' = [ap EXCEPT !.drag = [app |-> a, place |-> p], !.inhibits = @ + Cardinality(ap.made)]

\* 'item-drag-end': those made meanwhile find nothing to take back and throw.
DragEnded(s) == LET left == s.inhibits - Cardinality(s.made)
                IN [s EXCEPT !.drag = NoDrag, !.inhibits = IF left < 0 THEN 0 ELSE left]

SetHovering(s, a, on) ==
  [s EXCEPT !.previews = IF on THEN @ \cup {<<a, "timer">>} ELSE @ \ {<<a, "timer">>, <<a, "shown">>}]

\* AppIcon._canAccept()
Accepts(s, a) == a # s.drag.app /\ s.drag.place = AllView

\* The drag moves onto an icon of the grid, or off all of them.
Hover(under) ==
  /\ Dragging(ap) /\ under \subseteq ap.icons \ ap.hidden /\ Cardinality(under) <= 1
  /\ LET over == {a \in under : Accepts(ap, a)}
         On(s, a) == IF a \in s.hovering THEN s ELSE SetHovering(s, a, TRUE)
         Off(s, a) == SetHovering(s, a, FALSE)
         t == FoldLeft(On, FoldLeft(Off, ap, SetToSeq(ap.hovering \ over)), SetToSeq(over))
     IN ap' = [t EXCEPT !.hovering = over]

PreviewTimeout(a) ==
  /\ <<a, "timer">> \in ap.previews
  /\ ap' = [ap EXCEPT !.previews = (@ \ {<<a, "timer">>}) \cup {<<a, "shown">>}]

\* Escape, or a place that takes no drop.
Cancel == Dragging(ap) /\ ap' = DragEnded(ap)

\* Mutant of DropOnIcon: the preview's timer runs on.
DropOnIconOnly(a, f) ==
  /\ Dragging(ap) /\ a \in ap.icons \ ap.hidden /\ Accepts(ap, a)
  /\ f \notin ap.made \cup Range(ap.children) /\ Categories[f] = {}
  /\ ap' = DragEnded([ap EXCEPT
             !.children = Append(@, f), !.apps[f] = {a, ap.drag.app}, !.queued = TRUE,
             !.hovering = @ \ {a}])

\* acceptDrop() of an icon, createFolder(): the settings first, the icon with the redisplay.
DropOnIcon(a, f) ==
  /\ Dragging(ap) /\ a \in ap.icons \ ap.hidden /\ Accepts(ap, a)
  /\ f \notin ap.made \cup Range(ap.children) /\ Categories[f] = {}
  /\ ap' = DragEnded([SetHovering(ap, a, FALSE) EXCEPT
             !.children = Append(@, f), !.apps[f] = {a, ap.drag.app}, !.queued = TRUE])

\* acceptDrop() of a folder: each of the two settings redisplays.
DropOnFolder(f) ==
  /\ Dragging(ap) /\ ap.drag.place = AllView /\ f \in ap.folders /\ ap.drag.app \notin ap.apps[f]
  /\ LET a == ap.drag.app
         s == [ap EXCEPT !.apps[f] = @ \cup {a}]
         t == [s EXCEPT !.excluded[f] = @ \ {a}]
     IN \E u \in FolderChanged(t, f) : ap' = DragEnded(u)

\* Mutant of RemoveApp: with one application left there is no folder.
RemoveAppEarly(s, f, a) ==
  LET left == s.apps[f] \ {a}
      t == IF Categories[f] = {} THEN s ELSE [s EXCEPT !.excluded[f] = @ \cup {a}]
      i == IF f \in Range(s.children) THEN CHOOSE k \in DOMAIN s.children : s.children[k] = f
           ELSE Len(s.children)
  IN IF Cardinality(left) <= 1
     THEN [t EXCEPT !.apps[f] = {}, !.excluded[f] = {}, !.queued = TRUE,
                    !.children = IF @ = <<>> THEN @ ELSE RemoveAt(@, i)]
     ELSE [t EXCEPT !.apps[f] = left]

\* removeApp(): a folder whose own list is empty goes, what its categories take in or not;
\* one that is not listed any more takes the last one with it: splice(-1, 1).
RemoveApp(s, f, a) ==
  LET left == s.apps[f] \ {a}
      t == IF Categories[f] = {} THEN s ELSE [s EXCEPT !.excluded[f] = @ \cup {a}]
      i == IF f \in Range(s.children) THEN CHOOSE k \in DOMAIN s.children : s.children[k] = f
           ELSE Len(s.children)
  IN IF left = {}
     THEN [t EXCEPT !.apps[f] = {}, !.excluded[f] = {}, !.queued = TRUE,
                    !.children = IF @ = <<>> THEN @ ELSE RemoveAt(@, i)]
     ELSE [t EXCEPT !.apps[f] = left]

\* acceptDrop() of the grid takes the application out of its folder and closes the popup.
DropOnGrid ==
  /\ ap.drag.place \in ap.made
  /\ \E s \in FolderChanged(RemoveApp(ap, ap.drag.place, ap.drag.app), ap.drag.place) :
       ap' = DragEnded(IF s.current = NoFolder THEN s ELSE Popdown(s, s.current))

Next ==
  \/ Redisplay \/ RowsBack \/ Leave \/ PageGone \/ Hidden \/ Shown \/ SetUsage \/ Cancel
  \/ DropOnGrid
  \/ \E granted \in BOOLEAN : SpaceOpened(granted)
  \/ \E a \in Apps : InstalledChanged(a) \/ PreviewTimeout(a)
  \/ \E f \in Folders : FolderTaken(f) \/ Close(f) \/ DropOnFolder(f)
  \/ \E f \in Folders, a \in Apps : FolderAdded(f, {a}) \/ DropOnIcon(a, f)
  \/ \E f \in Folders, rows, granted \in BOOLEAN : Open(f, rows, granted)
  \/ \E a \in Apps, p \in Folders \cup {AllView} : DragBegin(a, p)
  \/ \E under \in SUBSET Apps : Hover(under)
  \/ \E v \in Views : ShowView(v) \/ Faded(v)

Spec == Init /\ [][Next]_apVars
-----------------------------------------------------------------------------
TypeOK == ap \in State

\* When nothing is left to redisplay every installed application can be reached, in the
\* grid or in a folder of it, whatever drags, other programs and installations did in which
\* order; and, unless a folder shows what is gone, at which _refilterApps() throws, in one
\* of them only.
NothingLost == ~ap.queued => \A a \in ap.installed :
  /\ a \notin ap.hidden \/ \E f \in ap.folders : a \in ap.view[f]
  /\ (\A f \in ap.folders : ~Stale(ap, f)) =>
       (a \in ap.hidden <=> \E f \in ap.folders : a \in ap.view[f])

\* The blocker is there for the current popup, the popups that are open had their space,
\* and space is only displayed while one is coming, there or going: but for a popup that
\* was refused its grab, and for two that opened with one click.
PopupsBlock ==
  /\ ap.blocking <=> ap.current # NoFolder
  /\ ap.current = NoFolder \/ ap.current \in ap.open
  /\ "two" \notin ap.astray => ap.open \subseteq {ap.current}
  /\ ap.current # NoFolder => ap.displaying
  /\ ap.space = "open" /\ "refused" \notin ap.astray => ap.open # {}
  /\ ap.displaying <=> ap.space # "closed"

\* What is not shown holds no grab; a view whose control is gone is not the one shown.
HiddenHoldsNothing == /\ ~Visible(ap, "all") /\ "overtaken" \notin ap.astray => ap.open = {}
                      /\ ~ap.usage => ap.tab = "all"
                      /\ ap.leaving = "waiting" => ap.space = "closing"

\* Between drags the blocker is not inhibited, and only an icon that has not heard of the
\* end shows a preview.
DragsEnd == /\ ~Dragging(ap) => ap.inhibits = 0
            /\ \A x \in ap.previews : x[1] \in ap.hovering

\* A drop takes no folder away but the one it empties: unless that was not listed any more,
\* or takes in applications by category (the comment at appDisplay.js:1438: "Remove the
\* folder if this is the last app icon").
SparesFolders == Dragging(ap) /\ ~Dragging(ap') =>
  \A f \in Range(ap.children) \ Range(ap'.children) :
    \/ ap.drag.place = f /\ (Categories[f] # {} \/ ap.apps[f] \subseteq {ap.drag.app})
    \/ ap.drag.place \in Folders \ Range(ap.children)
DropsSpareFolders == [][SparesFolders]_apVars
=============================================================================
