------------------------------- MODULE AltTab -------------------------------
(***************************************************************************)
(* The switcher of applications (altTab.js, on switcherPopup.js): the      *)
(* application and the window that are selected, the thumbnail lists that  *)
(* come and fade, while windows close and applications quit under it. An   *)
(* item is bound to the index it had when it was added.                    *)
(***************************************************************************)
EXTENDS Integers, SequencesExt

CONSTANTS Groups,     \* the windows of every application, in the order of their use
          MaxLists    \* bound: the thumbnail lists there are at once

VARIABLE alt   \* the popup

altVars == <<alt>>

Windows == UNION {Range(Groups[i]) : i \in DOMAIN Groups}
Apps    == DOMAIN Groups
Index   == 0..Cardinality(Windows)   \* 0: none
List    == [app : Apps, clones : Seq([w : Windows, n : Index]), hl : Index, fading : BOOLEAN]

State == [phase : {"new", "up", "fading", "gone"}, opaque : BOOLEAN,
          items : Seq(Apps),                \* the icons; an item's first index is its application's
          wins : [Apps -> Seq(Windows)],    \* cachedWindows
          sel : Index, cur : Index,         \* _selectedIndex, _currentWindow
          focused : BOOLEAN, timer : BOOLEAN,
          lists : Seq(List), thumbs : Index, \* the thumbnail lists there are; _thumbnails
          closed : SUBSET Windows,
          misled : BOOLEAN, crossed : BOOLEAN]   \* history

Init == alt = [phase |-> "new", opaque |-> FALSE, items |-> [i \in Apps |-> i], wins |-> Groups,
               sel |-> 1, cur |-> 0, focused |-> FALSE, timer |-> FALSE, lists |-> <<>>,
               thumbs |-> 0, closed |-> {}, misled |-> FALSE, crossed |-> FALSE]
-----------------------------------------------------------------------------
Least(i, j) == IF i < j THEN i ELSE j
Wins(u) == u.wins[u.items[u.sel]]

\* _destroyThumbnails(): the list fades and is forgotten.
FadeThumbnails(u) == IF u.thumbs = 0 THEN u
                     ELSE [u EXCEPT !.lists[u.thumbs].fading = TRUE, !.thumbs = 0]

\* _createThumbnails()
CreateThumbnails(u) ==
  IF u.thumbs # 0 THEN u
  ELSE LET w == Wins(u)
       IN [u EXCEPT !.thumbs = Len(u.lists) + 1,
            !.lists = Append(@, [app |-> u.items[u.sel], hl |-> 0, fading |-> FALSE,
                                 clones |-> [i \in DOMAIN w |-> [w |-> w[i], n |-> i]]])]

\* Mutant of Select: the list of another application stays.
SelectKeeping(u, a, w, force) ==
  LET v == [u EXCEPT !.timer = FALSE, !.focused = w # 0 /\ ~force, !.sel = a, !.cur = w]
  IN IF a \notin DOMAIN v.items THEN [v EXCEPT !.misled = TRUE]
     ELSE IF w = 0 THEN [v EXCEPT !.timer = Len(Wins(v)) > 1 /\ ~force]
     ELSE LET c == CreateThumbnails(v) IN [c EXCEPT !.lists[c.thumbs].hl = w]

\* _select(): without a window the list goes, and another is due if there are several
\* windows; with one the list is there and shows it. An application or a window that is
\* not listed makes highlight() throw half-way.
Select(u, a, w, force) ==
  LET f == IF a # u.sel \/ w = 0 THEN FadeThumbnails(u) ELSE u
      v == [f EXCEPT !.timer = FALSE, !.focused = w # 0 /\ ~force, !.sel = a, !.cur = w]
  IN IF a \notin DOMAIN v.items THEN [v EXCEPT !.misled = TRUE]
     ELSE IF w = 0 THEN [v EXCEPT !.timer = Len(Wins(v)) > 1 /\ ~force]
     ELSE LET c == CreateThumbnails(v)
          IN [c EXCEPT !.lists[c.thumbs].hl = w,
                       !.misled = @ \/ w > Len(c.lists[c.thumbs].clones)]

\* _onDestroy()
Destroyed(u) == [FadeThumbnails(u) EXCEPT !.phase = "gone", !.timer = FALSE]

\* fadeAndDestroy(): the timer of the thumbnails goes on until the popup has faded.
Leave(u) == IF u.opaque THEN [u EXCEPT !.phase = "fading"] ELSE Destroyed(u)

Around(i, n) == IF i > n THEN 1 ELSE IF i < 1 THEN n ELSE i
NextApp(u) == Around(u.sel + 1, Len(u.items))
PreviousApp(u) == Around(u.sel - 1, Len(u.items))
NextWindow(u) == Around((IF u.cur = 0 THEN 1 ELSE u.cur) + 1, Len(Wins(u)))
PreviousWindow(u) == Around((IF u.cur = 0 THEN 2 ELSE u.cur) - 1, Len(Wins(u)))

\* A popup that used a stale index or forgot the wrong list is followed no further.
Calm == alt.phase = "up" /\ ~alt.misled /\ ~alt.crossed
Up == Calm /\ Len(alt.lists) <= MaxLists /\ alt.sel \in DOMAIN alt.items

InitialSelection(u, binding) ==
  LET n == Len(u.items)
      last == Len(Wins(u))
  IN CASE binding = "group" -> Select(u, 1, Least(2, last), FALSE)
       [] binding = "group backward" -> Select(u, 1, last, FALSE)
       [] binding = "applications" -> Select(u, Least(2, n), 0, FALSE)
       [] OTHER -> Select(u, n, 0, FALSE)

\* show(): the keys may have been released already.
Show(binding, held) ==
  /\ alt.phase = "new"
  /\ LET u == InitialSelection([alt EXCEPT !.phase = "up"], binding)
     IN alt' = IF held THEN u ELSE Leave(u)

DelayOver == alt.phase = "up" /\ ~alt.opaque /\ alt' = [alt EXCEPT !.opaque = TRUE]

\* _keyPressHandler(): the arrows do what the bindings do for what is focused.
KeyApplications(forward) ==
  Up /\ alt' = Select(alt, IF forward THEN NextApp(alt) ELSE PreviousApp(alt), 0, FALSE)
KeyGroup == Up /\ alt' = Select(alt, alt.sel,
                                IF alt.focused THEN NextWindow(alt) ELSE 1, FALSE)
KeyGroupBackward == Up /\ alt' = Select(alt, alt.sel, PreviousWindow(alt), FALSE)
KeyDown == Up /\ ~alt.focused /\ alt' = Select(alt, alt.sel, 1, FALSE)
KeyUp == Up /\ alt.focused /\ alt' = Select(alt, alt.sel, 0, TRUE)

\* _scrollHandler(): through the windows of an application, then on to the next one.
ScrollUp ==
  Up /\ alt' = IF alt.focused /\ alt.cur > 1 THEN Select(alt, alt.sel, PreviousWindow(alt), FALSE)
               ELSE IF ~alt.focused /\ Len(Wins(alt)) > 1
               THEN Select(alt, alt.sel, Len(Wins(alt)), FALSE)
               ELSE Select(alt, PreviousApp(alt), 0, FALSE)
ScrollDown ==
  Up /\ alt' = IF alt.focused /\ alt.cur # Len(Wins(alt))
               THEN Select(alt, alt.sel, NextWindow(alt), FALSE)
               ELSE IF ~alt.focused /\ Len(Wins(alt)) > 1 THEN Select(alt, alt.sel, 1, FALSE)
               ELSE Select(alt, NextApp(alt), 0, FALSE)

\* Escape, or a press outside.
Escape == alt.phase = "up" /\ alt' = Leave(alt)

\* _finish()
Finish == Up /\ alt' = Leave(alt)

\* The pointer is over an item, perhaps for the time that a visible list asks for, or
\* clicks it: the index is the one it was added with.
Pointed(i, w) ==
  Select([alt EXCEPT !.misled = @ \/ alt.items[i] # i], alt.items[i], w, FALSE)
ItemEntered(i) == Up /\ i \in DOMAIN alt.items /\ alt' = Pointed(i, 0)
ItemActivated(i) ==
  /\ Up /\ i \in DOMAIN alt.items
  /\ alt' = Leave(Pointed(i, IF alt.items[i] = alt.sel THEN alt.cur ELSE 0))
ThumbnailEntered(i) ==
  /\ Up /\ alt.thumbs # 0
  /\ LET l == alt.lists[alt.thumbs]
     IN /\ i \in DOMAIN l.clones
        /\ alt' = Select([alt EXCEPT !.misled = @ \/ l.clones[i].n # i], alt.sel, l.clones[i].n,
                         FALSE)

\* The timeout may be late: the popup fades already.
ThumbnailTimeout == /\ \/ Up
                       \/ alt.phase = "fading" /\ ~alt.misled /\ alt.sel \in DOMAIN alt.items
                    /\ alt.timer
                    /\ alt' = [CreateThumbnails(alt) EXCEPT !.timer = FALSE, !.focused = FALSE]

\* A list that has faded is destroyed: whichever list there is now is forgotten.
ListFaded(l) ==
  /\ Calm /\ l \in DOMAIN alt.lists /\ alt.lists[l].fading
  /\ alt' = [alt EXCEPT !.lists = RemoveAt(@, l), !.thumbs = 0, !.focused = FALSE,
                        !.crossed = @ \/ alt.thumbs # 0]

\* _windowRemoved() of the popup: it asks the application selected now.
WindowRemoved(u, n) ==
  IF u.sel \notin DOMAIN u.items \/ Wins(u) = <<>> THEN u
  ELSE Select(u, u.sel, Least(n, Len(Wins(u))), FALSE)

CloneOf(l, w) == SelectInSeq(l.clones, LAMBDA c : c.w = w)

\* The list shares its windows with the application's icon.
Shortened(u, l, i) ==
  [u EXCEPT !.lists[l].clones = RemoveAt(@, i),
            !.wins[u.lists[l].app] = IF i \in DOMAIN @ THEN RemoveAt(@, i) ELSE @]

\* _removeThumbnail() of one list: the popup selects again, then the list highlights by
\* itself; the last thumbnail takes the list with it, at once.
RemoveThumbnail(u, l, w) ==
  LET i == CloneOf(u.lists[l], w)
      v == WindowRemoved(Shortened(u, l, i), i)
      n == Len(v.lists[l].clones)
  IN IF i = 0 THEN u
     ELSE IF n > 0 THEN [v EXCEPT !.lists[l].hl = IF i > n THEN 1 ELSE i]
     ELSE [v EXCEPT !.thumbs = 0, !.focused = FALSE]

Listing(u, w) == SetToSeq({l \in DOMAIN u.lists : CloneOf(u.lists[l], w) # 0})

WindowClosed(w) ==
  /\ Calm /\ w \notin alt.closed
  /\ LET u == [alt EXCEPT !.closed = @ \cup {w}]
         ls == Listing(u, w)
         v == FoldLeft(LAMBDA x, l : RemoveThumbnail(x, l, w), u, ls)
     IN alt' = [v EXCEPT !.lists = SelectSeq(@, LAMBDA l : l.clones # <<>>),
                         !.crossed = @ \/ (ls # <<>> /\ (ls # <<u.thumbs>> \/ Len(u.lists) > 1))]

\* _removeIcon() and _itemRemovedHandler(): the next application is selected, whichever was.
\* Windows that are gone for the application may still have actors, which close later.
AppStopped(a) ==
  /\ Up
  /\ LET i == SelectInSeq(alt.items, LAMBDA x : x = a)
         u == [alt EXCEPT !.items = RemoveAt(@, i)]
     IN /\ i # 0
        /\ alt' = IF u.items = <<>> THEN Leave(u)
                  ELSE Select(u, Least(i, Len(u.items)), 0, FALSE)

Faded == alt.phase = "fading" /\ alt' = Destroyed(alt)

Next == \/ \E b \in {"group", "group backward", "applications", "applications backward"},
              held \in BOOLEAN : Show(b, held)
        \/ DelayOver \/ KeyGroup \/ KeyGroupBackward \/ KeyDown \/ KeyUp \/ Escape \/ Finish
        \/ ScrollUp \/ ScrollDown
        \/ \E forward \in BOOLEAN : KeyApplications(forward)
        \/ \E i \in Index : ItemEntered(i) \/ ItemActivated(i) \/ ThumbnailEntered(i) \/ ListFaded(i)
        \/ ThumbnailTimeout \/ Faded
        \/ \E w \in Windows : WindowClosed(w)
        \/ \E a \in Apps : AppStopped(a)

Spec == Init /\ [][Next]_altVars
-----------------------------------------------------------------------------
TypeOK == alt \in State

\* Whatever closes meanwhile, what is selected exists, and the one thumbnail list that is
\* not fading is the one of the selected application, with its windows and no others, as
\* long as no item was used after its index had gone stale and no window closed or list
\* faded while two lists were there.
SelectionStands == Calm =>
  /\ alt.sel \in DOMAIN alt.items
  /\ (alt.cur <= Len(Wins(alt)) \/ Wins(alt) = <<>>)
  /\ \A l \in DOMAIN alt.lists : alt.lists[l].fading \/ l = alt.thumbs
  /\ alt.thumbs # 0 => LET l == alt.lists[alt.thumbs]
                       IN /\ l.app = alt.items[alt.sel]
                          /\ [i \in DOMAIN l.clones |-> l.clones[i].w] = Wins(alt)

\* altTab.js on _select(): the window that is selected is the one highlighted in the list.
SelectedIsHighlighted ==
  Calm /\ alt.thumbs # 0 /\ alt.cur # 0 => alt.lists[alt.thumbs].hl = alt.cur
=============================================================================
