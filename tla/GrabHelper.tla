------------------------------ MODULE GrabHelper ------------------------------
(***************************************************************************)
(* The grabs of menus and folders. A GrabHelper of grabHelper.js takes one *)
(* modal grab for a stack of actors; the helpers that have one are on a    *)
(* stack of their own, whose top sees the captured events. Two kinds of    *)
(* clients open and close over it: the menus of a PopupMenuManager         *)
(* (popupMenu.js), and the folder popups of appDisplay.js.                 *)
(*                                                                         *)
(* A behaviour is followed until helpers are popped crosswise, which the   *)
(* code answers by throwing.                                               *)
(***************************************************************************)
EXTENDS Integers, Sequences, SequencesExt

CONSTANTS Clients,     \* what opens and closes
          HelperOf,    \* the helper of each
          Folders      \* the clients that are folder popups; the others are menus

VARIABLE gh   \* the helpers and their clients

ghVars == <<gh>>

Helpers == {HelperOf[c] : c \in Clients}

State == [open    : [Clients -> BOOLEAN],          \* isOpen
          stack   : [Helpers -> Seq(Clients)],     \* _grabStack
          count   : [Helpers -> Nat],              \* _modalCount
          helpers : Seq(Helpers),                  \* _grabHelperStack
          modal   : SUBSET Helpers,                \* those with a record in the modal stack
          refused : SUBSET Clients,                \* history: open without a grab
          crossed : BOOLEAN]                       \* history, see PopGrabHelper

Init == gh = [open |-> [c \in Clients |-> FALSE], stack |-> [h \in Helpers |-> <<>>],
              count |-> [h \in Helpers |-> 0], helpers |-> <<>>, modal |-> {},
              refused |-> {}, crossed |-> FALSE]
-----------------------------------------------------------------------------
\* _popGrabHelper(), and popModal() unless it throws. History: 'crossed' says that the
\* helper was not the last one to have pushed: another one has lost its place.
PopGrabHelper(u, h) ==
  LET top == u.helpers # <<>> /\ Last(u.helpers) = h
      v == [u EXCEPT !.helpers = IF @ = <<>> THEN @ ELSE Front(@)]
  IN IF top THEN [v EXCEPT !.modal = @ \ {h}] ELSE [v EXCEPT !.crossed = TRUE]

\* _releaseModalGrab()
ReleaseModalGrab(u, h) ==
  LET v == [u EXCEPT !.count[h] = @ - 1]
  IN IF v.count[h] > 0 THEN v ELSE PopGrabHelper(v, h)

\* A client's onUngrab: _closeMenu() closes a menu if the user dismissed it, popdown()
\* closes a folder. The ungrab that closing asks for finds nothing any more.
OnUngrab(u, c, isUser) ==
  IF isUser \/ c \in Folders THEN [u EXCEPT !.open[c] = FALSE, !.refused = @ \ {c}] ELSE u

\* ungrab(): from the top of the stack down to the client, a callback and a release for
\* each. A crossing throws, and ends the loop.
Ungrab(u, h, c, isUser) ==
  LET s == u.stack[h]
      i == CHOOSE k \in DOMAIN s : s[k] = c
      Drop(v, d) == IF v.crossed THEN v ELSE ReleaseModalGrab(OnUngrab(v, d, isUser), h)
  IN IF ~Contains(s, c) THEN u
     ELSE FoldLeft(Drop, [u EXCEPT !.stack[h] = SubSeq(s, 1, i - 1)],
                   Reverse(SubSeq(s, i, Len(s))))

\* grab(), with _takeModalGrab(): the states after it is granted, and refused.
Granted(u, h, c) ==
  [u EXCEPT !.count[h] = @ + 1, !.stack[h] = Append(@, c),
            !.helpers = IF u.count[h] = 0 THEN Append(@, h) ELSE @,
            !.modal = @ \cup {h}]

Refusable(u, h) == u.count[h] = 0

\* PopupMenu.close() with the manager's _onMenuOpenState(menu, false).
CloseMenu(u, c) ==
  IF ~u.open[c] THEN u
  ELSE Ungrab([u EXCEPT !.open[c] = FALSE, !.refused = @ \ {c}], HelperOf[c], c, FALSE)

\* Mutant of ActiveClosed: the manager does not close its active menu.
ActiveLeft(u, h) == u

\* _onMenuOpenState(menu, true) closes the active menu first.
ActiveClosed(u, h) == IF u.stack[h] = <<>> THEN u ELSE CloseMenu(u, u.stack[h][1])
-----------------------------------------------------------------------------
Menus == IF gh.crossed THEN {} ELSE Clients \ Folders
Popups == IF gh.crossed THEN {} ELSE Folders

\* A menu opens, from its button or because the pointer enters the next button.
\* Whether its grab is granted makes no difference to it.
OpenMenu(c) ==
  /\ c \in Menus /\ ~gh.open[c]
  /\ LET h == HelperOf[c]
         u == ActiveClosed([gh EXCEPT !.open[c] = TRUE], h)
     IN \/ gh' = Granted(u, h, c)
        \/ Refusable(u, h) /\ gh' = [u EXCEPT !.refused = @ \cup {c}]

\* A menu closes: an item is activated, its button or Escape on it is pressed, its
\* source is unmapped or destroyed.
Close(c) == c \in Menus /\ gh.open[c] /\ gh' = CloseMenu(gh, c)

\* A folder opens if it gets the grab: popup().
Popup(c) == /\ c \in Popups /\ ~gh.open[c]
            /\ gh' = Granted([gh EXCEPT !.open[c] = TRUE], HelperOf[c], c)

\* Mutant of Popdown: only hides.
PopdownOnly(c) == c \in Popups /\ gh.open[c] /\ gh' = [gh EXCEPT !.open[c] = FALSE]

\* popdown(), or the popup's destruction; it is re-entered through onUngrab.
Popdown(c) == /\ c \in Popups /\ gh.open[c]
              /\ gh' = [Ungrab(gh, HelperOf[c], c, FALSE) EXCEPT !.open[c] = FALSE]

\* onCapturedEvent() of the topmost helper: Escape drops the current grab, a press
\* outside everything grabbed drops them all.
Dismiss ==
  /\ gh.helpers # <<>> /\ ~gh.crossed
  /\ LET h == Last(gh.helpers)
         s == gh.stack[h]
     IN /\ s # <<>>
        /\ \E c \in {s[1], Last(s)} : gh' = Ungrab(gh, h, c, TRUE)

Next == \/ \E c \in Clients : OpenMenu(c) \/ Close(c) \/ Popup(c) \/ Popdown(c)
        \/ Dismiss

Spec == Init /\ [][Next]_ghVars
-----------------------------------------------------------------------------
TypeOK == gh \in State

\* The three books agree: a helper that has grabbed actors counts each of them, is once
\* on the stack of helpers and has the modal grab, and a helper without has none of it.
\* Not so once a helper was popped that was not the last to push, which the code
\* answers by throwing: that helper's modal grab is never given back.
HelperHoldsGrab == ~gh.crossed => \A h \in Helpers :
  /\ gh.count[h] = Len(gh.stack[h])
  /\ h \in gh.modal <=> gh.count[h] > 0
  /\ Len(SelectSeq(gh.helpers, LAMBDA g : g = h)) = (IF gh.count[h] > 0 THEN 1 ELSE 0)

\* What is open can be dismissed, and what can be dismissed is open: a client is open
\* exactly while it is in its helper's stack, except for a menu that opened although
\* the grab was refused. So a manager has one open menu, however menus follow on one
\* another.
OpenIsGrabbed == ~gh.crossed => \A c \in Clients :
  gh.open[c] <=> Contains(gh.stack[HelperOf[c]], c) \/ c \in gh.refused
=============================================================================
