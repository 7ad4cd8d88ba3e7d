---------------------------- MODULE DragAndDrop ----------------------------
(***************************************************************************)
(* Drags within the shell (dnd.js): a press that may become a drag, the    *)
(* drop, Escape, the animation back, and the destruction of what is        *)
(* dragged at any moment.  Drags happen in the overview, whose grab is     *)
(* there: pushModal() does not fail.  No monitor answers a drop by itself. *)
(***************************************************************************)
EXTENDS Naturals, FiniteSets

CONSTANTS Draggables,
          Itself,     \* those without getDragActor(): the actor itself is dragged
          Manual,     \* those started by startDrag() alone, which restore on success
          Presses     \* bound: the times a button is pressed

VARIABLE dnd   \* the draggables, and what the user and the listeners hold

dndVars == <<dnd>>

None == "none"

Draggable == [state : {"init", "dragging", "cancelled"},
              actor : BOOLEAN,         \* _dragActor
              down : BOOLEAN,          \* _buttonDown
              pressGrab : BOOLEAN,     \* _onEventId, the grab of the pressed actor
              eventGrab : BOOLEAN,     \* _eventsGrabbed
              anim : BOOLEAN, cancellable : BOOLEAN, destroyed : BOOLEAN,
              heard : BOOLEAN,         \* listeners heard drag-begin and no drag-end
              ghost : BOOLEAN,         \* a drag actor nobody knows stays on the stage
              orphaned : BOOLEAN, escaped : BOOLEAN]   \* history
State == [cur : Draggables \cup {None}, pressed : BOOLEAN, presses : 0..Presses,
          of : [Draggables -> Draggable]]

Idle == [state |-> "init", actor |-> FALSE, down |-> FALSE, pressGrab |-> FALSE,
         eventGrab |-> FALSE, anim |-> FALSE, cancellable |-> TRUE, destroyed |-> FALSE,
         heard |-> FALSE, ghost |-> FALSE, orphaned |-> FALSE, escaped |-> FALSE]
Init == dnd = [cur |-> None, pressed |-> FALSE, presses |-> 0, of |-> [x \in Draggables |-> Idle]]
-----------------------------------------------------------------------------
\* _dragComplete()
Complete(u, x) == [u EXCEPT !.cur = None, !.of[x].eventGrab = FALSE, !.of[x].actor = FALSE,
                            !.of[x].state = "init"]

\* emit('drag-end'): a destroyed draggable has no listeners any more.
End(u, x) == [u EXCEPT !.of[x].heard = @ /\ u.of[x].destroyed]

\* Mutant of FinishAnimation: the end of the animation leaves the completion to the release.
FinishLater(u, x) == [u EXCEPT !.of[x].anim = FALSE]

\* _finishAnimation(): with the button still down the release completes the drag.
FinishAnimation(u, x) ==
  LET v == [u EXCEPT !.of[x].anim = FALSE]
  IN IF u.of[x].anim /\ ~u.of[x].down THEN Complete(v, x) ELSE v

\* The drag actor is destroyed.
ActorDestroyed(u, x) ==
  IF ~u.of[x].actor THEN u
  ELSE LET v == FinishAnimation(u, x)
       IN [v EXCEPT !.of[x].actor = FALSE,
                    !.of[x].state = IF @ = "dragging" THEN "cancelled" ELSE @]

\* _animateDragEnd()
AnimateEnd(u, x) == [u EXCEPT !.of[x].anim = TRUE]

\* _cancelDrag(): an actor there still is glides back; else the drag ends here, and the
\* completion has forgotten a drag actor that was to be destroyed.
CancelDrag(u, x) ==
  LET v == [u EXCEPT !.of[x].state = "cancelled"]
      c == IF v.of[x].down THEN v ELSE Complete(v, x)
      e == [c EXCEPT !.of[x].heard = FALSE]
  IN IF ~u.of[x].destroyed /\ u.of[x].state # "cancelled" THEN AnimateEnd(v, x)
     ELSE IF x \in Itself THEN e
     ELSE [ActorDestroyed(e, x) EXCEPT !.of[x].ghost = @ \/ (u.of[x].actor /\ ~c.of[x].actor)]

\* _dragActorDropped(): refused, accepted with the drag actor left, or accepted and taken.
Dropped(u, x, how) ==
  LET v == [u EXCEPT !.of[x].cancellable = FALSE]
      t == IF x \in Itself /\ (how = "left" \/ x \notin Manual)
           THEN [v EXCEPT !.of[x].destroyed = TRUE, !.of[x].heard = FALSE] ELSE v
  IN CASE how = "refused" -> CancelDrag(v, x)
       [] how = "left" /\ x \in Manual /\ v.of[x].actor ->
            AnimateEnd([v EXCEPT !.of[x].state = "init"], x)
       [] OTHER -> Complete(End([ActorDestroyed(t, x) EXCEPT !.of[x].state = "init"], x), x)

Free == dnd.cur = None /\ \A x \in Draggables : dnd.of[x].pressGrab => dnd.of[x].destroyed

\* _onButtonPress()
Press(x) ==
  /\ Free /\ ~dnd.pressed /\ dnd.presses < Presses /\ ~dnd.of[x].destroyed /\ x \notin Manual
  /\ dnd' = [dnd EXCEPT !.pressed = TRUE, !.presses = @ + 1, !.of[x].down = TRUE,
                        !.of[x].pressGrab = TRUE]

\* A press during an animation reaches the actor that holds the grab.
PressElsewhere ==
  /\ ~Free /\ ~dnd.pressed /\ dnd.presses < Presses
  /\ dnd' = [dnd EXCEPT !.pressed = TRUE, !.presses = @ + 1]

\* startDrag()
Start(u, x) == [u EXCEPT !.cur = x, !.of[x].state = "dragging", !.of[x].heard = TRUE,
                         !.of[x].pressGrab = FALSE, !.of[x].eventGrab = TRUE,
                         !.of[x].actor = TRUE]

\* _maybeStartDrag()
Motion(x) == /\ dnd.of[x].pressGrab /\ ~dnd.of[x].destroyed /\ dnd.cur = None
             /\ dnd' = Start(dnd, x)

\* WindowClone._onLongPress(): the button is down, the draggable does not know.
LongPress(x) ==
  /\ Free /\ ~dnd.pressed /\ dnd.presses < Presses /\ x \in Manual /\ ~dnd.of[x].destroyed
  /\ dnd' = Start([dnd EXCEPT !.pressed = TRUE, !.presses = @ + 1], x)

\* fakeRelease(), when the icon's menu opens.
FakeRelease(x) ==
  /\ dnd.cur = None /\ dnd.of[x].pressGrab /\ ~dnd.of[x].destroyed
  /\ dnd' = [dnd EXCEPT !.of[x].down = FALSE, !.of[x].pressGrab = FALSE]

\* _onEvent(): the release, wherever the grab sends it.
Release(how) ==
  /\ dnd.pressed
  /\ LET u == [dnd EXCEPT !.pressed = FALSE,
                          !.of = [y \in Draggables |-> [@[y] EXCEPT !.escaped = FALSE]]]
         x == CHOOSE y \in Draggables : u.of[y].eventGrab \/ (u.of[y].pressGrab /\ ~u.of[y].destroyed)
         v == [u EXCEPT !.of[x].down = FALSE]
     IN \/ /\ Free /\ how = "refused" /\ dnd' = u
        \/ /\ ~Free /\ v.of[x].state = "dragging" /\ dnd' = Dropped(v, x, how)
        \/ /\ ~Free /\ v.of[x].state # "dragging" /\ how = "refused"
           /\ dnd' = IF (v.of[x].actor \/ v.of[x].state = "cancelled") /\ ~v.of[x].anim
                     THEN Complete(v, x) ELSE [v EXCEPT !.of[x].pressGrab = FALSE]

Escape == /\ dnd.cur # None /\ dnd.of[dnd.cur].state = "dragging"
          /\ dnd' = [CancelDrag(dnd, dnd.cur) EXCEPT !.of[dnd.cur].escaped = dnd.pressed]

\* _onAnimationComplete()
AnimationComplete(x) ==
  /\ dnd.of[x].anim
  /\ dnd' = IF x \in Itself THEN FinishAnimation(End(dnd, x), x)
            ELSE End(ActorDestroyed(dnd, x), x)

\* The actor is destroyed: cancelled if it was dragged and the drop is not decided; the
\* listeners' own handlers end what they know to be going on.
Destroy(x) ==
  /\ ~dnd.of[x].destroyed
  /\ LET u == [dnd EXCEPT !.of[x].destroyed = TRUE]
         c == IF u.of[x].state = "dragging" /\ u.of[x].cancellable THEN CancelDrag(u, x) ELSE u
         gliding == u.of[x].anim /\ x \notin Itself
         v == [c EXCEPT !.of[x].heard = gliding /\ @, !.of[x].orphaned = gliding]
     IN dnd' = IF x \in Itself THEN ActorDestroyed(v, x) ELSE v

Next == \/ \E x \in Draggables : \/ Press(x) \/ Motion(x) \/ LongPress(x) \/ FakeRelease(x)
                                 \/ AnimationComplete(x) \/ Destroy(x)
        \/ \E how \in {"refused", "left", "taken"} : Release(how)
        \/ PressElsewhere \/ Escape

Spec == Init /\ [][Next]_dndVars
-----------------------------------------------------------------------------
TypeOK == dnd \in State

\* Nobody keeps the pointer: a grab is held only while a button is down or an animation is
\* about to end the drag, by the one draggable that is current; and a press that became no
\* drag has let go of it with the button, unless its actor went away under it.
GrabEnds == \A x \in Draggables :
  LET d == dnd.of[x]
  IN /\ d.eventGrab => dnd.cur = x /\ (dnd.pressed \/ d.anim)
     /\ dnd.cur = x => d.eventGrab
     /\ d.pressGrab => dnd.pressed \/ d.destroyed

\* Whoever heard a drag begin hears it end, unless the icon is destroyed as it glides back.
BeginsAreEnded == dnd.cur = None =>
  \A x \in Draggables : dnd.of[x].heard => dnd.of[x].orphaned

\* dnd.js on releases: nothing under the pointer is triggered by the release after Escape.
EscapeKeepsGrab == \A x \in Draggables : dnd.of[x].escaped => dnd.of[x].eventGrab

\* What was dragged does not stay on the stage.
NothingLeftOnStage == \A x \in Draggables : ~dnd.of[x].ghost
=============================================================================
