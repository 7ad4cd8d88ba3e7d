----------------------------- MODULE Thumbnails -----------------------------
(***************************************************************************)
(* The ThumbnailsBox of workspaceThumbnail.js: one thumbnail for each      *)
(* workspace while the overview is visible, and the states through which   *)
(* they slide out, collapse and slide in, one step after another, while    *)
(* workspaces go on coming and going, the active one changes and the       *)
(* monitors change.                                                        *)
(***************************************************************************)
EXTENDS Integers, SequencesExt

CONSTANTS MaxWorkspaces,   \* bound: the workspaces there are at a time
          MaxMade          \* bound: workspaces ever made

VARIABLE th   \* the workspaces and the box

thVars == <<th>>

Thumb == [of    : 1..MaxMade,      \* metaWorkspace
          state : {"NEW", "ANIMATING_IN", "NORMAL",
                   "REMOVING", "ANIMATING_OUT", "ANIMATED_OUT", "COLLAPSING"}]

\* The scale that so many workspaces need; a smaller number is a larger thumbnail.
Needed(n) == IF n > 2 THEN n ELSE 2
Scales == -1..MaxWorkspaces        \* 0: unset; -1: between two

State == [made    : 1..MaxMade,
          list    : Seq(1..MaxMade),     \* mutter's workspaces
          shown   : BOOLEAN,             \* between 'showing' and 'hidden'
          thumbs  : Seq(Thumb),          \* _thumbnails
          queued  : BOOLEAN,             \* _stateUpdateQueued
          later   : BOOLEAN,             \* the callback of before the redraw
          moving  : BOOLEAN,             \* _animatingIndicator
          target  : Scales,              \* _targetScale
          scale   : Scales,              \* _scale
          pending : BOOLEAN,             \* _pendingScaleUpdate
          easing  : 0..MaxWorkspaces,    \* the scale that is being eased to, or 0
          crossed : BOOLEAN]  \* history: a workspace changed after the place of a thumbnail
                              \* that was leaving, or the box was made anew while it was
                              \* being scaled

Init == th = [made |-> 1, list |-> <<1>>, shown |-> FALSE, thumbs |-> <<>>, queued |-> FALSE,
              later |-> FALSE, moving |-> FALSE, target |-> 0, scale |-> 0, pending |-> FALSE,
              easing |-> 0, crossed |-> FALSE]
-----------------------------------------------------------------------------
Valid(t) == t.state \in {"NEW", "ANIMATING_IN", "NORMAL"}
Some(u, s) == \E i \in DOMAIN u.thumbs : u.thumbs[i].state = s
LeavingUpTo(u, k) == \E i \in DOMAIN u.thumbs : i <= k /\ ~Valid(u.thumbs[i])

\* All thumbnails of a state get another.
Turn(u, s, t) == [u EXCEPT !.thumbs = [i \in DOMAIN @ |-> IF @[i].state = s
                                                          THEN [@[i] EXCEPT !.state = t] ELSE @[i]]]

\* _queueUpdateStates()
QueueUpdate(u) == IF u.queued THEN u ELSE [u EXCEPT !.queued = TRUE, !.later = TRUE]

\* addThumbnails(): new ones slide in, but for the first and those of a drop.
AddThumb(u, s, splice) ==
  QueueUpdate([u EXCEPT !.thumbs =
    Append(@, [of |-> s, state |-> IF splice THEN "NORMAL" ELSE "NEW"])])

\* _createThumbnails(), with the flags of an update that may still be queued reset.
Create(u) == QueueUpdate(
  [u EXCEPT !.thumbs = [i \in DOMAIN u.list |-> [of |-> u.list[i], state |-> "NORMAL"]],
            !.target = 0, !.scale = 0, !.pending = FALSE, !.queued = FALSE, !.shown = TRUE,
            !.crossed = @ \/ u.easing # 0])

Showing == ~th.shown /\ th' = Create(th)

\* _destroyThumbnails(): their transitions end with them.
Destroy(u) == [u EXCEPT !.thumbs = <<>>]
Hidden == th.shown /\ th' = [Destroy(th) EXCEPT !.shown = FALSE]
MonitorsChanged == th.shown /\ th' = Create(Destroy(th))

\* A workspace is appended: by the user, or by a drop between two thumbnails, whose
\* place then slides in as if it were new.
Appended(u, splice) ==
  LET s == u.made + 1
      v == [u EXCEPT !.made = s, !.list = Append(@, s)]
  IN IF u.shown THEN AddThumb(v, s, splice) ELSE v
CanAppend == th.made < MaxMade /\ Len(th.list) < MaxWorkspaces

AppendWorkspace == CanAppend /\ th' = Appended(th, FALSE)

Drop(i) ==
  /\ th.shown /\ CanAppend /\ i \in DOMAIN th.list
  /\ th' = QueueUpdate([Appended(th, TRUE) EXCEPT !.thumbs[i].state = "NEW",
                                                  !.crossed = @ \/ LeavingUpTo(th, i)])

\* removeThumbnails(): the k-th of those that are not leaving.
RemoveThumb(u, k) == QueueUpdate(
  [u EXCEPT !.thumbs = [i \in DOMAIN @ |->
     IF Valid(@[i]) /\ Len(SelectSeq(SubSeq(@, 1, i), Valid)) = k
     THEN [@[i] EXCEPT !.state = "REMOVING"] ELSE @[i]]])

\* Mutant of FirstMismatch: workspaces go from the end.
LastThumb(u) == Len(SelectSeq(u.thumbs, Valid))

\* _workspacesChanged() looks for the first thumbnail that is not of the workspace in
\* its place, among all of them.
FirstMismatch(u) ==
  LET wrong == {i \in 1..Len(SelectSeq(u.thumbs, Valid)) :
                  i > Len(u.list) \/ u.thumbs[i].of # u.list[i]}
  IN CHOOSE i \in wrong : \A j \in wrong : i <= j

RemoveWorkspace(i) ==
  /\ i \in DOMAIN th.list /\ Len(th.list) > 1
  /\ LET u == [th EXCEPT !.list = RemoveAt(@, i)]
     IN th' = IF th.shown
              THEN [RemoveThumb(u, FirstMismatch(u)) EXCEPT !.crossed = @ \/ LeavingUpTo(th, i)]
              ELSE u

\* _activeWorkspaceChanged(): the states wait for the indicator.
SwitchWorkspace == th.shown /\ th' = [th EXCEPT !.moving = TRUE]

\* Mutant of IndicatorThere: the update it held up is not queued again.
IndicatorQuiet == th.moving /\ th' = [th EXCEPT !.moving = FALSE]

IndicatorThere == th.moving /\ th' = QueueUpdate([th EXCEPT !.moving = FALSE])

\* An allocation finds that another scale is needed.
Allocate ==
  /\ th.thumbs # <<>> /\ th.target # Needed(Len(th.list))
  /\ th' = QueueUpdate(IF th.target > 0
                       THEN [th EXCEPT !.target = Needed(Len(th.list)), !.pending = TRUE]
                       ELSE [th EXCEPT !.target = Needed(Len(th.list)), !.scale = Needed(Len(th.list))])

\* _updateStates(): each step waits for the one before.
Rescale(u) == IF u.pending
              THEN [u EXCEPT !.pending = FALSE, !.easing = u.target, !.scale = -1] ELSE u
UpdateStates ==
  /\ th.later
  /\ LET t == [th EXCEPT !.later = FALSE, !.queued = FALSE]
         u == Turn(t, "REMOVING", "ANIMATING_OUT")
         v == Rescale(Turn(u, "ANIMATED_OUT", "COLLAPSING"))
     IN th' = IF t.moving THEN t
              ELSE IF Some(u, "ANIMATING_OUT") THEN u
              ELSE IF v.scale # v.target \/ Some(v, "COLLAPSING") THEN v
              ELSE Turn(v, "NEW", "ANIMATING_IN")

\* The eases end.
SetState(i, s) == [th EXCEPT !.thumbs[i].state = s]
SlidOut(i) == /\ i \in DOMAIN th.thumbs /\ th.thumbs[i].state = "ANIMATING_OUT"
              /\ th' = QueueUpdate(SetState(i, "ANIMATED_OUT"))
SlidIn(i) == /\ i \in DOMAIN th.thumbs /\ th.thumbs[i].state = "ANIMATING_IN"
             /\ th' = SetState(i, "NORMAL")
Collapsed(i) == /\ i \in DOMAIN th.thumbs /\ th.thumbs[i].state = "COLLAPSING"
                /\ th' = QueueUpdate([th EXCEPT !.thumbs = RemoveAt(@, i)])
Scaled == /\ th.easing # 0
          /\ th' = QueueUpdate([th EXCEPT !.scale = th.easing, !.easing = 0])

Next == \/ Showing \/ Hidden \/ MonitorsChanged \/ AppendWorkspace \/ SwitchWorkspace
        \/ IndicatorThere \/ Allocate \/ UpdateStates \/ Scaled
        \/ \E i \in 1..MaxMade : \/ Drop(i) \/ RemoveWorkspace(i)
                                 \/ SlidOut(i) \/ SlidIn(i) \/ Collapsed(i)

Spec == Init /\ [][Next]_thVars
-----------------------------------------------------------------------------
TypeOK == th \in State

\* The thumbnails that are not leaving are those of the workspaces, in their order;
\* unless a workspace after one that is leaving changed: that one is then counted, too.
ThumbnailsFollow == th.shown /\ ~th.crossed =>
  LET valid == SelectSeq(th.thumbs, Valid)
  IN /\ Len(valid) = Len(th.list)
     /\ \A i \in DOMAIN valid : valid[i].of = th.list[i]

\* A thumbnail that has a step before it, in or out, has something that will take it: an
\* update that is queued, or an animation that queues one at its end.
StepsGoOn == th.shown /\ ~th.crossed /\ (Some(th, "NEW") \/ Some(th, "REMOVING") \/ Some(th, "ANIMATED_OUT")) =>
  \/ th.later \/ th.moving \/ th.easing # 0
  \/ Some(th, "ANIMATING_OUT") \/ Some(th, "COLLAPSING")
=============================================================================
