--------------------------- MODULE OverviewProofs ---------------------------
(***************************************************************************)
(* The overview's guarantees for every environment: the invariants of a    *)
(* resting and of a moving overview, and the order of its signals.         *)
(***************************************************************************)
EXTENDS Overview, TLAPS

\* The last signal tells which of the four situations the overview is in.
Situation(o) ==
  IF o.animating THEN IF o.target THEN "showing" ELSE "hiding"
  ELSE IF o.visible THEN "shown" ELSE "hidden"

\* What the animations and the signals leave behind, whatever is asked for.
Balanced(o) ==
  /\ o.unredirect = (IF o.visible THEN 1 ELSE 0)
  /\ o.coverPane = o.animating
  /\ o.active = o.visible
  /\ o.visible => o.inOverview
  /\ o.animating => o.visible
  /\ o.signal = Situation(o)

Sound(o) == o \in State /\ Balanced(o)

\* An overview at rest is visible only if it is asked for, and the windows are
\* hidden exactly then; only a refused request leaves it asked for and away.
Settled(o) == ~o.animating => (o.visible => o.shown) /\ o.inOverview = o.visible

Answered(o) == ~o.animating /\ o.shown => o.visible

\* No grab without an overview; a grab for every overview that rests.
Free(o) == ~o.visible => ~o.modal

Held(o) == ~o.animating /\ o.shown /\ ~o.inXdndDrag => o.modal

\* Two states that differ in their fields for requests and grabs at most.
SameShow(o, p) ==
  /\ p.visible = o.visible /\ p.animating = o.animating /\ p.target = o.target
  /\ p.inOverview = o.inOverview /\ p.signal = o.signal

SameRequest(o, p) ==
  /\ p.shown = o.shown /\ p.modal = o.modal
  /\ p.inXdndDrag = o.inXdndDrag /\ p.isDummy = o.isDummy
-----------------------------------------------------------------------------
(* The fields one at a time *)

\* The request alone changes nothing that is seen.
LEMMA SetShown ==
  ASSUME NEW o, Sound(o), NEW b \in BOOLEAN
  PROVE  LET p == [o EXCEPT !.shown = b]
         IN  /\ Sound(p) /\ SameShow(o, p) /\ p.shown = b
             /\ p.modal = o.modal /\ p.inXdndDrag = o.inXdndDrag /\ p.isDummy = o.isDummy
BY DEF Sound, State, Balanced, Situation, SameShow

\* The grab alone changes nothing that is seen.
LEMMA SetModal ==
  ASSUME NEW o, Sound(o), NEW b \in BOOLEAN
  PROVE  LET p == [o EXCEPT !.modal = b]
         IN  /\ Sound(p) /\ SameShow(o, p) /\ p.modal = b
             /\ p.shown = o.shown /\ p.inXdndDrag = o.inXdndDrag /\ p.isDummy = o.isDummy
BY DEF Sound, State, Balanced, Situation, SameShow

\* Entering alone changes no request and nothing that is drawn.
LEMMA SetInOverview ==
  ASSUME NEW o, Sound(o)
  PROVE  LET p == [o EXCEPT !.inOverview = TRUE]
         IN  /\ Sound(p) /\ SameRequest(o, p) /\ p.inOverview
             /\ p.visible = o.visible /\ p.animating = o.animating /\ p.target = o.target
             /\ p.signal = o.signal
BY DEF Sound, State, Balanced, Situation, SameRequest

\* The session mode alone changes nothing that is seen.
LEMMA SetSession ==
  ASSUME NEW o, Sound(o), NEW b \in BOOLEAN
  PROVE  LET p == [o EXCEPT !.isDummy = b]
         IN  /\ Sound(p) /\ SameShow(o, p) /\ p.isDummy = b
             /\ p.shown = o.shown /\ p.modal = o.modal /\ p.inXdndDrag = o.inXdndDrag
BY DEF Sound, State, Balanced, Situation, SameShow

\* A drag alone changes nothing that is seen.
LEMMA SetDrag ==
  ASSUME NEW o, Sound(o), NEW b \in BOOLEAN
  PROVE  LET p == [o EXCEPT !.inXdndDrag = b]
         IN  /\ Sound(p) /\ SameShow(o, p) /\ p.inXdndDrag = b
             /\ p.shown = o.shown /\ p.modal = o.modal /\ p.isDummy = o.isDummy
BY DEF Sound, State, Balanced, Situation, SameShow

\* The timer of a window's activation belongs to no other part.
LEMMA SetTimer ==
  ASSUME NEW o, Sound(o), NEW b \in BOOLEAN
  PROVE  LET p == [o EXCEPT !.switchTimer = b]
         IN  Sound(p) /\ SameShow(o, p) /\ SameRequest(o, p)
BY DEF Sound, State, Balanced, Situation, SameShow, SameRequest
-----------------------------------------------------------------------------
(* The methods *)

\* Starting to leave changes what is seen, never what is asked for or held.
LEMMA AnimateNotVisibleLeaves ==
  ASSUME NEW o, Sound(o)
  PROVE  LET p == AnimateNotVisible(o)
         IN  /\ Sound(p) /\ SameRequest(o, p)
             /\ p.inOverview = o.inOverview /\ p.visible = o.visible
             /\ IF o.animating \/ ~o.visible THEN p = o
                ELSE p.animating /\ p.signal = "hiding"
<1>1. CASE ~o.visible \/ o.animating
  BY <1>1 DEF AnimateNotVisible, Sound, Balanced, State, SameRequest
<1>2. CASE ~(~o.visible \/ o.animating)
  <2>1. AnimateNotVisible(o) = [o EXCEPT !.animating = TRUE, !.target = FALSE,
                                         !.coverPane = TRUE, !.signal = "hiding"]
    BY <1>2 DEF AnimateNotVisible, Emit, Sound, State
  <2>2. Sound(AnimateNotVisible(o))
    BY <2>1, <1>2 DEF Sound, Balanced, State, Situation, Signals
  <2> QED
    BY <2>1, <2>2, <1>2 DEF Sound, State, SameRequest
<1> QED
  BY <1>1, <1>2

\* Starting to enter shows the overview, unless it is seen already.
LEMMA AnimateVisibleEnters ==
  ASSUME NEW o, Sound(o), o.inOverview
  PROVE  LET p == AnimateVisible(o)
         IN  /\ Sound(p) /\ SameRequest(o, p)
             /\ p.inOverview /\ p.visible
             /\ IF o.visible THEN p = o ELSE p.animating /\ p.signal = "showing"
<1>1. CASE o.visible \/ o.animating
  BY <1>1 DEF AnimateVisible, Sound, Balanced, State, SameRequest
<1>2. CASE ~(o.visible \/ o.animating)
  <2>1. o.unredirect = 0
    BY <1>2 DEF Sound, Balanced, State
  <2>2. AnimateVisible(o) = Emit([o EXCEPT !.visible = TRUE, !.animating = TRUE, !.target = TRUE,
                                           !.unredirect = 1, !.coverPane = TRUE], "showing")
    BY <1>2, <2>1 DEF AnimateVisible
  <2>3. AnimateVisible(o) = [o EXCEPT !.visible = TRUE, !.animating = TRUE, !.target = TRUE,
                                      !.unredirect = 1, !.coverPane = TRUE,
                                      !.signal = "showing", !.active = TRUE]
    BY <2>2 DEF Emit, Sound, State
  <2>4. 1 \in 0..2 /\ "showing" \in Signals
    BY DEF Signals
  <2>5. AnimateVisible(o) \in State
    <3> DEFINE x == [o EXCEPT !.visible = TRUE, !.animating = TRUE, !.target = TRUE]
               y == [x EXCEPT !.unredirect = 1, !.coverPane = TRUE]
    <3>1. AnimateVisible(o) = [y EXCEPT !.signal = "showing", !.active = TRUE]
      BY <2>3 DEF Sound, State
    <3>2. x \in State
      BY DEF Sound, State
    <3> HIDE DEF x
    <3>3. y \in State
      BY <2>4, <3>2 DEF State
    <3> HIDE DEF y
    <3> QED
      BY <2>4, <3>1, <3>3 DEF State
  <2>6. Balanced(AnimateVisible(o))
    BY <2>3 DEF Sound, Balanced, State, Situation
  <2> QED
    BY <2>3, <2>5, <2>6, <1>2 DEF Sound, State, SameRequest
<1> QED
  BY <1>1, <1>2

\* The grab is given back only at rest.
LEMMA ReleaseKeeps ==
  ASSUME NEW o, Sound(o)
  PROVE  LET p == Release(o)
         IN  /\ Sound(p) /\ SameShow(o, p)
             /\ p.shown = o.shown /\ p.inXdndDrag = o.inXdndDrag /\ p.isDummy = o.isDummy
             /\ p.modal <=> o.modal /\ o.animating
<1>1. CASE o.animating
  <2>1. Release(o) = o
    BY <1>1 DEF Release, Sound, State
  <2> QED
    BY <1>1, <2>1 DEF SameShow
<1>2. CASE ~o.animating
  <2>1. Release(o) = [o EXCEPT !.modal = FALSE]
    BY <1>2 DEF Release, Sound, State
  <2> QED
    BY <1>2, <2>1, SetModal
<1> QED
  BY <1>1, <1>2

\* hide() takes the request back and starts to leave, or does nothing at all;
\* the grab stays for the animation.
LEMMA HideLeaves ==
  ASSUME NEW o, Sound(o), Settled(o), Free(o), NEW ctrl \in BOOLEAN
  PROVE  LET p == Hide(o, ctrl)
         IN  /\ Sound(p) /\ Settled(p) /\ Free(p)
             /\ p.modal = o.modal /\ p.inXdndDrag = o.inXdndDrag /\ p.isDummy = o.isDummy
             /\ p.visible = o.visible
             /\ \/ p = o
                \/ /\ ~p.shown
                   /\ p.signal = IF o.signal = "shown" THEN "hiding" ELSE o.signal
             /\ ~ctrl /\ ~o.isDummy => ~p.shown
<1>1. CASE o.isDummy \/ ~o.shown \/ ctrl
  BY <1>1 DEF Hide
<1>2. CASE ~(o.isDummy \/ ~o.shown \/ ctrl)
  <2> DEFINE asked == [o EXCEPT !.shown = FALSE]
             left == AnimateNotVisible(asked)
             p == Release(left)
  <2>1. Hide(o, ctrl) = p
    BY <1>2 DEF Hide
  <2>2. /\ Sound(asked) /\ SameShow(o, asked) /\ asked.shown = FALSE
        /\ asked.modal = o.modal /\ asked.inXdndDrag = o.inXdndDrag /\ asked.isDummy = o.isDummy
    BY SetShown
  <2>3. /\ Sound(left) /\ SameRequest(asked, left)
        /\ left.inOverview = asked.inOverview /\ left.visible = asked.visible
        /\ IF asked.animating \/ ~asked.visible THEN left = asked
           ELSE left.animating /\ left.signal = "hiding"
    BY <2>2, AnimateNotVisibleLeaves
  <2>4. /\ Sound(p) /\ SameShow(left, p)
        /\ p.shown = left.shown /\ p.inXdndDrag = left.inXdndDrag /\ p.isDummy = left.isDummy
        /\ p.modal <=> left.modal /\ left.animating
    BY <2>3, ReleaseKeeps
  <2> HIDE DEF asked, left, p
  <2>5. Settled(p) /\ Free(p) /\ ~p.shown /\ p.visible = o.visible
    BY <2>2, <2>3, <2>4 DEF Settled, Free, SameShow, SameRequest
  <2>6. p.modal = o.modal
    <3>1. p.modal <=> o.modal
      BY <2>2, <2>3, <2>4 DEF Free, SameShow, SameRequest
    <3> QED
      BY <3>1, <2>4 DEF Sound, State
  <2>7. p.signal = IF o.signal = "shown" THEN "hiding" ELSE o.signal
    BY <2>2, <2>3, <2>4 DEF Sound, Balanced, Situation, SameShow, SameRequest
  <2> QED
    BY <2>1, <2>2, <2>3, <2>4, <2>5, <2>6, <2>7 DEF SameRequest
<1> QED
  BY <1>1, <1>2

\* show() asks and enters, or, refused the grab, takes the request back; with
\* Ctrl held it forgets to.
LEMMA ShowEnters ==
  ASSUME NEW o, Sound(o), Settled(o), Free(o), NEW granted \in BOOLEAN, NEW ctrl \in BOOLEAN
  PROVE  LET p == Show(o, granted, ctrl)
         IN  /\ Sound(p) /\ Settled(p) /\ Free(p)
             /\ p.inXdndDrag = o.inXdndDrag /\ p.isDummy = o.isDummy
             /\ o.modal => p.modal
             /\ ~ctrl /\ Answered(o) => Answered(p)
             /\ ~ctrl /\ Held(o) => Held(p)
             /\ ~ctrl => \/ p.shown = o.shown /\ p.signal = o.signal
                         \/ /\ p.shown
                            /\ p.signal = IF o.signal = "hidden" THEN "showing" ELSE o.signal
<1>1. CASE o.isDummy \/ o.shown
  BY <1>1 DEF Show
<1>2. CASE ~(o.isDummy \/ o.shown)
  <2> DEFINE asked == [o EXCEPT !.shown = TRUE]
             hidden == Hide(asked, ctrl)
             synced == IF NeedsGrab(asked) THEN [asked EXCEPT !.modal = TRUE] ELSE asked
             away == [synced EXCEPT !.inOverview = TRUE]
             entered == AnimateVisible(away)
  <2>1. /\ Sound(asked) /\ SameShow(o, asked) /\ asked.shown = TRUE
        /\ asked.modal = o.modal /\ asked.inXdndDrag = o.inXdndDrag /\ asked.isDummy = o.isDummy
    BY SetShown
  <2>2. Settled(asked) /\ Free(asked) /\ ~asked.isDummy
    BY <1>2, <2>1 DEF Settled, Free, SameShow
  <2>3. o.animating \/ ~o.visible
    BY <1>2 DEF Settled
  <2>4. CASE NeedsGrab(asked) /\ ~granted
    <3>1. Show(o, granted, ctrl) = hidden
      BY <1>2, <2>4 DEF Show, SyncGrab
    <3>2. /\ Sound(hidden) /\ Settled(hidden) /\ Free(hidden)
          /\ hidden.modal = asked.modal /\ hidden.inXdndDrag = asked.inXdndDrag
          /\ hidden.isDummy = asked.isDummy /\ hidden.visible = asked.visible
          /\ \/ hidden = asked
             \/ /\ ~hidden.shown
                /\ hidden.signal = IF asked.signal = "shown" THEN "hiding" ELSE asked.signal
          /\ ~ctrl /\ ~asked.isDummy => ~hidden.shown
      BY <2>1, <2>2, HideLeaves
    <3>3. o.signal = "hidden"
      BY <2>1, <2>3, <2>4 DEF NeedsGrab, SameShow, Sound, Balanced, Situation
    <3> HIDE DEF asked, hidden
    <3>4. ~ctrl => hidden.shown = o.shown /\ hidden.signal = o.signal
      BY <1>2, <2>1, <2>2, <3>2, <3>3 DEF SameShow, Sound, State
    <3> QED
      BY <2>1, <2>2, <3>1, <3>2, <3>4 DEF Answered, Held, SameShow
  <2>5. CASE ~(NeedsGrab(asked) /\ ~granted)
    <3>1. Show(o, granted, ctrl) = entered
      BY <1>2, <2>1, <2>5 DEF Show, SyncGrab
    <3>2. /\ Sound(synced) /\ SameShow(o, synced) /\ synced.shown = TRUE
          /\ synced.inXdndDrag = o.inXdndDrag /\ synced.isDummy = o.isDummy
          /\ o.modal => synced.modal
      <4>1. CASE NeedsGrab(asked)
        BY <2>1, <4>1, SetModal DEF SameShow
      <4>2. CASE ~NeedsGrab(asked)
        BY <2>1, <4>2
      <4> QED
        BY <4>1, <4>2
    <3> HIDE DEF asked, synced
    <3>3. /\ Sound(away) /\ SameRequest(synced, away) /\ away.inOverview
          /\ away.visible = synced.visible /\ away.animating = synced.animating
          /\ away.target = synced.target /\ away.signal = synced.signal
      BY <3>2, SetInOverview
    <3> HIDE DEF away
    <3>4. /\ Sound(entered) /\ SameRequest(away, entered) /\ entered.inOverview /\ entered.visible
          /\ IF away.visible THEN entered = away ELSE entered.animating /\ entered.signal = "showing"
      BY <3>3, AnimateVisibleEnters
    <3> HIDE DEF entered
    <3>5. entered.animating
      BY <2>3, <3>2, <3>3, <3>4 DEF SameShow
    <3>6. entered.signal = IF o.signal = "hidden" THEN "showing" ELSE o.signal
      BY <2>3, <3>2, <3>3, <3>4 DEF SameShow, Sound, Balanced, Situation
    <3>7. entered.shown /\ entered.inXdndDrag = o.inXdndDrag /\ entered.isDummy = o.isDummy
          /\ (o.modal => entered.modal)
      BY <3>2, <3>3, <3>4 DEF SameRequest
    <3> QED
      BY <3>1, <3>4, <3>5, <3>6, <3>7 DEF Settled, Free, Answered, Held
  <2> QED
    BY <2>4, <2>5
<1> QED
  BY <1>1, <1>2

\* The end of the animation in: the overview rests or starts to leave.
LEMMA ShowDoneRests ==
  ASSUME NEW o, Sound(o), Settled(o), Free(o), o.animating, o.target, NEW granted \in BOOLEAN
  PROVE  LET p == AtShowDone(o, granted)
         IN  /\ Sound(p) /\ Settled(p) /\ Free(p)
             /\ p.inXdndDrag = o.inXdndDrag /\ p.isDummy = o.isDummy
             /\ o.modal => p.modal
             /\ Answered(p)
             /\ ~o.isDummy => Held(p)
             /\ o.signal = "showing"
             /\ p.shown = o.shown \/ ~p.shown
             /\ p.signal = IF p.shown THEN "shown" ELSE "hiding"
<1> DEFINE done == [o EXCEPT !.animating = FALSE, !.coverPane = FALSE, !.signal = "shown"]
           left == AnimateNotVisible(done)
           hidden == Hide(done, FALSE)
           held == [done EXCEPT !.modal = TRUE]
           p == AtShowDone(o, granted)
<1>1. Emit([o EXCEPT !.animating = FALSE, !.coverPane = FALSE], "shown") = done
  BY DEF Emit, Sound, State
<1>2. /\ Sound(done) /\ SameRequest(o, done) /\ done.visible /\ ~done.animating
      /\ done.inOverview /\ done.signal = "shown"
  BY DEF Sound, State, Balanced, Situation, Signals, SameRequest
<1>3. o.signal = "showing"
  BY DEF Sound, Balanced, Situation
<1>4. p = SyncGrab(IF done.shown THEN done ELSE left, granted, FALSE)
  BY <1>1 DEF AtShowDone
<1> HIDE DEF done, p
<1>5. CASE ~done.shown
  <2>1. /\ Sound(left) /\ SameRequest(done, left)
        /\ left.inOverview = done.inOverview /\ left.visible = done.visible
        /\ left.animating /\ left.signal = "hiding"
    BY <1>2, AnimateNotVisibleLeaves
  <2> HIDE DEF left
  <2>2. p = Release(left)
    BY <1>4, <1>5, <2>1 DEF SyncGrab, NeedsGrab, SameRequest
  <2>3. /\ Sound(p) /\ SameShow(left, p)
        /\ p.shown = left.shown /\ p.inXdndDrag = left.inXdndDrag /\ p.isDummy = left.isDummy
        /\ p.modal <=> left.modal /\ left.animating
    BY <2>1, <2>2, ReleaseKeeps
  <2> QED
    BY <1>2, <1>3, <1>5, <2>1, <2>3 DEF p, SameShow, SameRequest, Settled, Free, Answered, Held
<1>6. CASE done.shown /\ NeedsGrab(done) /\ ~granted
  <2>1. p = hidden
    BY <1>4, <1>6 DEF SyncGrab
  <2>2. Settled(done) /\ Free(done)
    BY <1>2, <1>6 DEF Settled, Free, Sound, State
  <2>3. /\ Sound(hidden) /\ Settled(hidden) /\ Free(hidden)
        /\ hidden.modal = done.modal /\ hidden.inXdndDrag = done.inXdndDrag
        /\ hidden.isDummy = done.isDummy /\ hidden.visible = done.visible
        /\ \/ hidden = done
           \/ /\ ~hidden.shown
              /\ hidden.signal = IF done.signal = "shown" THEN "hiding" ELSE done.signal
        /\ ~done.isDummy => ~hidden.shown
    BY <1>2, <2>2, HideLeaves
  <2> HIDE DEF hidden
  <2> QED
    BY <1>2, <1>3, <1>6, <2>1, <2>3 DEF p, SameRequest, Answered, Held
<1>7. CASE done.shown /\ NeedsGrab(done) /\ granted
  <2>1. p = held
    BY <1>4, <1>7 DEF SyncGrab
  <2>2. /\ Sound(held) /\ SameShow(done, held) /\ held.modal = TRUE
        /\ held.shown = done.shown /\ held.inXdndDrag = done.inXdndDrag /\ held.isDummy = done.isDummy
    BY <1>2, SetModal
  <2> HIDE DEF held
  <2>3. held.visible /\ ~held.animating /\ held.inOverview /\ held.signal = "shown" /\ held.shown
    BY <1>2, <1>7, <2>2 DEF SameShow
  <2>4. Settled(held) /\ Free(held) /\ Answered(held) /\ Held(held)
    BY <2>2, <2>3 DEF Settled, Free, Answered, Held, Sound, State
  <2> QED
    BY <1>2, <1>3, <2>1, <2>2, <2>3, <2>4 DEF p, SameRequest
<1>8. CASE done.shown /\ ~NeedsGrab(done)
  <2>1. p = done
    BY <1>4, <1>8 DEF SyncGrab
  <2>2. Settled(done) /\ Free(done) /\ Answered(done) /\ Held(done)
    BY <1>2, <1>8 DEF Settled, Free, Answered, Held, NeedsGrab, Sound, State
  <2> QED
    BY <1>2, <1>3, <1>8, <2>1, <2>2 DEF p, SameRequest
<1> QED
  BY <1>5, <1>6, <1>7, <1>8

\* The end of the animation out: the overview rests or starts to enter.
LEMMA HideDoneRests ==
  ASSUME NEW o, Sound(o), Settled(o), Free(o), o.animating, ~o.target, NEW granted \in BOOLEAN
  PROVE  LET p == AtHideDone(o, granted)
         IN  /\ Sound(p) /\ Settled(p) /\ Free(p)
             /\ p.inXdndDrag = o.inXdndDrag /\ p.isDummy = o.isDummy
             /\ o.modal /\ ~p.modal => ~p.visible
             /\ Answered(p) /\ Held(p)
             /\ o.signal = "hiding" /\ p.shown = o.shown
             /\ p.signal = IF o.shown THEN "showing" ELSE "hidden"
<1> DEFINE done == [o EXCEPT !.unredirect = 0, !.coverPane = FALSE, !.visible = FALSE,
                             !.animating = FALSE, !.signal = "hidden", !.active = FALSE]
           away == [done EXCEPT !.inOverview = FALSE]
           entered == AnimateVisible(done)
           p == AtHideDone(o, granted)
<1>1. o.signal = "hiding" /\ o.unredirect = 1 /\ o.inOverview
  BY DEF Sound, Balanced, Situation
<1>2. Emit([o EXCEPT !.unredirect = @ - 1, !.coverPane = FALSE,
                     !.visible = FALSE, !.animating = FALSE], "hidden") = done
  <2>1. o.unredirect - 1 = 0
    BY <1>1
  <2> QED
    BY <2>1 DEF Emit, Sound, State
<1>3. done \in State
  <2>1. 0 \in 0..2 /\ "hidden" \in Signals
    BY DEF Signals
  <2> QED
    BY <2>1 DEF Sound, State
<1>4. /\ Sound(done) /\ SameRequest(o, done) /\ ~done.visible /\ ~done.animating /\ done.inOverview
  <2>1. /\ done.visible = FALSE /\ done.animating = FALSE
        /\ done.coverPane = FALSE /\ done.active = FALSE
        /\ done.unredirect = 0 /\ done.signal = "hidden"
    BY DEF Sound, State
  <2>2. SameRequest(o, done)
    BY DEF Sound, State, SameRequest
  <2>3. done.inOverview
    BY <1>1 DEF Sound, State
  <2> HIDE DEF done
  <2>4. Balanced(done)
    BY <2>1 DEF Balanced, Situation
  <2> QED
    BY <1>3, <2>1, <2>2, <2>3, <2>4 DEF Sound
<1>5. p = SyncGrab(IF done.shown THEN entered ELSE away, granted, FALSE)
  BY <1>2 DEF AtHideDone
<1>6. /\ away.visible = done.visible /\ away.animating = done.animating /\ ~away.inOverview
      /\ SameRequest(done, away) /\ Sound(away)
  <2> HIDE DEF done
  <2>1. away \in State
    BY <1>3 DEF State
  <2>2. /\ away.visible = done.visible /\ away.animating = done.animating /\ ~away.inOverview
        /\ away.target = done.target /\ away.unredirect = done.unredirect
        /\ away.coverPane = done.coverPane /\ away.active = done.active
        /\ away.signal = done.signal
    BY <1>3 DEF State
  <2>3. SameRequest(done, away)
    BY <1>3 DEF State, SameRequest
  <2> HIDE DEF away
  <2>4. Balanced(away)
    BY <1>4, <2>2 DEF Sound, Balanced, Situation
  <2> QED
    BY <2>1, <2>2, <2>3, <2>4 DEF Sound
<1> HIDE DEF done, p
<1>7. CASE done.shown
  <2>1. /\ Sound(entered) /\ SameRequest(done, entered) /\ entered.inOverview /\ entered.visible
        /\ entered.animating /\ entered.signal = "showing"
    BY <1>4, AnimateVisibleEnters
  <2> HIDE DEF entered
  <2>2. p = entered
    BY <1>5, <1>7, <2>1 DEF SyncGrab, NeedsGrab, SameRequest
  <2>3. Settled(p) /\ Free(p) /\ Answered(p) /\ Held(p)
    BY <2>1, <2>2 DEF Settled, Free, Answered, Held
  <2> QED
    BY <1>1, <1>4, <1>7, <2>1, <2>2, <2>3 DEF p, SameRequest
<1>8. CASE ~done.shown
  <2> HIDE DEF away
  <2>1. p = Release(away)
    BY <1>5, <1>6, <1>8 DEF SyncGrab, NeedsGrab, SameRequest
  <2>2. /\ Sound(p) /\ SameShow(away, p)
        /\ p.shown = away.shown /\ p.inXdndDrag = away.inXdndDrag /\ p.isDummy = away.isDummy
        /\ p.modal <=> away.modal /\ away.animating
    BY <1>6, <2>1, ReleaseKeeps
  <2>3. p.signal = "hidden"
    BY <1>4, <1>6, <2>2 DEF SameShow, Sound, Balanced, Situation
  <2>4. ~p.visible /\ ~p.animating /\ ~p.inOverview /\ ~p.modal /\ ~p.shown
    BY <1>4, <1>6, <1>8, <2>2 DEF SameShow, SameRequest
  <2>5. Settled(p) /\ Free(p) /\ Answered(p) /\ Held(p)
    <3>1. p.inOverview = p.visible
      BY <2>2, <2>4 DEF Sound, State
    <3> QED
      BY <2>4, <3>1 DEF Settled, Free, Answered, Held
  <2>6. p.shown = o.shown /\ p.inXdndDrag = o.inXdndDrag /\ p.isDummy = o.isDummy
    BY <1>4, <1>6, <2>2 DEF SameRequest
  <2> QED
    BY <1>1, <1>4, <1>8, <2>2, <2>3, <2>4, <2>5, <2>6 DEF p, SameRequest
<1> QED
  BY <1>7, <1>8

\* The end of an XDND drag is a hide() that nothing but the session stops.
LEMMA DragEndHides ==
  ASSUME NEW o, Sound(o), Settled(o), Free(o)
  PROVE  LET p == AtDragEnd(o)
         IN  /\ Sound(p) /\ Settled(p) /\ Free(p)
             /\ p.isDummy = o.isDummy /\ p.modal = o.modal
             /\ Answered(o) => Answered(p)
             /\ ~o.isDummy => Held(p)
             /\ \/ p.shown = o.shown /\ p.signal = o.signal
                \/ /\ ~p.shown
                   /\ p.signal = IF o.signal = "shown" THEN "hiding" ELSE o.signal
<1> DEFINE dropped == [o EXCEPT !.inXdndDrag = FALSE]
           hidden == Hide(dropped, FALSE)
           p == [hidden EXCEPT !.switchTimer = FALSE]
<1>1. AtDragEnd(o) = p
  BY DEF AtDragEnd
<1>2. /\ Sound(dropped) /\ SameShow(o, dropped)
      /\ dropped.shown = o.shown /\ dropped.modal = o.modal /\ dropped.isDummy = o.isDummy
  BY SetDrag
<1> HIDE DEF dropped
<1>3. Settled(dropped) /\ Free(dropped)
  BY <1>2 DEF Settled, Free, SameShow
<1>4. /\ Sound(hidden) /\ Settled(hidden) /\ Free(hidden)
      /\ hidden.modal = dropped.modal /\ hidden.isDummy = dropped.isDummy
      /\ hidden.visible = dropped.visible
      /\ \/ hidden = dropped
         \/ /\ ~hidden.shown
            /\ hidden.signal = IF dropped.signal = "shown" THEN "hiding" ELSE dropped.signal
      /\ ~dropped.isDummy => ~hidden.shown
  BY <1>2, <1>3, HideLeaves
<1> HIDE DEF hidden
<1>5. Sound(p) /\ SameShow(hidden, p) /\ SameRequest(hidden, p)
  BY <1>4, SetTimer
<1> HIDE DEF p
<1> QED
  BY <1>1, <1>2, <1>3, <1>4, <1>5 DEF SameShow, SameRequest, Settled, Free, Answered, Held
-----------------------------------------------------------------------------
(* The steps *)

\* The inductive invariant. A Ctrl+click may leave a request unanswered, a
\* change of session an overview without a grab; without them neither happens.
IInv == /\ Sound(ov) /\ Settled(ov) /\ Free(ov)
        /\ drags \subseteq InnerDrags
        /\ CtrlClicks = FALSE => Answered(ov)
        /\ CtrlClicks = FALSE /\ Modes \subseteq {TRUE} => ~ov.isDummy /\ Held(ov)

\* What a step may do to the request, the signal and the grab.
Allowed ==
  /\ ov.modal /\ ~ov'.modal => ov.animating /\ ~ov.target /\ ~ov'.visible
  /\ CtrlClicks = FALSE => Promise!Next \/ UNCHANGED <<ov.shown, ov.signal>>

\* What the instance allows of grabs and clicks.
LEMMA Constants ==
  /\ Granted \subseteq BOOLEAN /\ Ctrl \subseteq BOOLEAN
  /\ CtrlClicks = FALSE => Ctrl = {FALSE}
BY DEF Granted, Ctrl

\* The overview starts hidden, at rest and without the grab.
LEMMA InitIInv == Init => IInv
BY DEF Init, IInv, Sound, State, Signals, Balanced, Situation, Settled, Free, Answered, Held

\* Nothing but the end of the animation out gives up the grab.
LEMMA NextAllowed == IInv /\ Next => IInv' /\ Allowed
<1> SUFFICES ASSUME IInv, Next PROVE IInv' /\ Allowed
  OBVIOUS
<1> USE DEF Promise!Next, Promise!AskToShow, Promise!AskToHide, Promise!EnterDone,
            Promise!LeaveDone
<1>0. Sound(ov) /\ Settled(ov) /\ Free(ov)
  BY DEF IInv
<1>1. ASSUME NEW granted \in Granted, NEW ctrl \in Ctrl, ov' = Show(ov, granted, ctrl),
             UNCHANGED drags
      PROVE  IInv' /\ Allowed
  <2>1. granted \in BOOLEAN /\ ctrl \in BOOLEAN /\ (CtrlClicks = FALSE => ~ctrl)
    BY <1>1, Constants
  <2>2. /\ Sound(ov') /\ Settled(ov') /\ Free(ov')
        /\ ov'.inXdndDrag = ov.inXdndDrag /\ ov'.isDummy = ov.isDummy
        /\ ov.modal => ov'.modal
        /\ ~ctrl /\ Answered(ov) => Answered(ov')
        /\ ~ctrl /\ Held(ov) => Held(ov')
        /\ ~ctrl => \/ ov'.shown = ov.shown /\ ov'.signal = ov.signal
                    \/ /\ ov'.shown
                       /\ ov'.signal = IF ov.signal = "hidden" THEN "showing" ELSE ov.signal
    BY <1>0, <1>1, <2>1, ShowEnters
  <2>3. ov'.shown => ov'.shown = TRUE
    BY <2>2 DEF Sound, State
  <2>4. IInv'
    BY <1>1, <2>1, <2>2 DEF IInv
  <2>5. Allowed
    BY <2>1, <2>2, <2>3 DEF Allowed
  <2> QED
    BY <2>4, <2>5
<1>2. ASSUME NEW ctrl \in BOOLEAN, ov' = Hide(ov, ctrl), UNCHANGED drags
      PROVE  IInv' /\ Allowed
  <2>2. /\ Sound(ov') /\ Settled(ov') /\ Free(ov')
        /\ ov'.modal = ov.modal /\ ov'.inXdndDrag = ov.inXdndDrag /\ ov'.isDummy = ov.isDummy
        /\ ov'.visible = ov.visible
        /\ \/ ov' = ov
           \/ /\ ~ov'.shown
              /\ ov'.signal = IF ov.signal = "shown" THEN "hiding" ELSE ov.signal
    BY <1>0, <1>2, HideLeaves
  <2>3. ~ov'.shown => ov'.shown = FALSE
    BY <2>2 DEF Sound, State
  <2>4. IInv'
    BY <1>2, <2>2 DEF IInv, Answered, Held
  <2>5. Allowed
    BY <2>2, <2>3 DEF Allowed
  <2> QED
    BY <2>4, <2>5
<1>3. CASE RequestShow
  BY <1>1, <1>3 DEF RequestShow
<1>4. CASE RequestHide
  BY <1>2, <1>4, Constants DEF RequestHide
<1>5. ASSUME RequestToggle PROVE IInv' /\ Allowed
  <2>1. PICK granted \in Granted, ctrl \in Ctrl :
          ov' = Toggle(ov, granted, ctrl) /\ UNCHANGED drags
    BY <1>5 DEF RequestToggle
  <2>2. ctrl \in BOOLEAN
    BY Constants
  <2>3. CASE ov.visible
    BY <1>2, <2>1, <2>2, <2>3 DEF Toggle
  <2>4. CASE ~ov.visible
    BY <1>1, <2>1, <2>4 DEF Toggle
  <2> QED
    BY <2>3, <2>4
<1>6. CASE CornerToggle
  BY <1>5, <1>6 DEF CornerToggle
<1>7. CASE Relayout
  BY <1>2, <1>7 DEF Relayout
<1>8. CASE ShowDone
  <2>1. PICK granted \in Granted : ov' = AtShowDone(ov, granted)
    BY <1>8 DEF ShowDone
  <2>2. granted \in BOOLEAN /\ ov.animating /\ ov.target /\ UNCHANGED drags
    BY <1>8, Constants DEF ShowDone
  <2>3. /\ Sound(ov') /\ Settled(ov') /\ Free(ov')
        /\ ov'.inXdndDrag = ov.inXdndDrag /\ ov'.isDummy = ov.isDummy
        /\ ov.modal => ov'.modal
        /\ Answered(ov')
        /\ ~ov.isDummy => Held(ov')
        /\ ov.signal = "showing"
        /\ ov'.shown = ov.shown \/ ~ov'.shown
        /\ ov'.signal = IF ov'.shown THEN "shown" ELSE "hiding"
    BY <1>0, <2>1, <2>2, ShowDoneRests
  <2>4. IInv'
    BY <2>2, <2>3 DEF IInv
  <2>5. ~ov'.shown => ov'.shown = FALSE
    BY <2>3 DEF Sound, State
  <2>6. Promise!EnterDone
    BY <2>3, <2>5 DEF Promise!EnterDone
  <2>7. Allowed
    BY <2>3, <2>6 DEF Allowed
  <2> QED
    BY <2>4, <2>7
<1>9. CASE HideDone
  <2>1. PICK granted \in Granted : ov' = AtHideDone(ov, granted)
    BY <1>9 DEF HideDone
  <2>2. granted \in BOOLEAN /\ ov.animating /\ ~ov.target /\ UNCHANGED drags
    BY <1>9, Constants DEF HideDone
  <2>3. /\ Sound(ov') /\ Settled(ov') /\ Free(ov')
        /\ ov'.inXdndDrag = ov.inXdndDrag /\ ov'.isDummy = ov.isDummy
        /\ ov.modal /\ ~ov'.modal => ~ov'.visible
        /\ Answered(ov') /\ Held(ov')
        /\ ov.signal = "hiding" /\ ov'.shown = ov.shown
        /\ ov'.signal = IF ov.shown THEN "showing" ELSE "hidden"
    BY <1>0, <2>1, <2>2, HideDoneRests
  <2>4. IInv'
    BY <2>2, <2>3 DEF IInv
  <2>5. Allowed
    BY <2>2, <2>3 DEF Allowed
  <2> QED
    BY <2>4, <2>5
<1>10. CASE DragBegin
  <2>1. ov' = [ov EXCEPT !.inXdndDrag = TRUE] /\ UNCHANGED drags
    BY <1>10 DEF DragBegin
  <2>2. /\ Sound(ov') /\ SameShow(ov, ov') /\ ov'.inXdndDrag = TRUE
        /\ ov'.shown = ov.shown /\ ov'.modal = ov.modal /\ ov'.isDummy = ov.isDummy
    BY <1>0, <2>1, SetDrag
  <2> QED
    BY <2>1, <2>2 DEF IInv, Allowed, SameShow, Settled, Free, Answered, Held
<1>11. CASE DragMotion
  <2>1. PICK over \in BOOLEAN : ov' = [ov EXCEPT !.switchTimer = over]
    BY <1>11 DEF DragMotion
  <2>2. Sound(ov') /\ SameShow(ov, ov') /\ SameRequest(ov, ov') /\ UNCHANGED drags
    BY <1>0, <1>11, <2>1, SetTimer DEF DragMotion
  <2> QED
    BY <2>2 DEF IInv, Allowed, SameShow, SameRequest, Settled, Free, Answered, Held
<1>12. CASE WindowSwitch
  <2> DEFINE fired == [ov EXCEPT !.switchTimer = FALSE]
  <2>1. ov' = Hide(fired, FALSE) /\ UNCHANGED drags
    BY <1>12 DEF WindowSwitch
  <2>2. Sound(fired) /\ SameShow(ov, fired) /\ SameRequest(ov, fired)
    BY <1>0, SetTimer
  <2> HIDE DEF fired
  <2>3. Settled(fired) /\ Free(fired)
    BY <1>0, <2>2 DEF Settled, Free, SameShow, SameRequest
  <2>4. /\ Sound(ov') /\ Settled(ov') /\ Free(ov')
        /\ ov'.modal = fired.modal /\ ov'.inXdndDrag = fired.inXdndDrag
        /\ ov'.isDummy = fired.isDummy /\ ov'.visible = fired.visible
        /\ \/ ov' = fired
           \/ /\ ~ov'.shown
              /\ ov'.signal = IF fired.signal = "shown" THEN "hiding" ELSE fired.signal
    BY <2>1, <2>2, <2>3, HideLeaves
  <2>5. ~ov'.shown => ov'.shown = FALSE
    BY <2>4 DEF Sound, State
  <2>6. IInv'
    BY <2>1, <2>2, <2>4 DEF IInv, Answered, Held, SameShow, SameRequest
  <2>7. Allowed
    BY <2>2, <2>4, <2>5 DEF Allowed, SameShow, SameRequest
  <2> QED
    BY <2>6, <2>7
<1>13. CASE DragEnd
  <2>1. ov' = AtDragEnd(ov) /\ drags' = drags \ {"item"}
    BY <1>13 DEF DragEnd
  <2>2. /\ Sound(ov') /\ Settled(ov') /\ Free(ov')
        /\ ov'.isDummy = ov.isDummy /\ ov'.modal = ov.modal
        /\ Answered(ov) => Answered(ov')
        /\ ~ov.isDummy => Held(ov')
        /\ \/ ov'.shown = ov.shown /\ ov'.signal = ov.signal
           \/ /\ ~ov'.shown
              /\ ov'.signal = IF ov.signal = "shown" THEN "hiding" ELSE ov.signal
    BY <1>0, <2>1, DragEndHides
  <2>3. ~ov'.shown => ov'.shown = FALSE
    BY <2>2 DEF Sound, State
  <2>4. IInv'
    BY <2>1, <2>2 DEF IInv
  <2>5. Allowed
    BY <2>2, <2>3 DEF Allowed
  <2> QED
    BY <2>4, <2>5
<1>14. CASE BeginInnerDrag
  BY <1>14 DEF BeginInnerDrag, IInv, Allowed
<1>15. CASE EndInnerDrag
  BY <1>15 DEF EndInnerDrag, IInv, Allowed
<1>16. CASE SessionUpdated
  <2>1. PICK hasOverview \in Modes : ov' = [ov EXCEPT !.isDummy = ~hasOverview]
    BY <1>16 DEF SessionUpdated
  <2>2. hasOverview \in BOOLEAN /\ (~hasOverview) \in BOOLEAN
    BY OverviewAssumption
  <2>3. /\ Sound(ov') /\ SameShow(ov, ov') /\ ov'.isDummy = ~hasOverview
        /\ ov'.shown = ov.shown /\ ov'.modal = ov.modal /\ ov'.inXdndDrag = ov.inXdndDrag
    BY <1>0, <2>1, <2>2, SetSession
  <2>4. UNCHANGED drags /\ (Modes \subseteq {TRUE} => ov'.isDummy = FALSE)
    BY <1>16, <2>3 DEF SessionUpdated
  <2> QED
    BY <2>3, <2>4 DEF IInv, Allowed, SameShow, Settled, Free, Answered, Held
<1> QED
  BY <1>3, <1>4, <1>5, <1>6, <1>7, <1>8, <1>9, <1>10, <1>11, <1>12, <1>13, <1>14, <1>15, <1>16
     DEF Next

\* Steps and stuttering keep the inductive invariant and are allowed.
LEMMA StepAllowed == IInv /\ [Next]_vars => IInv' /\ Allowed
<1>1. CASE Next
  BY <1>1, NextAllowed
<1>2. CASE UNCHANGED vars
  BY <1>2 DEF vars, IInv, Allowed
<1> QED
  BY <1>1, <1>2
-----------------------------------------------------------------------------
(* The theorems *)

\* The inductive invariant holds in every environment.
THEOREM Invariance == Spec => []IInv
<1> QED
  BY InitIInv, StepAllowed, PTL DEF Spec

\* The overview keeps its types, whatever is asked of it (all of overview.js).
THEOREM TypeCorrect == Spec => []TypeOK
<1>1. IInv => TypeOK
  BY DEF IInv, Sound, TypeOK
<1> QED
  BY <1>1, Invariance, PTL

\* Unredirection, the cover pane and OverviewActive follow the visible overview
\* for every order of requests, drags, refusals and sessions.
THEOREM AlwaysBalanced == Spec => []SideEffectsBalanced
<1>1. IInv => SideEffectsBalanced
  BY DEF IInv, Sound, Balanced, SideEffectsBalanced
<1> QED
  BY <1>1, Invariance, PTL

\* Without Ctrl+clicks no request is lost, also when the grab is refused.
THEOREM NoRequestLost == ASSUME CtrlClicks = FALSE PROVE Spec => []AtRestAsAsked
<1>1. IInv => AtRestAsAsked
  <2> SUFFICES ASSUME IInv, ~ov.animating
               PROVE  ov.visible = ov.shown /\ ov.inOverview = ov.visible
    BY DEF AtRestAsAsked
  <2>1. ov.visible <=> ov.shown
    BY DEF IInv, Settled, Answered
  <2>2. ov \in State
    BY DEF IInv, Sound
  <2>3. ov.visible = ov.shown
    BY <2>1, <2>2 DEF State
  <2> QED
    BY <2>3 DEF IInv, Settled
<1> QED
  BY <1>1, Invariance, PTL

\* In a session that keeps its overview, and without Ctrl+clicks, the resting
\* overview has the grab and a hidden one has none.
THEOREM GrabFollowsOverview ==
  ASSUME CtrlClicks = FALSE, Modes \subseteq {TRUE}
  PROVE  Spec => []GrabFollows
<1>1. IInv => GrabFollows
  BY DEF IInv, Free, Held, GrabFollows
<1> QED
  BY <1>1, Invariance, PTL

\* In every environment the grab is given up by the end of the animation out
\* and by nothing else (_syncGrab()).
THEOREM GrabHeld == Spec => GrabHeldUntilHidden
<1>1. Allowed => (ov.modal /\ ~ov'.modal => ov.animating /\ ~ov.target /\ ~ov'.visible)
  BY DEF Allowed
<1> QED
  BY <1>1, StepAllowed, Invariance, PTL DEF GrabHeldUntilHidden, Spec

\* Without Ctrl+clicks the overview's signals and requests take the steps of
\* OverviewPromise and no other (the safety part of KeepsPromise).
THEOREM SignalsInOrder ==
  ASSUME CtrlClicks = FALSE
  PROVE  Spec => Promise!Init /\ [][Promise!Next]_(Promise!vars)
<1>1. Init => Promise!Init
  BY DEF Init, Promise!Init
<1>2. Allowed => [Promise!Next]_(Promise!vars)
  BY DEF Allowed, Promise!vars
<1> QED
  BY <1>1, <1>2, StepAllowed, Invariance, PTL DEF Spec
=============================================================================
