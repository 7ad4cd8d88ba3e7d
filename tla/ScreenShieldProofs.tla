------------------------- MODULE ScreenShieldProofs -------------------------
(***************************************************************************)
(* The screen shield's guarantees for every environment: whatever fails,   *)
(* arrives late or overlaps, a black screen is watched, a locked shield    *)
(* covers the screen and owns the input and a dialog belongs to one        *)
(* locking; and a shield that is treated calmly keeps the session modes in *)
(* step and gives everything back.                                         *)
(***************************************************************************)
EXTENDS ScreenShield, TLAPS

\* The user's own mode lies below all others.
Good(s) == s \in State /\ s.modes # <<>> /\ s.modes[1] = "user"

\* What no method may break, however roughly the shield is handled.
Covering(s) == s.locked => s.visible /\ s.modal /\ Password

Asking(s) ==
  /\ s.dialog => s.locked /\ s.curtain # "shown"
  /\ s.dialogModal = s.dialog
  /\ s.verified => s.dialog
  /\ s.reading => s.dialog
  /\ s.finishing # "animated" /\ (s.finishing # "no" => s.reading)

Watched(s) == s.long # "off" \/ s.short # "off" => s.watch

Safe(s) == Good(s) /\ Covering(s) /\ Asking(s) /\ Watched(s)

\* The curtain that was let go does not come back down on a dialog.
Returning(s) == s.motion = "return" => s.curtain = "hiding" /\ ~s.dialog

\* No dialog is created and no curtain let go.
Quiet(s, p) ==
  /\ p.dialog => s.dialog
  /\ p.motion = "return" => s.motion = "return" /\ p.curtain = s.curtain
  /\ p.rough = s.rough

\* The fields that putting the shield up or away leaves alone.
Aside(s, p) ==
  /\ Quiet(s, p)
  /\ p.dragging = s.dragging /\ p.beats = s.beats /\ p.orphans = s.orphans
  /\ p.promised = s.promised /\ p.enabled = s.enabled
  /\ p.lockTimer => s.lockTimer

\* Two states that differ in the curtain and the session modes at most.
SameButCurtain(s, p) ==
  /\ Aside(s, p) /\ p.lockTimer = s.lockTimer
  /\ p.dialog = s.dialog /\ p.verified = s.verified /\ p.reading = s.reading
  /\ p.finishing = s.finishing /\ p.leaving = s.leaving /\ p.visible = s.visible
  /\ p.modal = s.modal /\ p.dialogModal = s.dialogModal /\ p.active = s.active
  /\ p.locked = s.locked /\ p.long = s.long /\ p.short = s.short /\ p.watch = s.watch

\* Two states that safety does not tell apart.
SameSafety(s, p) ==
  /\ p.modes = s.modes /\ p.curtain = s.curtain /\ p.motion = s.motion
  /\ p.dialog = s.dialog /\ p.verified = s.verified /\ p.reading = s.reading
  /\ p.finishing = s.finishing /\ p.dialogModal = s.dialogModal
  /\ p.visible = s.visible /\ p.modal = s.modal /\ p.locked = s.locked
  /\ p.long = s.long /\ p.short = s.short /\ p.watch = s.watch

LEMMA StillSafe ==
  ASSUME NEW s, Safe(s), NEW p \in State, SameSafety(s, p)
  PROVE  Safe(p) /\ (Returning(s) => Returning(p))
<1>1. Good(p) /\ Covering(p)
  BY DEF Safe, SameSafety, Good, Covering
<1>2. Asking(p) /\ Watched(p)
  BY DEF Safe, SameSafety, Asking, Watched
<1>3. Returning(s) => Returning(p)
  BY DEF SameSafety, Returning
<1> QED
  BY <1>1, <1>2, <1>3 DEF Safe

Raised == {"unlock-dialog", "lock-screen"}
-----------------------------------------------------------------------------
(* Session modes and the curtain *)

\* Pushing a mode keeps the user's mode below.
LEMMA PushModeKeeps ==
  ASSUME NEW s, Good(s), NEW mode \in Raised
  PROVE  LET p == PushMode(s, mode)
         IN  /\ Good(p) /\ SameButCurtain(s, p)
             /\ p.curtain = s.curtain /\ p.motion = s.motion
<1> USE DEF Good, State, SameButCurtain, Aside, Quiet, Raised
<1>1. CASE Mode(s) = mode
  BY <1>1 DEF PushMode
<1>2. CASE Mode(s) # mode
  <2>1. PushMode(s, mode) = [s EXCEPT !.modes = Append(s.modes, mode)]
    BY <1>2 DEF PushMode
  <2>2. /\ Append(s.modes, mode) \in Seq({"user", "unlock-dialog", "lock-screen"})
        /\ Append(s.modes, mode) # <<>> /\ Append(s.modes, mode)[1] = "user"
    OBVIOUS
  <2> DEFINE taller == Append(s.modes, mode)
             p == [s EXCEPT !.modes = taller]
  <2>3. taller \in Seq({"user", "unlock-dialog", "lock-screen"}) /\ taller # <<>>
        /\ taller[1] = "user"
    BY <2>2
  <2> HIDE DEF taller
  <2>4. p \in State
    BY <2>3
  <2>5. p.modes = taller /\ p.curtain = s.curtain /\ p.motion = s.motion
    OBVIOUS
  <2>6. SameButCurtain(s, p)
    OBVIOUS
  <2> HIDE DEF p
  <2>7. Good(p)
    BY <2>3, <2>4, <2>5
  <2>8. PushMode(s, mode) = p
    BY <2>1 DEF p, taller
  <2> QED
    BY <2>5, <2>6, <2>7, <2>8
<1> QED
  BY <1>1, <1>2

\* A stack of two or more keeps its bottom when its top goes.
LEMMA ShorterStack ==
  ASSUME NEW M, NEW q \in Seq(M), Len(q) > 1
  PROVE  LET rest == SubSeq(q, 1, Len(q) - 1)
         IN  rest \in Seq(M) /\ rest # <<>> /\ rest[1] = q[1]
<1> DEFINE rest == SubSeq(q, 1, Len(q) - 1)
<1>1. Len(q) - 1 \in 1 .. Len(q)
  OBVIOUS
<1>2. rest \in Seq(M) /\ Len(rest) = Len(q) - 1 /\ rest[1] = q[1]
  BY <1>1
<1> HIDE DEF rest
<1>3. rest # <<>>
  BY <1>1, <1>2
<1> QED
  BY <1>2, <1>3 DEF rest

\* Popping one keeps it too.
LEMMA PopModeKeeps ==
  ASSUME NEW s, Good(s), NEW mode \in Raised
  PROVE  LET p == PopMode(s, mode)
         IN  /\ Good(p) /\ SameButCurtain(s, p)
             /\ p.curtain = s.curtain /\ p.motion = s.motion
<1> USE DEF Good, State, SameButCurtain, Aside, Quiet, Raised
<1>1. CASE Mode(s) # mode
  BY <1>1 DEF PopMode
<1>2. CASE Mode(s) = mode
  <2> DEFINE rest == SubSeq(s.modes, 1, Len(s.modes) - 1)
  <2>1. PopMode(s, mode) = [s EXCEPT !.modes = rest]
    BY <1>2 DEF PopMode
  <2>2. Len(s.modes) > 1
    BY <1>2 DEF Mode
  <2>3. rest \in Seq({"user", "unlock-dialog", "lock-screen"}) /\ rest # <<>> /\ rest[1] = "user"
    BY <2>2, ShorterStack
  <2> HIDE DEF rest
  <2> DEFINE p == [s EXCEPT !.modes = rest]
  <2>4. p \in State
    BY <2>3
  <2>5. p.modes = rest /\ p.curtain = s.curtain /\ p.motion = s.motion
    OBVIOUS
  <2>6. SameButCurtain(s, p)
    OBVIOUS
  <2> HIDE DEF p
  <2>7. Good(p)
    BY <2>3, <2>4, <2>5
  <2> QED
    BY <2>1, <2>5, <2>6, <2>7 DEF p
<1> QED
  BY <1>1, <1>2

\* Lifting the curtain touches nothing else; it is then away or on its way.
LEMMA HideLockScreenKeeps ==
  ASSUME NEW s, Good(s), NEW animate \in BOOLEAN
  PROVE  LET p == HideLockScreen(s, animate)
         IN  /\ Good(p) /\ SameButCurtain(s, p) /\ p.curtain \in {"hidden", "hiding"}
             /\ p.motion = "return" => s.curtain = "hidden"
<1> USE DEF Good, State, SameButCurtain, Aside, Quiet, Curtains, Motions
<1>1. CASE s.curtain = "hidden"
  BY <1>1 DEF HideLockScreen
<1>2. CASE s.curtain # "hidden" /\ animate /\ s.visible
  <2> DEFINE p == [s EXCEPT !.curtain = "hiding", !.motion = "rise"]
  <2>1. HideLockScreen(s, animate) = p
    BY <1>2 DEF HideLockScreen
  <2>2. p \in State
    OBVIOUS
  <2>3. p.modes = s.modes /\ p.curtain = "hiding" /\ p.motion = "rise"
    OBVIOUS
  <2>4. SameButCurtain(s, p)
    OBVIOUS
  <2> HIDE DEF p
  <2>5. Good(p)
    BY <2>2, <2>3
  <2> QED
    BY <2>1, <2>3, <2>4, <2>5
<1>3. CASE s.curtain # "hidden" /\ ~(animate /\ s.visible)
  <2> DEFINE still == [s EXCEPT !.motion = "none"]
             popped == PopMode(still, "lock-screen")
  <2>1. HideLockScreen(s, animate) = [popped EXCEPT !.curtain = "hidden"]
    BY <1>3 DEF HideLockScreen, HideComplete
  <2>2. Good(still) /\ SameButCurtain(s, still) /\ still.motion = "none"
    <3>1. still \in State
      OBVIOUS
    <3>2. still.modes = s.modes /\ still.motion = "none"
      OBVIOUS
    <3>3. SameButCurtain(s, still)
      OBVIOUS
    <3> HIDE DEF still
    <3> QED
      BY <3>1, <3>2, <3>3
  <2> HIDE DEF still
  <2>3. Good(popped) /\ SameButCurtain(still, popped) /\ popped.motion = still.motion
    BY <2>2, PopModeKeeps DEF Raised
  <2> HIDE DEF popped
  <2> DEFINE p == [popped EXCEPT !.curtain = "hidden"]
  <2>4. Good(p) /\ SameButCurtain(popped, p) /\ p.curtain = "hidden" /\ p.motion = "none"
    <3>1. popped \in State /\ popped.modes # <<>> /\ popped.modes[1] = "user"
          /\ popped.motion = "none"
      BY <2>2, <2>3
    <3>2. p \in State
      BY <3>1
    <3>3. p.modes = popped.modes /\ p.curtain = "hidden" /\ p.motion = popped.motion
      BY <3>1
    <3>4. SameButCurtain(popped, p)
      BY <3>1
    <3> HIDE DEF p
    <3> QED
      BY <3>1, <3>2, <3>3, <3>4
  <2> HIDE DEF p
  <2>5. SameButCurtain(s, p)
    BY <2>2, <2>3, <2>4
  <2> QED
    BY <2>1, <2>4, <2>5 DEF p
<1> QED
  BY <1>1, <1>2, <1>3

\* What a released shield gives up, and nothing else.
LEMMA ReleaseShieldEffect ==
  ASSUME NEW s, Good(s), NEW animate \in BOOLEAN
  PROVE  LET p == ReleaseShield(s, animate)
         IN  /\ Good(p) /\ Aside(s, p) /\ p.lockTimer = s.lockTimer
             /\ p.curtain \in {"hidden", "hiding"}
             /\ ~p.modal /\ ~p.dialogModal
             /\ p.dialog = s.dialog /\ p.verified = s.verified /\ p.reading = s.reading
             /\ p.finishing = s.finishing /\ p.leaving = s.leaving
             /\ p.visible = s.visible /\ p.active = s.active /\ p.locked = s.locked
             /\ p.long = s.long /\ p.short = s.short /\ p.watch = s.watch
<1> DEFINE up == HideLockScreen(s, animate)
           bare == PopMode(up, "lock-screen")
           unlocked == PopMode(bare, "unlock-dialog")
<1>1. Good(up) /\ SameButCurtain(s, up) /\ up.curtain \in {"hidden", "hiding"}
  BY HideLockScreenKeeps
<1>2. ReleaseShield(s, animate) = [unlocked EXCEPT !.dialogModal = FALSE, !.modal = FALSE]
  BY DEF ReleaseShield
<1> HIDE DEF up
<1>3. Good(bare) /\ SameButCurtain(up, bare) /\ bare.curtain = up.curtain
  BY <1>1, PopModeKeeps DEF Raised
<1> HIDE DEF bare
<1>4. Good(unlocked) /\ SameButCurtain(bare, unlocked) /\ unlocked.curtain = bare.curtain
  BY <1>3, PopModeKeeps DEF Raised
<1> HIDE DEF unlocked
<1>5. SameButCurtain(s, unlocked) /\ unlocked.curtain \in {"hidden", "hiding"}
  BY <1>1, <1>3, <1>4 DEF SameButCurtain, Aside, Quiet
<1> DEFINE p == [unlocked EXCEPT !.dialogModal = FALSE, !.modal = FALSE]
<1>6. Good(p) /\ p.dialogModal = FALSE /\ p.modal = FALSE
  BY <1>4 DEF Good, State
<1>7. /\ p.curtain = unlocked.curtain /\ Aside(unlocked, p) /\ p.lockTimer = unlocked.lockTimer
      /\ p.dialog = unlocked.dialog /\ p.verified = unlocked.verified
      /\ p.reading = unlocked.reading /\ p.finishing = unlocked.finishing
      /\ p.leaving = unlocked.leaving /\ p.visible = unlocked.visible
      /\ p.active = unlocked.active /\ p.locked = unlocked.locked
      /\ p.long = unlocked.long /\ p.short = unlocked.short /\ p.watch = unlocked.watch
  BY <1>4 DEF Good, State, Aside, Quiet
<1> HIDE DEF p
<1> QED
  BY <1>2, <1>5, <1>6, <1>7 DEF SameButCurtain, Aside, Quiet, p
-----------------------------------------------------------------------------
(* Leaving *)

\* What waits for the messages of a dialog that is destroyed releases the shield.
LEMMA WithoutMessagesEffect ==
  ASSUME NEW s, Good(s)
  PROVE  LET p == WithoutMessages(s)
         IN  /\ Good(p) /\ Aside(s, p)
             /\ p.curtain \in {s.curtain, "hidden", "hiding"}
             /\ ~p.reading /\ p.finishing = "no"
<1> DEFINE flushed == [s EXCEPT !.reading = FALSE, !.finishing = "no"]
<1>1. Good(flushed) /\ Aside(s, flushed) /\ flushed.curtain = s.curtain
      /\ flushed.reading = FALSE /\ flushed.finishing = "no"
  BY DEF Good, State, Aside, Quiet
<1>2. WithoutMessages(s) = IF s.finishing = "no" THEN flushed
                           ELSE ReleaseShield(flushed, s.finishing = "animated")
  BY DEF WithoutMessages
<1> HIDE DEF flushed
<1>3. CASE s.finishing = "no"
  BY <1>1, <1>2, <1>3
<1>4. CASE s.finishing # "no"
  <2> DEFINE p == ReleaseShield(flushed, s.finishing = "animated")
  <2>1. /\ Good(p) /\ Aside(flushed, p) /\ p.curtain \in {"hidden", "hiding"}
        /\ p.reading = flushed.reading /\ p.finishing = flushed.finishing
    BY <1>1, ReleaseShieldEffect
  <2>2. WithoutMessages(s) = p
    BY <1>2, <1>4
  <2> HIDE DEF p
  <2> QED
    BY <1>1, <2>1, <2>2 DEF Aside, Quiet
<1> QED
  BY <1>3, <1>4

\* A shield that has left is safe, whatever it came from.
LEMMA CompleteDeactivateSafe ==
  ASSUME NEW s, Good(s)
  PROVE  LET p == CompleteDeactivate(s)
         IN  /\ Safe(p) /\ Aside(s, p)
             /\ ~p.visible /\ ~p.dialog /\ ~p.locked /\ ~p.leaving
<1> DEFINE free == WithoutMessages(s)
<1>1. /\ Good(free) /\ Aside(s, free)
      /\ ~free.reading /\ free.finishing = "no"
  BY WithoutMessagesEffect
<1> DEFINE dark == LightsOff(free)
           p == CompleteDeactivate(s)
<1>2. p = [dark EXCEPT !.leaving = FALSE,
             !.dialog = FALSE, !.verified = FALSE, !.dialogModal = FALSE,
             !.visible = FALSE, !.watch = FALSE, !.lockTimer = FALSE,
             !.active = FALSE, !.locked = FALSE]
  BY DEF CompleteDeactivate
<1> HIDE DEF free
<1>3. /\ Good(dark) /\ Aside(free, dark) /\ dark.long = "off" /\ dark.short = "off"
      /\ dark.reading = free.reading /\ dark.finishing = free.finishing
  <2>1. free \in State
    BY <1>1 DEF Good
  <2>2. dark = [free EXCEPT !.long = "off", !.short = "off"]
    BY DEF LightsOff
  <2> HIDE DEF dark, p
  <2>3. dark \in State
    BY <2>1, <2>2 DEF State, Lights
  <2>4. /\ dark.modes = free.modes /\ dark.long = "off" /\ dark.short = "off"
        /\ dark.reading = free.reading /\ dark.finishing = free.finishing
    BY <2>1, <2>2 DEF State
  <2>5. Aside(free, dark)
    BY <2>1, <2>2 DEF State, Aside, Quiet
  <2> QED
    BY <1>1, <2>3, <2>4, <2>5 DEF Good
<1> HIDE DEF dark, p
<1>4. Good(p) /\ Aside(dark, p)
  <2> DEFINE half == [dark EXCEPT !.leaving = FALSE, !.dialog = FALSE, !.verified = FALSE,
                                  !.dialogModal = FALSE, !.visible = FALSE]
  <2>0. half \in State
    <3> DEFINE third == [dark EXCEPT !.leaving = FALSE, !.dialog = FALSE]
    <3>1. third \in State
      BY <1>3 DEF Good, State
    <3>2. half = [third EXCEPT !.verified = FALSE, !.dialogModal = FALSE, !.visible = FALSE]
      BY <1>3 DEF Good, State
    <3> HIDE DEF third, half
    <3> QED
      BY <3>1, <3>2 DEF State
  <2>1. p = [half EXCEPT !.watch = FALSE, !.lockTimer = FALSE, !.active = FALSE, !.locked = FALSE]
    BY <1>2
  <2>2. p \in State
    <3> DEFINE more == [half EXCEPT !.watch = FALSE, !.lockTimer = FALSE]
    <3>1. p = [more EXCEPT !.active = FALSE, !.locked = FALSE]
      BY <2>0, <2>1 DEF State
    <3> HIDE DEF half
    <3>2. more \in State
      BY <2>0 DEF State
    <3> HIDE DEF more
    <3> QED
      BY <3>1, <3>2 DEF State
  <2>3. p.modes = dark.modes
    BY <1>2, <1>3 DEF Good, State
  <2>4. Aside(dark, p)
    BY <1>2, <1>3 DEF Good, State, Aside, Quiet
  <2> QED
    BY <1>3, <2>2, <2>3, <2>4 DEF Good
<1>5. /\ p.dialog = FALSE /\ p.locked = FALSE /\ p.visible = FALSE /\ p.leaving = FALSE
      /\ p.verified = FALSE /\ p.dialogModal = FALSE
      /\ p.long = dark.long /\ p.short = dark.short
      /\ p.reading = dark.reading /\ p.finishing = dark.finishing
  BY <1>2, <1>3 DEF Good, State
<1>6. Safe(p)
  BY <1>1, <1>3, <1>4, <1>5 DEF Safe, Covering, Asking, Watched
<1> QED
  BY <1>1, <1>3, <1>4, <1>5, <1>6 DEF p, Aside, Quiet

\* Deactivation at once is safe from everywhere.
LEMMA DeactivateAtOnceSafe ==
  ASSUME NEW s, Good(s)
  PROVE  LET p == ContinueDeactivate(s, FALSE)
         IN  /\ Safe(p) /\ Aside(s, p)
             /\ ~p.visible /\ ~p.dialog /\ ~p.locked
<1> DEFINE released == ReleaseShield(s, FALSE)
<1>1. Good(released) /\ Aside(s, released)
  BY ReleaseShieldEffect
<1>2. ContinueDeactivate(s, FALSE) = CompleteDeactivate(released)
  BY DEF ContinueDeactivate
<1> HIDE DEF released
<1> DEFINE p == CompleteDeactivate(released)
<1>3. Safe(p) /\ Aside(released, p) /\ ~p.visible /\ ~p.dialog /\ ~p.locked
  BY <1>1, CompleteDeactivateSafe
<1> HIDE DEF p
<1>4. Aside(s, p)
  BY <1>1, <1>3 DEF Aside, Quiet
<1> QED
  BY <1>2, <1>3, <1>4 DEF p

\* With an animation, a shield that is not locked stays safe while it leaves.
LEMMA DeactivateUnlockedSafe ==
  ASSUME NEW s, Safe(s), ~s.locked, NEW animate \in BOOLEAN
  PROVE  LET p == ContinueDeactivate(s, animate)
         IN  Safe(p) /\ Aside(s, p)
<1> DEFINE released == ReleaseShield(s, animate)
<1>0. Good(s)
  BY DEF Safe
<1>1. /\ Good(released) /\ Aside(s, released) /\ released.curtain \in {"hidden", "hiding"}
      /\ ~released.modal /\ ~released.dialogModal
      /\ released.dialog = s.dialog /\ released.verified = s.verified
      /\ released.reading = s.reading /\ released.finishing = s.finishing
      /\ released.locked = s.locked
      /\ released.long = s.long /\ released.short = s.short /\ released.watch = s.watch
  BY <1>0, ReleaseShieldEffect
<1>2. ContinueDeactivate(s, animate) =
        IF animate /\ released.visible THEN [released EXCEPT !.leaving = TRUE]
        ELSE CompleteDeactivate(released)
  BY DEF ContinueDeactivate
<1> HIDE DEF released
<1>3. CASE animate /\ released.visible
  <2> DEFINE p == [released EXCEPT !.leaving = TRUE]
  <2>1. Good(p) /\ Aside(released, p)
    BY <1>1 DEF Good, State, Aside, Quiet
  <2>2. /\ p.dialog = released.dialog /\ p.verified = released.verified
        /\ p.reading = released.reading /\ p.finishing = released.finishing
        /\ p.locked = released.locked /\ p.dialogModal = released.dialogModal
        /\ p.long = released.long /\ p.short = released.short /\ p.watch = released.watch
    BY <1>1 DEF Good, State
  <2> HIDE DEF p
  <2>3. ~s.dialog /\ ~s.verified /\ ~s.reading /\ s.finishing = "no"
    BY DEF Safe, Asking, Good, State
  <2>4. Safe(p)
    BY <1>1, <2>1, <2>2, <2>3 DEF Safe, Covering, Asking, Watched, Good, State
  <2>5. Aside(s, p)
    BY <1>1, <2>1 DEF Aside, Quiet
  <2> QED
    BY <1>2, <1>3, <2>4, <2>5 DEF p
<1>4. CASE ~(animate /\ released.visible)
  BY <1>1, <1>2, <1>4, CompleteDeactivateSafe DEF Aside, Quiet
<1> QED
  BY <1>3, <1>4

\* The messages read or thrown away, the dialog is as it was or gone.
LEMMA FlushMessagesSafe ==
  ASSUME NEW s, Safe(s)
  PROVE  LET p == FlushMessages(s)
         IN  /\ Safe(p) /\ Aside(s, p)
             /\ ~p.reading /\ p.finishing = "no"
             /\ p.dialog => s.dialog /\ p.curtain = s.curtain
<1> DEFINE flushed == [s EXCEPT !.reading = FALSE, !.finishing = "no"]
<1>1. Good(flushed) /\ Aside(s, flushed)
  BY DEF Safe, Good, State, Aside, Quiet
<1>2. /\ flushed.curtain = s.curtain /\ flushed.dialog = s.dialog
      /\ flushed.dialogModal = s.dialogModal /\ flushed.verified = s.verified
      /\ flushed.locked = s.locked /\ flushed.modal = s.modal /\ flushed.visible = s.visible
      /\ flushed.long = s.long /\ flushed.short = s.short /\ flushed.watch = s.watch
      /\ flushed.reading = FALSE /\ flushed.finishing = "no"
  BY DEF Safe, Good, State
<1>3. FlushMessages(s) = IF s.finishing = "no" THEN flushed
                         ELSE ContinueDeactivate(flushed, s.finishing = "animated")
  BY DEF FlushMessages
<1> HIDE DEF flushed
<1>4. CASE s.finishing = "no"
  <2>1. Safe(flushed)
    BY <1>1, <1>2 DEF Safe, Covering, Asking, Watched
  <2> QED
    BY <1>1, <1>2, <1>3, <1>4, <2>1
<1>5. CASE s.finishing # "no"
  <2>1. s.finishing # "animated"
    BY DEF Safe, Asking
  <2>2. FlushMessages(s) = ContinueDeactivate(flushed, FALSE)
    BY <1>3, <1>5, <2>1
  <2>3. LET p == ContinueDeactivate(flushed, FALSE)
        IN  Safe(p) /\ Aside(flushed, p) /\ ~p.dialog
    BY <1>1, DeactivateAtOnceSafe
  <2> DEFINE p == ContinueDeactivate(flushed, FALSE)
  <2>4. Safe(p) /\ Aside(flushed, p) /\ ~p.dialog
    BY <2>3
  <2> HIDE DEF p
  <2>5. Aside(s, p)
    BY <1>1, <2>4 DEF Aside, Quiet
  <2> QED
    BY <2>2, <2>4, <2>5 DEF p, Safe, Asking, Good, State
<1> QED
  BY <1>4, <1>5

\* Without the dialog there is nothing left of it.
LEMMA DestroyDialogSafe ==
  ASSUME NEW s, Safe(s)
  PROVE  LET p == DestroyDialog(s)
         IN  Safe(p) /\ Aside(s, p) /\ ~p.dialog
<1>1. CASE ~s.dialog
  BY <1>1 DEF DestroyDialog, Aside, Quiet
<1>2. CASE s.dialog
  <2> DEFINE flushed == FlushMessages(s)
             p == [flushed EXCEPT !.dialog = FALSE, !.verified = FALSE, !.dialogModal = FALSE]
  <2>1. DestroyDialog(s) = p
    BY <1>2 DEF DestroyDialog
  <2>2. Safe(flushed) /\ Aside(s, flushed) /\ ~flushed.reading /\ flushed.finishing = "no"
    BY FlushMessagesSafe
  <2> HIDE DEF flushed
  <2>3. Good(p) /\ Aside(flushed, p)
    <3>1. flushed \in State /\ Good(flushed)
      BY <2>2 DEF Safe, Good
    <3>2. p \in State
      BY <3>1 DEF State
    <3>3. p.modes = flushed.modes
      BY <3>1 DEF State
    <3>4. Aside(flushed, p)
      BY <3>1 DEF State, Aside, Quiet
    <3> HIDE DEF p
    <3> QED
      BY <3>1, <3>2, <3>3, <3>4 DEF Good
  <2>4. /\ p.dialog = FALSE /\ p.verified = FALSE /\ p.dialogModal = FALSE
        /\ p.reading = flushed.reading /\ p.finishing = flushed.finishing
        /\ p.locked = flushed.locked /\ p.visible = flushed.visible /\ p.modal = flushed.modal
        /\ p.long = flushed.long /\ p.short = flushed.short /\ p.watch = flushed.watch
    BY <2>2 DEF Safe, Good, State
  <2> HIDE DEF p
  <2>5. Safe(p)
    BY <2>2, <2>3, <2>4 DEF Safe, Covering, Asking, Watched
  <2> QED
    BY <2>1, <2>2, <2>3, <2>4, <2>5 DEF Aside, Quiet
<1> QED
  BY <1>1, <1>2 DEF Safe, Good, State
-----------------------------------------------------------------------------
(* Coming up *)

\* The curtain that has come down: no dialog below it, and a black screen watched.
LEMMA LockScreenShownSafe ==
  ASSUME NEW s, Safe(s), NEW fade \in BOOLEAN, NEW animateFade \in BOOLEAN,
         fade /\ animateFade => s.beats < MaxBeats, s.motion # "return"
  PROVE  LET p == LockScreenShown(s, fade, animateFade)
         IN  /\ Safe(p) /\ p.motion # "return" /\ p.rough = s.rough
             /\ ~animateFade => Aside(s, p)
<1> DEFINE bare == DestroyDialog(s)
           shown == [bare EXCEPT !.curtain = "shown"]
<1>1. Safe(bare) /\ Aside(s, bare) /\ ~bare.dialog
  BY DestroyDialogSafe
<1>2. LockScreenShown(s, fade, animateFade) =
        IF fade /\ animateFade THEN [shown EXCEPT !.beats = @ + 1]
        ELSE CompleteShown(IF fade THEN [shown EXCEPT !.short = "on", !.watch = TRUE] ELSE shown)
  BY DEF LockScreenShown
<1> HIDE DEF bare
<1>3. Safe(shown) /\ Aside(bare, shown)
  <2>1. bare \in State /\ Good(bare) /\ ~bare.dialog
    BY <1>1 DEF Safe, Good
  <2>2. shown \in State
    BY <2>1 DEF State, Curtains
  <2>3. /\ shown.modes = bare.modes /\ shown.dialog = bare.dialog
        /\ shown.verified = bare.verified /\ shown.reading = bare.reading
        /\ shown.finishing = bare.finishing /\ shown.dialogModal = bare.dialogModal
        /\ shown.visible = bare.visible /\ shown.modal = bare.modal
        /\ shown.locked = bare.locked /\ shown.long = bare.long
        /\ shown.short = bare.short /\ shown.watch = bare.watch
    BY <2>1 DEF State
  <2>4. Aside(bare, shown)
    BY <1>1, <2>1 DEF State, Aside, Quiet
  <2> HIDE DEF shown
  <2>5. Good(shown) /\ Covering(shown) /\ Watched(shown)
    BY <1>1, <2>2, <2>3 DEF Safe, Good, Covering, Watched
  <2>6. Asking(shown)
    BY <1>1, <2>1, <2>3 DEF Safe, Asking
  <2> QED
    BY <2>4, <2>5, <2>6 DEF Safe
<1> HIDE DEF shown
<1>4. CASE fade /\ animateFade
  <2>1. shown.beats \in 0 .. MaxBeats /\ shown.beats < MaxBeats
    BY <1>1, <1>3, <1>4 DEF Safe, Good, State, Aside, Quiet
  <2>2. shown.beats + 1 \in 0 .. MaxBeats
    BY <2>1, ShieldAssumption
  <2> DEFINE p == [shown EXCEPT !.beats = @ + 1]
  <2>3. Good(p) /\ p.motion = shown.motion /\ p.rough = shown.rough
    BY <1>3, <2>2 DEF Safe, Good, State
  <2>4. Covering(p) /\ Asking(p) /\ Watched(p)
    BY <1>3 DEF Safe, Good, State, Covering, Asking, Watched
  <2>5. LockScreenShown(s, fade, animateFade) = p
    BY <1>2, <1>4
  <2> HIDE DEF p
  <2> QED
    BY <1>1, <1>3, <1>4, <2>3, <2>4, <2>5 DEF Safe, Aside, Quiet
<1>5. CASE fade /\ ~animateFade
  <2> DEFINE p == [shown EXCEPT !.short = "on", !.watch = TRUE, !.active = TRUE]
  <2>1. LockScreenShown(s, fade, animateFade) = p
    BY <1>2, <1>5 DEF CompleteShown
  <2>2. Good(p) /\ Aside(shown, p)
    <3>1. shown \in State /\ Good(shown)
      BY <1>3 DEF Safe, Good
    <3>2. p \in State
      BY <3>1 DEF State, Lights
    <3>3. p.modes = shown.modes
      BY <3>1 DEF State
    <3>4. Aside(shown, p)
      BY <3>1 DEF State, Aside, Quiet
    <3> HIDE DEF p
    <3> QED
      BY <3>1, <3>2, <3>3, <3>4 DEF Good
  <2>3. Covering(p) /\ Asking(p) /\ Watched(p)
    BY <1>3 DEF Safe, Good, State, Covering, Asking, Watched
  <2> HIDE DEF p
  <2> QED
    BY <1>1, <1>3, <2>1, <2>2, <2>3 DEF Safe, Aside, Quiet
<1>6. CASE ~fade
  <2> DEFINE p == [shown EXCEPT !.active = TRUE]
  <2>1. LockScreenShown(s, fade, animateFade) = p
    BY <1>2, <1>6 DEF CompleteShown
  <2>2. Good(p) /\ Aside(shown, p)
    <3>1. shown \in State /\ Good(shown)
      BY <1>3 DEF Safe, Good
    <3>2. p \in State
      BY <3>1 DEF State
    <3>3. p.modes = shown.modes
      BY <3>1 DEF State
    <3>4. Aside(shown, p)
      BY <3>1 DEF State, Aside, Quiet
    <3> HIDE DEF p
    <3> QED
      BY <3>1, <3>2, <3>3, <3>4 DEF Good
  <2>3. Covering(p) /\ Asking(p) /\ Watched(p)
    BY <1>3 DEF Safe, Good, State, Covering, Asking, Watched
  <2> HIDE DEF p
  <2> QED
    BY <1>1, <1>3, <2>1, <2>2, <2>3 DEF Safe, Aside, Quiet
<1> QED
  BY <1>4, <1>5, <1>6

\* Bringing the curtain down is safe from every safe state.
LEMMA ResetLockScreenSafe ==
  ASSUME NEW s, Safe(s), NEW animate \in BOOLEAN, NEW fade \in BOOLEAN
  PROVE  LET p == ResetLockScreen(s, animate, fade)
         IN  Safe(p) /\ Aside(s, p)
<1>1. CASE s.curtain # "hidden"
  BY <1>1 DEF ResetLockScreen, Aside, Quiet
<1>2. CASE s.curtain = "hidden" /\ animate
  <2> DEFINE falling == [s EXCEPT !.leaving = FALSE, !.curtain = "showing",
                           !.motion = IF fade THEN "fallToFade" ELSE "fall"]
  <2>1. ResetLockScreen(s, animate, fade) = PushMode(falling, "lock-screen")
    BY <1>2 DEF ResetLockScreen
  <2>2. Good(falling) /\ Aside(s, falling)
    <3> DEFINE m == IF fade THEN "fallToFade" ELSE "fall"
    <3>1. m \in Motions /\ m # "return"
      BY DEF Motions
    <3>2. s \in State /\ Good(s)
      BY DEF Safe, Good
    <3>3. falling = [s EXCEPT !.leaving = FALSE, !.curtain = "showing", !.motion = m]
      OBVIOUS
    <3> HIDE DEF m, falling
    <3>4. falling \in State
      BY <3>1, <3>2, <3>3 DEF State, Curtains
    <3>5. falling.modes = s.modes
      BY <3>2, <3>3 DEF State
    <3>6. Aside(s, falling)
      BY <3>1, <3>2, <3>3 DEF State, Aside, Quiet
    <3> QED
      BY <3>2, <3>4, <3>5, <3>6 DEF Good
  <2>3. Covering(falling) /\ Asking(falling) /\ Watched(falling) /\ falling.curtain = "showing"
    BY DEF Safe, Good, State, Covering, Asking, Watched
  <2> HIDE DEF falling
  <2> DEFINE p == PushMode(falling, "lock-screen")
  <2>4. Good(p) /\ SameButCurtain(falling, p) /\ p.curtain = falling.curtain
    BY <2>2, PushModeKeeps DEF Raised
  <2> HIDE DEF p
  <2>5. Safe(p)
    BY <2>3, <2>4 DEF Safe, Covering, Asking, Watched, SameButCurtain
  <2> QED
    BY <2>1, <2>2, <2>4, <2>5 DEF p, SameButCurtain, Aside, Quiet
<1>3. CASE s.curtain = "hidden" /\ ~animate
  <2> DEFINE down == [s EXCEPT !.leaving = FALSE, !.curtain = "showing", !.motion = "none"]
             shown == LockScreenShown(down, fade, FALSE)
  <2>1. ResetLockScreen(s, animate, fade) = PushMode(shown, "lock-screen")
    BY <1>3 DEF ResetLockScreen
  <2>2. Good(down) /\ Aside(s, down)
    <3>1. s \in State /\ Good(s)
      BY DEF Safe, Good
    <3>2. down \in State
      BY <3>1 DEF State, Curtains, Motions
    <3>3. down.modes = s.modes
      BY <3>1 DEF State
    <3>4. Aside(s, down)
      BY <3>1 DEF State, Aside, Quiet
    <3> HIDE DEF down
    <3> QED
      BY <3>1, <3>2, <3>3, <3>4 DEF Good
  <2>3. Covering(down) /\ Asking(down) /\ Watched(down) /\ down.motion = "none"
    BY DEF Safe, Good, State, Covering, Asking, Watched
  <2> HIDE DEF down
  <2>4. Safe(shown) /\ Aside(down, shown)
    BY <2>2, <2>3, LockScreenShownSafe DEF Safe
  <2> HIDE DEF shown
  <2> DEFINE p == PushMode(shown, "lock-screen")
  <2>5. Good(p) /\ SameButCurtain(shown, p) /\ p.curtain = shown.curtain
    BY <2>4, PushModeKeeps DEF Raised, Safe
  <2> HIDE DEF p
  <2>6. Safe(p)
    BY <2>4, <2>5 DEF Safe, Covering, Asking, Watched, SameButCurtain
  <2> QED
    BY <2>1, <2>2, <2>4, <2>5, <2>6 DEF p, SameButCurtain, Aside, Quiet
<1> QED
  BY <1>1, <1>2, <1>3

\* Activation makes a shield visible; what is safe once it is seen is safe then.
LEMMA ActivateSafe ==
  ASSUME NEW s, Safe([s EXCEPT !.visible = TRUE]), NEW animate \in BOOLEAN
  PROVE  LET p == Activate(s, animate)
         IN  Safe(p) /\ Aside([s EXCEPT !.visible = TRUE], p)
<1> DEFINE shown == [s EXCEPT !.visible = TRUE]
           locking == IF Mode(shown) = "user" THEN PushMode(shown, "unlock-dialog") ELSE shown
<1>1. Activate(s, animate) = ResetLockScreen(locking, animate, TRUE)
  BY DEF Activate
<1> HIDE DEF shown
<1>2. Safe(shown)
  BY DEF shown
<1>3. Safe(locking) /\ Aside(shown, locking)
  <2>1. CASE Mode(shown) = "user"
    <3> DEFINE p == PushMode(shown, "unlock-dialog")
    <3>1. Good(p) /\ SameButCurtain(shown, p) /\ p.curtain = shown.curtain
      BY <1>2, PushModeKeeps DEF Raised, Safe
    <3> HIDE DEF p
    <3>2. Safe(p)
      BY <1>2, <3>1 DEF Safe, Covering, Asking, Watched, SameButCurtain
    <3> QED
      BY <2>1, <3>1, <3>2 DEF p, SameButCurtain
  <2>2. CASE Mode(shown) # "user"
    BY <1>2, <2>2 DEF Aside, Quiet
  <2> QED
    BY <2>1, <2>2
<1> HIDE DEF locking
<1> DEFINE p == ResetLockScreen(locking, animate, TRUE)
<1>4. Safe(p) /\ Aside(locking, p)
  BY <1>3, ResetLockScreenSafe
<1> HIDE DEF p
<1> QED
  BY <1>1, <1>3, <1>4 DEF p, shown, Aside, Quiet

\* A lock request leaves the shield safe, granted its grab or not.
LEMMA LockSafe ==
  ASSUME NEW s, Safe(s), NEW animate \in BOOLEAN, NEW granted \in BOOLEAN
  PROVE  LET p == Lock(s, animate, granted)
         IN  Safe(p) /\ Quiet(s, p)
<1>1. CASE NoGrab(s, granted)
  BY <1>1 DEF Lock, Quiet
<1>2. CASE ~NoGrab(s, granted)
  <2> DEFINE taken == [s EXCEPT !.modal = TRUE, !.locked = Password]
             seen == [taken EXCEPT !.visible = TRUE]
  <2>1. Password \in BOOLEAN
    BY ShieldAssumption
  <2>2. Lock(s, animate, granted) = Activate(taken, animate)
    BY <1>2 DEF Lock
  <2>3. Good(seen)
    BY <2>1 DEF Safe, Good, State
  <2>4. /\ seen.locked = Password /\ seen.visible = TRUE /\ seen.modal = TRUE
        /\ seen.dialog = s.dialog /\ seen.dialogModal = s.dialogModal
        /\ seen.curtain = s.curtain /\ seen.motion = s.motion /\ seen.rough = s.rough
        /\ seen.verified = s.verified
        /\ seen.reading = s.reading /\ seen.finishing = s.finishing
        /\ seen.long = s.long /\ seen.short = s.short /\ seen.watch = s.watch
    BY DEF Safe, Good, State
  <2>5. Safe(seen)
    <3> HIDE DEF seen
    <3> QED
      BY <2>1, <2>3, <2>4 DEF Safe, Covering, Asking, Watched
  <2> HIDE DEF taken
  <2>6. LET p == Activate(taken, animate) IN Safe(p) /\ Aside(seen, p)
    BY <2>5, ActivateSafe
  <2> HIDE DEF seen
  <2> QED
    BY <2>2, <2>4, <2>6 DEF Aside, Quiet
<1> QED
  BY <1>1, <1>2
-----------------------------------------------------------------------------
(* The dialog, the curtain, idleness *)

\* A deactivation with an animation is asked for by an unlocked shield only.
LEMMA DeactivateSafe ==
  ASSUME NEW s, Safe(s), NEW animate \in BOOLEAN, animate => ~s.locked
  PROVE  LET p == Deactivate(s, animate)
         IN  Safe(p) /\ Quiet(s, p)
<1>1. CASE s.dialog /\ s.reading
  <2>1. ~animate
    BY <1>1 DEF Safe, Asking
  <2> DEFINE p == [s EXCEPT !.finishing = "plain"]
  <2>2. Deactivate(s, animate) = p
    BY <1>1, <2>1 DEF Deactivate
  <2>3. s \in State
    BY DEF Safe, Good
  <2>4. p \in State
    BY <2>3 DEF State
  <2>5. /\ p.modes = s.modes /\ p.finishing = "plain" /\ p.reading = s.reading
        /\ p.dialog = s.dialog /\ p.curtain = s.curtain
        /\ p.dialogModal = s.dialogModal /\ p.verified = s.verified
        /\ p.locked = s.locked /\ p.visible = s.visible /\ p.modal = s.modal
        /\ p.long = s.long /\ p.short = s.short /\ p.watch = s.watch
    BY <2>3 DEF State
  <2>6. Quiet(s, p)
    BY <2>3 DEF State, Quiet
  <2> HIDE DEF p
  <2>7. Good(p) /\ Covering(p) /\ Watched(p)
    BY <2>4, <2>5 DEF Safe, Good, Covering, Watched
  <2>8. Asking(p)
    BY <1>1, <2>5 DEF Safe, Asking
  <2> QED
    BY <2>2, <2>6, <2>7, <2>8 DEF Safe
<1>2. CASE ~(s.dialog /\ s.reading)
  <2>1. Deactivate(s, animate) = ContinueDeactivate(s, animate)
    BY <1>2 DEF Deactivate
  <2>2. CASE animate
    BY <2>1, <2>2, DeactivateUnlockedSafe DEF Aside
  <2>3. CASE ~animate
    <3>1. animate = FALSE
      BY <2>3
    <3> QED
      BY <2>1, <3>1, DeactivateAtOnceSafe DEF Safe, Aside
  <2> QED
    BY <2>2, <2>3
<1> QED
  BY <1>1, <1>2

\* Giving up the prompt brings the curtain down, or changes nothing.
LEMMA CancelPromptSafe ==
  ASSUME NEW s, Safe(s)
  PROVE  LET p == CancelPrompt(s)
         IN  Safe(p) /\ Aside(s, p)
<1>1. CASE s.verified
  BY <1>1 DEF CancelPrompt, Aside, Quiet
<1>2. CASE ~s.verified
  <2> DEFINE flushed == FlushMessages(s)
             p == ResetLockScreen(flushed, TRUE, FALSE)
  <2>1. CancelPrompt(s) = IF flushed.dialog THEN p ELSE flushed
    BY <1>2 DEF CancelPrompt
  <2>2. Safe(flushed) /\ Aside(s, flushed)
    BY FlushMessagesSafe
  <2> HIDE DEF flushed
  <2>3. Safe(p) /\ Aside(flushed, p)
    BY <2>2, ResetLockScreenSafe
  <2> HIDE DEF p
  <2> QED
    BY <2>1, <2>2, <2>3 DEF Aside, Quiet
<1> QED
  BY <1>1, <1>2

\* Cancelling the dialog destroys it.
LEMMA MaybeCancelDialogSafe ==
  ASSUME NEW s, Safe(s)
  PROVE  LET p == MaybeCancelDialog(s)
         IN  Safe(p) /\ Aside(s, p) /\ ~p.dialog
<1>1. CASE ~s.dialog
  BY <1>1 DEF MaybeCancelDialog, Aside, Quiet
<1>2. CASE s.dialog
  <2> DEFINE cancelled == CancelPrompt(s)
             p == DestroyDialog(cancelled)
  <2>1. MaybeCancelDialog(s) = p
    BY <1>2 DEF MaybeCancelDialog
  <2>2. Safe(cancelled) /\ Aside(s, cancelled)
    BY CancelPromptSafe
  <2> HIDE DEF cancelled
  <2>3. Safe(p) /\ Aside(cancelled, p) /\ ~p.dialog
    BY <2>2, DestroyDialogSafe
  <2> HIDE DEF p
  <2> QED
    BY <2>1, <2>2, <2>3 DEF Aside, Quiet
<1> QED
  BY <1>1, <1>2

\* A locked shield has the grab already, so its dialog always opens.
LEMMA DialogOpens ==
  ASSUME NEW s, Safe(s), s.locked, NEW granted \in BOOLEAN
  PROVE  EnsureUnlockDialog(s, granted) =
           IF s.dialog THEN s ELSE [s EXCEPT !.dialog = TRUE, !.dialogModal = TRUE]
BY DEF EnsureUnlockDialog, Safe, Covering

\* The dialog that opens on a locked shield changes nothing else.
LEMMA OpenedDialog ==
  ASSUME NEW s, Good(s)
  PROVE  LET q == [s EXCEPT !.dialog = TRUE, !.dialogModal = TRUE]
         IN  /\ Good(q) /\ q.rough = s.rough /\ q.dragging = s.dragging /\ q.dialog = TRUE /\ q.dialogModal = TRUE
             /\ q.curtain = s.curtain /\ q.motion = s.motion /\ q.modes = s.modes
             /\ q.verified = s.verified /\ q.reading = s.reading
             /\ q.finishing = s.finishing /\ q.leaving = s.leaving
             /\ q.visible = s.visible /\ q.modal = s.modal /\ q.active = s.active
             /\ q.locked = s.locked
             /\ q.long = s.long /\ q.short = s.short /\ q.watch = s.watch
<1> DEFINE q == [s EXCEPT !.dialog = TRUE, !.dialogModal = TRUE]
<1>1. s \in State
  BY DEF Good
<1>2. q \in State
  BY <1>1 DEF State
<1>3. /\ q.rough = s.rough /\ q.dragging = s.dragging /\ q.dialog = TRUE /\ q.dialogModal = TRUE
      /\ q.curtain = s.curtain /\ q.motion = s.motion /\ q.modes = s.modes
      /\ q.verified = s.verified /\ q.reading = s.reading
      /\ q.finishing = s.finishing /\ q.leaving = s.leaving
      /\ q.visible = s.visible /\ q.modal = s.modal /\ q.active = s.active
      /\ q.locked = s.locked
      /\ q.long = s.long /\ q.short = s.short /\ q.watch = s.watch
  BY <1>1 DEF State
<1> HIDE DEF q
<1>4. Good(q)
  BY <1>2, <1>3 DEF Good
<1> QED
  BY <1>3, <1>4 DEF q

\* Lifting the shield asks for the password, or lets the user in.
LEMMA LiftShieldSafe ==
  ASSUME NEW s, Safe(s), Returning(s), NEW granted \in BOOLEAN
  PROVE  LET p == LiftShield(s, granted)
         IN  Safe(p) /\ Returning(p) /\ p.rough = s.rough
<1>1. CASE ~s.locked
  <2>1. LiftShield(s, granted) = Deactivate(s, TRUE)
    BY <1>1 DEF LiftShield
  <2> DEFINE p == Deactivate(s, TRUE)
  <2>2. Safe(p) /\ Quiet(s, p)
    BY <1>1, DeactivateSafe
  <2> HIDE DEF p
  <2>3. Returning(p) /\ p.rough = s.rough
    BY <2>2 DEF Quiet, Returning
  <2> QED
    BY <2>1, <2>2, <2>3 DEF p
<1>2. CASE s.locked
  <2> DEFINE asked == IF s.dialog THEN s ELSE [s EXCEPT !.dialog = TRUE, !.dialogModal = TRUE]
             p == HideLockScreen(asked, TRUE)
  <2>1. LiftShield(s, granted) = p
    BY <1>2, DialogOpens DEF LiftShield, NoGrab, Safe, Covering
  <2> DEFINE opened == [s EXCEPT !.dialog = TRUE, !.dialogModal = TRUE]
  <2>0. asked = IF s.dialog THEN s ELSE opened
    OBVIOUS
  <2>2. /\ Good(asked) /\ Covering(asked) /\ Watched(asked) /\ asked.locked
        /\ asked.dialog /\ asked.dialogModal
        /\ asked.motion = s.motion /\ asked.curtain = s.curtain /\ asked.rough = s.rough
        /\ asked.finishing # "animated" /\ (asked.finishing # "no" => asked.reading)
    <3>1. /\ Good(opened) /\ opened.dialog = TRUE /\ opened.dialogModal = TRUE
          /\ opened.motion = s.motion /\ opened.curtain = s.curtain /\ opened.rough = s.rough
          /\ opened.reading = s.reading /\ opened.finishing = s.finishing
          /\ opened.visible = s.visible /\ opened.modal = s.modal
          /\ opened.locked = s.locked
          /\ opened.long = s.long /\ opened.short = s.short /\ opened.watch = s.watch
      BY OpenedDialog DEF Safe
    <3> HIDE DEF opened, asked
    <3> QED
      BY <1>2, <2>0, <3>1 DEF Safe, Covering, Asking, Watched
  <2> HIDE DEF asked
  <2>3. /\ Good(p) /\ SameButCurtain(asked, p) /\ p.curtain \in {"hidden", "hiding"}
        /\ p.motion = "return" => asked.curtain = "hidden"
    BY <2>2, HideLockScreenKeeps
  <2> HIDE DEF p
  <2>4. p.dialogModal = p.dialog
    BY <2>2, <2>3 DEF SameButCurtain, Good, State
  <2>5. Returning(p)
    BY <2>2, <2>3 DEF SameButCurtain, Aside, Quiet, Returning
  <2> QED
    BY <2>1, <2>2, <2>3, <2>4, <2>5
    DEF SameButCurtain, Aside, Quiet, Safe, Covering, Asking, Watched
<1> QED
  BY <1>1, <1>2

\* Taking hold of the curtain already asks for the password.
LEMMA DragBeginSafe ==
  ASSUME NEW s, Safe(s), NEW granted \in BOOLEAN
  PROVE  LET p == AtDragBegin(s, granted)
         IN  Safe(p) /\ Returning(p) /\ p.rough = s.rough
<1> DEFINE grabbed == [s EXCEPT !.dragging = TRUE, !.motion = "none", !.curtain = "hiding"]
<1>1. Good(grabbed)
  BY DEF Safe, Good, State, Curtains, Motions
<1>2. /\ Covering(grabbed) /\ Asking(grabbed) /\ Watched(grabbed) /\ grabbed.rough = s.rough
      /\ grabbed.curtain = "hiding" /\ grabbed.motion = "none" /\ grabbed.locked = s.locked
  BY DEF Safe, Good, State, Covering, Asking, Watched
<1>3. AtDragBegin(s, granted) =
        IF s.locked THEN EnsureUnlockDialog(grabbed, granted) ELSE grabbed
  BY DEF AtDragBegin
<1> HIDE DEF grabbed
<1>4. CASE ~s.locked
  BY <1>1, <1>2, <1>3, <1>4 DEF Safe, Returning
<1>5. CASE s.locked /\ grabbed.dialog
  BY <1>1, <1>2, <1>3, <1>5, DialogOpens DEF Safe, Returning
<1>6. CASE s.locked /\ ~grabbed.dialog
  <2> DEFINE p == [grabbed EXCEPT !.dialog = TRUE, !.dialogModal = TRUE]
  <2>1. AtDragBegin(s, granted) = p
    BY <1>1, <1>2, <1>3, <1>6, DialogOpens DEF Safe
  <2>2. /\ Good(p) /\ p.dialog = TRUE /\ p.dialogModal = TRUE
        /\ p.curtain = grabbed.curtain /\ p.motion = grabbed.motion /\ p.rough = grabbed.rough
        /\ p.verified = grabbed.verified
        /\ p.reading = grabbed.reading /\ p.finishing = grabbed.finishing
        /\ p.visible = grabbed.visible /\ p.modal = grabbed.modal /\ p.locked = grabbed.locked
        /\ p.long = grabbed.long /\ p.short = grabbed.short /\ p.watch = grabbed.watch
    BY <1>1, OpenedDialog
  <2> HIDE DEF p
  <2> QED
    BY <1>1, <1>2, <1>6, <2>1, <2>2 DEF Safe, Covering, Asking, Watched, Returning
<1> QED
  BY <1>4, <1>5, <1>6

\* Letting go of it lifts it, or brings it back without the dialog.
LEMMA DragEndSafe ==
  ASSUME NEW s, Safe(s), Returning(s), NEW far \in BOOLEAN, NEW granted \in BOOLEAN
  PROVE  LET p == AtDragEnd(s, far, granted)
         IN  Safe(p) /\ Returning(p) /\ p.rough = s.rough
<1> DEFINE ended == [s EXCEPT !.dragging = FALSE]
           back == [ended EXCEPT !.motion = "return"]
<1>1. Safe(ended) /\ Returning(ended) /\ ended.rough = s.rough
  <2>1. s \in State
    BY DEF Safe, Good
  <2>2. ended \in State
    BY <2>1 DEF State
  <2>3. SameSafety(s, ended) /\ ended.rough = s.rough
    BY <2>1 DEF State, SameSafety
  <2> HIDE DEF ended
  <2> QED
    BY <2>2, <2>3, StillSafe
<1>2. AtDragEnd(s, far, granted) =
        IF s.curtain # "hiding" THEN ended
        ELSE IF far THEN LiftShield(ended, granted) ELSE MaybeCancelDialog(back)
  BY DEF AtDragEnd
<1> HIDE DEF ended
<1>3. CASE s.curtain # "hiding"
  BY <1>1, <1>2, <1>3
<1>4. CASE s.curtain = "hiding" /\ far
  BY <1>1, <1>2, <1>4, LiftShieldSafe
<1>5. CASE s.curtain = "hiding" /\ ~far
  <2> DEFINE p == MaybeCancelDialog(back)
  <2>1. Safe(back) /\ back.curtain = ended.curtain /\ back.rough = ended.rough
    <3>1. ended \in State
      BY <1>1 DEF Safe, Good
    <3>2. back \in State
      BY <3>1 DEF State, Motions
    <3>3. /\ back.modes = ended.modes /\ back.curtain = ended.curtain
          /\ back.dialog = ended.dialog /\ back.verified = ended.verified
          /\ back.reading = ended.reading /\ back.finishing = ended.finishing
          /\ back.dialogModal = ended.dialogModal /\ back.visible = ended.visible
          /\ back.modal = ended.modal /\ back.locked = ended.locked
          /\ back.long = ended.long /\ back.short = ended.short
          /\ back.watch = ended.watch /\ back.rough = ended.rough
      BY <3>1 DEF State
    <3> HIDE DEF back
    <3>4. Good(back) /\ Covering(back) /\ Watched(back)
      BY <1>1, <3>2, <3>3 DEF Safe, Good, Covering, Watched
    <3>5. Asking(back)
      BY <1>1, <3>3 DEF Safe, Asking
    <3> QED
      BY <3>3, <3>4, <3>5 DEF Safe
  <2>2. ended.curtain = s.curtain
    BY DEF ended, Safe, Good, State
  <2> HIDE DEF back
  <2>3. Safe(p) /\ Aside(back, p) /\ ~p.dialog
    BY <2>1, MaybeCancelDialogSafe
  <2> HIDE DEF p
  <2>4. Returning(p)
    BY <1>5, <2>1, <2>2, <2>3 DEF Aside, Quiet, Returning
  <2> QED
    BY <1>1, <1>2, <1>5, <2>1, <2>3, <2>4 DEF p, Aside, Quiet
<1> QED
  BY <1>3, <1>4, <1>5

\* Idleness fades the screen with the grab only, and with a watch on the user.
LEMMA IdleSafe ==
  ASSUME NEW s, Safe(s), NEW granted \in BOOLEAN, s.orphans < MaxOrphans \/ ~s.lockTimer
  PROVE  LET p == AtIdle(s, granted)
         IN  Safe(p) /\ Quiet(s, p)
<1> DEFINE cancelled == MaybeCancelDialog(s)
           shouldLock == cancelled.enabled /\ ~cancelled.locked
           again == shouldLock /\ cancelled.lockTimer
           p == [cancelled EXCEPT !.modal = TRUE, !.long = LightOn(@),
                   !.orphans = IF again THEN @ + 1 ELSE @,
                   !.lockTimer = @ \/ shouldLock, !.watch = TRUE]
<1>1. Safe(cancelled) /\ Aside(s, cancelled)
  BY MaybeCancelDialogSafe
<1>2. AtIdle(s, granted) =
        IF cancelled.long # "off" \/ NoGrab(cancelled, granted) THEN cancelled ELSE p
  BY DEF AtIdle, ActivateFade
<1> HIDE DEF cancelled
<1>3. shouldLock \in BOOLEAN
  BY <1>1 DEF Safe, Good, State
<1>4. (IF again THEN cancelled.orphans + 1 ELSE cancelled.orphans) \in 0 .. MaxOrphans
  BY <1>1, ShieldAssumption DEF Safe, Good, State, Aside, Quiet
<1>5. LightOn(cancelled.long) \in Lights
  BY DEF LightOn, Lights
<1> DEFINE light == LightOn(cancelled.long)
           more == IF again THEN cancelled.orphans + 1 ELSE cancelled.orphans
           timed == cancelled.lockTimer \/ shouldLock
           half == [cancelled EXCEPT !.modal = TRUE, !.long = light, !.watch = TRUE]
<1>6. cancelled \in State /\ timed \in BOOLEAN
  BY <1>1 DEF Safe, Good
<1>7. p = [half EXCEPT !.orphans = more, !.lockTimer = timed]
  BY <1>6 DEF State
<1> HIDE DEF shouldLock, again, light, more, timed
<1>8. half \in State
  BY <1>5, <1>6 DEF State, light
<1>9. /\ half.modes = cancelled.modes /\ half.curtain = cancelled.curtain
      /\ half.motion = cancelled.motion
      /\ half.dialog = cancelled.dialog /\ half.verified = cancelled.verified
      /\ half.reading = cancelled.reading /\ half.finishing = cancelled.finishing
      /\ half.dialogModal = cancelled.dialogModal /\ half.visible = cancelled.visible
      /\ half.modal = TRUE /\ half.locked = cancelled.locked /\ half.watch = TRUE
      /\ half.rough = cancelled.rough
  BY <1>6 DEF State
<1> HIDE DEF half, p
<1>10. p \in State
  <2>1. more \in 0 .. MaxOrphans
    BY <1>4 DEF more
  <2> QED
    BY <1>6, <1>7, <1>8, <2>1 DEF State
<1>11. SameSafety(half, p) /\ p.rough = half.rough
  BY <1>7, <1>8 DEF State, SameSafety
<1>12. Good(half) /\ Covering(half) /\ Watched(half)
  BY <1>1, <1>8, <1>9 DEF Safe, Good, Covering, Watched
<1>13. Asking(half)
  BY <1>1, <1>9 DEF Safe, Asking
<1>14. Safe(p)
  BY <1>10, <1>11, <1>12, <1>13, StillSafe DEF Safe
<1>15. Quiet(cancelled, p)
  BY <1>9, <1>11 DEF SameSafety, Quiet
<1> QED
  BY <1>1, <1>2, <1>14, <1>15 DEF Aside, Quiet

\* The user's return lights the screen, or ends a shield that never came up.
LEMMA UserActiveSafe ==
  ASSUME NEW s, Safe(s)
  PROVE  LET p == AtUserActive(s)
         IN  Safe(p) /\ Quiet(s, p)
<1> DEFINE seen == [s EXCEPT !.watch = FALSE]
<1>1. Good(seen) /\ Covering(seen) /\ Asking(seen) /\ seen.locked = s.locked /\ Quiet(s, seen)
      /\ seen.curtain = s.curtain
  BY DEF Safe, Good, State, Covering, Asking, Quiet
<1>2. AtUserActive(s) = IF s.active \/ s.locked THEN LightsOff(seen) ELSE Deactivate(seen, FALSE)
  BY DEF AtUserActive
<1> HIDE DEF seen
<1>3. CASE s.active \/ s.locked
  <2> DEFINE p == LightsOff(seen)
  <2>1. Good(p)
    BY <1>1 DEF LightsOff, Good, State, Lights
  <2>2. Covering(p) /\ Asking(p) /\ Watched(p)
    BY <1>1 DEF LightsOff, Good, State, Covering, Asking, Watched
  <2>3. Quiet(seen, p)
    BY <1>1 DEF LightsOff, Good, State, Quiet
  <2> HIDE DEF p
  <2> QED
    BY <1>1, <1>2, <1>3, <2>1, <2>2, <2>3 DEF Safe, Quiet, p
<1>4. CASE ~(s.active \/ s.locked)
  <2>1. Deactivate(seen, FALSE) = ContinueDeactivate(seen, FALSE)
    BY <1>1, <1>4 DEF Deactivate, Asking
  <2>2. LET p == ContinueDeactivate(seen, FALSE) IN Safe(p) /\ Aside(seen, p)
    BY <1>1, DeactivateAtOnceSafe
  <2> QED
    BY <1>1, <1>2, <1>4, <2>1, <2>2 DEF Aside, Quiet
<1> QED
  BY <1>3, <1>4
-----------------------------------------------------------------------------
(* Every call is safe *)

Sound(s) == Safe(s) /\ Returning(s)

LEMMA QuietIsSound ==
  ASSUME NEW s, Sound(s), NEW p, Safe(p), Quiet(s, p)
  PROVE  Sound(p) /\ p.rough = s.rough
BY DEF Sound, Returning, Quiet

LEMMA GrantsType == Grants \subseteq BOOLEAN
BY DEF Grants

\* A request notes no more than that the shield was leaving.
LEMMA AskedSound ==
  ASSUME Sound(sh)
  PROVE  /\ Sound(Asked) /\ Asked.rough = (sh.rough \/ sh.leaving)
         /\ Asked.enabled = sh.enabled /\ Asked.orphans = sh.orphans
         /\ Asked.lockTimer = sh.lockTimer /\ Asked.long = sh.long /\ Asked.watch = sh.watch
         /\ Asked.dragging = sh.dragging
<1> DEFINE noted == sh.rough \/ sh.leaving
           p == [sh EXCEPT !.rough = noted]
<1>1. noted \in BOOLEAN /\ sh \in State
  BY DEF Sound, Safe, Good
<1>2. Asked = p
  BY <1>1 DEF Asked, State
<1>3. noted = (sh.rough \/ sh.leaving)
  OBVIOUS
<1> HIDE DEF noted
<1>4. p \in State
  BY <1>1 DEF State
<1>5. SameSafety(sh, p)
  BY <1>1 DEF State, SameSafety
<1>6. /\ p.rough = noted /\ p.enabled = sh.enabled /\ p.orphans = sh.orphans
      /\ p.lockTimer = sh.lockTimer /\ p.dragging = sh.dragging
  BY <1>1 DEF State
<1> HIDE DEF p
<1>7. Sound(p)
  BY <1>4, <1>5, StillSafe DEF Sound
<1> QED
  BY <1>2, <1>3, <1>5, <1>6, <1>7 DEF SameSafety

\* A call that finds the shield seen changes nothing that safety is about but that.
LEMMA SeenSound ==
  ASSUME NEW s, Sound(s)
  PROVE  LET seen == [s EXCEPT !.visible = TRUE]
         IN  Sound(seen) /\ seen.rough = s.rough
<1> DEFINE seen == [s EXCEPT !.visible = TRUE]
<1>1. s \in State
  BY DEF Sound, Safe, Good
<1>2. seen \in State
  BY <1>1 DEF State
<1>3. /\ seen.visible = TRUE /\ seen.modes = s.modes /\ seen.curtain = s.curtain
      /\ seen.motion = s.motion /\ seen.dialog = s.dialog /\ seen.verified = s.verified
      /\ seen.reading = s.reading /\ seen.finishing = s.finishing
      /\ seen.dialogModal = s.dialogModal /\ seen.modal = s.modal
      /\ seen.locked = s.locked /\ seen.long = s.long /\ seen.short = s.short
      /\ seen.watch = s.watch /\ seen.rough = s.rough
  BY <1>1 DEF State
<1> HIDE DEF seen
<1>4. Good(seen) /\ Covering(seen) /\ Watched(seen)
  BY <1>2, <1>3 DEF Sound, Safe, Good, Covering, Watched
<1>5. Asking(seen) /\ Returning(seen)
  BY <1>3 DEF Sound, Safe, Asking, Returning
<1> QED
  BY <1>3, <1>4, <1>5 DEF seen, Sound, Safe

LEMMA InitSound == Init => Sound(sh)
<1> SUFFICES ASSUME Init PROVE Sound(sh)
  OBVIOUS
<1>1. sh.modes = <<"user">> /\ sh \in State
  BY ShieldAssumption DEF Init, State, Curtains, Motions, Lights
<1>2. Good(sh)
  BY <1>1 DEF Good
<1> QED
  BY <1>2 DEF Init, Sound, Safe, Covering, Asking, Watched, Returning

\* A lock is sound, and does not calm a shield that was handled roughly.
LEMMA LockSound ==
  ASSUME NEW s, Sound(s), NEW animate \in BOOLEAN, NEW granted \in BOOLEAN
  PROVE  Sound(Lock(s, animate, granted)) /\ Lock(s, animate, granted).rough = s.rough
<1> DEFINE p == Lock(s, animate, granted)
<1>1. Safe(p) /\ Quiet(s, p)
  BY LockSafe DEF Sound
<1> HIDE DEF p
<1>2. Sound(p) /\ p.rough = s.rough
  BY <1>1, QuietIsSound
<1> QED
  BY <1>2 DEF p

LEMMA RequestSound ==
  ASSUME Sound(sh), Request
  PROVE  Sound(sh') /\ (sh.rough => sh'.rough)
<1> USE AskedSound, QuietIsSound
<1>1. CASE LockRequest
  <2>1. PICK animate \in BOOLEAN, granted \in BOOLEAN : sh' = Lock(Asked, animate, granted)
    BY <1>1, GrantsType DEF LockRequest
  <2> QED
    BY <2>1, LockSound
<1>2. CASE Suspend
  <2>1. PICK granted \in BOOLEAN : sh' = Lock(Asked, TRUE, granted)
    BY <1>2, GrantsType DEF Suspend
  <2> QED
    BY <2>1, LockSound
<1>3. CASE WakeUp
  BY <1>3, UserActiveSafe DEF WakeUp, Sound
<1>4. CASE SetActive
  <2> DEFINE seen == [Asked EXCEPT !.visible = TRUE]
  <2>1. Sound(seen) /\ seen.rough = Asked.rough
    BY SeenSound
  <2>2. sh' = Activate(Asked, TRUE)
    BY <1>4 DEF SetActive
  <2>3. LET p == Activate(Asked, TRUE) IN Safe(p) /\ Aside(seen, p)
    BY <2>1, ActivateSafe DEF Sound
  <2> HIDE DEF seen
  <2> QED
    BY <2>1, <2>2, <2>3 DEF Aside
<1>5. CASE Unlock
  <2> DEFINE asked == [sh EXCEPT !.promised = FALSE]
  <2>1. Safe(asked) /\ Returning(asked) /\ asked.rough = sh.rough
    <3>1. sh \in State
      BY DEF Sound, Safe, Good
    <3>2. asked \in State
      BY <3>1 DEF State
    <3>3. SameSafety(sh, asked) /\ asked.rough = sh.rough
      BY <3>1 DEF State, SameSafety
    <3> HIDE DEF asked
    <3> QED
      BY <3>2, <3>3, StillSafe DEF Sound
  <2>2. sh' = Deactivate(asked, FALSE)
    BY <1>5 DEF Unlock
  <2> HIDE DEF asked
  <2> QED
    BY <2>1, <2>2, DeactivateSafe DEF Sound
<1>6. CASE Idle
  BY <1>6, GrantsType, IdleSafe DEF Idle, Sound
<1>7. CASE SetEnabled
  <2>1. sh \in State
    BY DEF Sound, Safe, Good
  <2>2. PICK on \in BOOLEAN : sh' = [sh EXCEPT !.enabled = on]
    BY <1>7, ShieldAssumption DEF SetEnabled
  <2> DEFINE p == [sh EXCEPT !.enabled = on]
  <2>3. sh' = p
    BY <2>2
  <2>4. p \in State
    BY <2>1 DEF State
  <2>5. SameSafety(sh, p) /\ p.rough = sh.rough
    BY <2>1 DEF State, SameSafety
  <2> HIDE DEF p
  <2> QED
    BY <2>3, <2>4, <2>5, StillSafe DEF Sound
<1> QED
  BY <1>1, <1>2, <1>3, <1>4, <1>5, <1>6, <1>7 DEF Request

LEMMA InputSound ==
  ASSUME Sound(sh), Input
  PROVE  Sound(sh') /\ (sh.rough => sh'.rough)
<1>1. CASE UserActive
  BY <1>1, UserActiveSafe, QuietIsSound DEF UserActive, Sound
<1>2. CASE Lift
  BY <1>2, GrantsType, LiftShieldSafe DEF Lift, Sound
<1>3. CASE SmartcardInserted
  BY <1>3, GrantsType, LiftShieldSafe DEF SmartcardInserted, Sound
<1>4. CASE DragBegin
  <2> DEFINE held == [sh EXCEPT !.rough = TRUE]
  <2>1. Safe(held) /\ held.rough = TRUE
    BY DEF Sound, Safe, Good, State, Covering, Asking, Watched
  <2> HIDE DEF held
  <2>2. \E granted \in Grants : sh' = AtDragBegin(held, granted)
    BY <1>4 DEF DragBegin, held
  <2> QED
    BY <2>1, <2>2, GrantsType, DragBeginSafe DEF Sound
<1>5. CASE DragEnd
  BY <1>5, GrantsType, DragEndSafe DEF DragEnd, Sound
<1> QED
  BY <1>1, <1>2, <1>3, <1>4, <1>5 DEF Input

LEMMA PromptSound ==
  ASSUME Sound(sh), Prompt
  PROVE  Sound(sh') /\ (sh.rough => sh'.rough)
<1>1. CASE Verified
  <2>1. PICK reading \in BOOLEAN :
          sh' = [sh EXCEPT !.verified = TRUE, !.promised = TRUE, !.reading = @ \/ reading,
                           !.rough = @ \/ reading]
    BY <1>1 DEF Verified
  <2>2. sh.dialog
    BY <1>1 DEF Verified
  <2>3. /\ (sh.reading \/ reading) \in BOOLEAN /\ (sh.rough \/ reading) \in BOOLEAN
        /\ sh \in State /\ sh.modes # <<>> /\ sh.modes[1] = "user"
    BY DEF Sound, Safe, Good
  <2>4. sh' \in State /\ sh'.modes = sh.modes
    <3> DEFINE half == [sh EXCEPT !.verified = TRUE, !.promised = TRUE]
    <3>1. half \in State /\ half.reading = sh.reading /\ half.rough = sh.rough
          /\ half.modes = sh.modes
      BY <2>3 DEF State
    <3> DEFINE told == sh.reading \/ reading
               rough == sh.rough \/ reading
    <3>2. sh' = [half EXCEPT !.reading = told, !.rough = rough]
      BY <2>1, <2>3 DEF State
    <3>3. told \in BOOLEAN /\ rough \in BOOLEAN
      BY <2>3
    <3> HIDE DEF half, told, rough
    <3>4. sh' \in State
      <4> DEFINE most == [half EXCEPT !.reading = told]
      <4>1. most \in State
        BY <3>1, <3>3 DEF State
      <4>2. sh' = [most EXCEPT !.rough = rough]
        BY <3>1, <3>2 DEF State
      <4> HIDE DEF most
      <4> QED
        BY <3>3, <4>1, <4>2 DEF State
    <3>5. sh'.modes = half.modes
      BY <3>1, <3>2 DEF State
    <3> QED
      BY <3>1, <3>4, <3>5
  <2>5. Good(sh')
    BY <2>3, <2>4 DEF Good
  <2>6. Covering(sh') /\ Asking(sh') /\ Watched(sh') /\ Returning(sh')
    BY <2>1, <2>2
    DEF Sound, Safe, Good, State, Covering, Asking, Watched, Returning
  <2>7. sh'.rough = (sh.rough \/ reading)
    BY <2>1, <2>3 DEF State
  <2> QED
    BY <2>5, <2>6, <2>7 DEF Sound, Safe
<1>2. CASE MessageShown
  BY <1>2
  DEF MessageShown, Sound, Safe, Good, State, Covering, Asking, Watched, Returning
<1>3. CASE MessagesRead
  BY <1>3, FlushMessagesSafe, QuietIsSound DEF MessagesRead, Sound, Aside
<1>4. CASE DialogFailed
  BY <1>4, CancelPromptSafe, QuietIsSound DEF DialogFailed, Sound, Aside
<1> QED
  BY <1>1, <1>2, <1>3, <1>4 DEF Prompt

LEMMA CompletionSound ==
  ASSUME Sound(sh), Completion
  PROVE  Sound(sh') /\ (sh.rough => sh'.rough)
<1>1. CASE CurtainDown
  <2> DEFINE still == [sh EXCEPT !.motion = "none"]
             fade == sh.motion = "fallToFade"
             p == LockScreenShown(still, fade, TRUE)
  <2>1. /\ Safe(still) /\ still.beats = sh.beats /\ still.motion = "none"
        /\ still.rough = sh.rough
    BY DEF Sound, Safe, Good, State, Motions, Covering, Asking, Watched
  <2>2. sh' = p /\ sh.beats < MaxBeats
    BY <1>1 DEF CurtainDown
  <2>3. fade \in BOOLEAN
    OBVIOUS
  <2> HIDE DEF still, fade
  <2>4. Safe(p) /\ p.motion # "return" /\ p.rough = still.rough
    BY <2>1, <2>2, <2>3, LockScreenShownSafe
  <2> HIDE DEF p
  <2> QED
    BY <2>1, <2>2, <2>4 DEF Sound, Returning
<1>2. CASE CurtainUp
  <2> DEFINE still == [sh EXCEPT !.motion = "none"]
             popped == PopMode(still, "lock-screen")
  <2>1. Safe(still) /\ still.motion = "none" /\ still.rough = sh.rough
    BY DEF Sound, Safe, Good, State, Motions, Covering, Asking, Watched
  <2>2. sh' = [popped EXCEPT !.curtain = "hidden"]
    BY <1>2 DEF CurtainUp, HideComplete
  <2> HIDE DEF still
  <2>3. /\ Good(popped) /\ SameButCurtain(still, popped)
        /\ popped.curtain = still.curtain /\ popped.motion = still.motion
        /\ popped.rough = still.rough
    BY <2>1, PopModeKeeps DEF Raised, Safe, SameButCurtain, Aside, Quiet
  <2> HIDE DEF popped
  <2>4. Safe(popped)
    BY <2>1, <2>3 DEF SameButCurtain, Safe, Covering, Asking, Watched
  <2>5. Good(sh') /\ sh'.rough = popped.rough /\ sh'.motion = popped.motion
    BY <2>2, <2>4 DEF Safe, Good, State, Curtains
  <2>6. Covering(sh') /\ Asking(sh') /\ Watched(sh')
    BY <2>2, <2>4 DEF Safe, Good, State, Covering, Asking, Watched
  <2> QED
    BY <2>1, <2>3, <2>5, <2>6 DEF Sound, Safe, Returning
<1>3. CASE CurtainBack
  <2>1. ~sh.dialog
    BY <1>3 DEF CurtainBack, Sound, Returning
  <2> QED
    BY <1>3, <2>1 DEF CurtainBack, Sound, Safe, Good, State, Motions, Curtains,
                      Covering, Asking, Watched, Returning
<1>4. CASE Beat
  <2> DEFINE light == LightOn(sh.short)
             rough == sh.rough \/ ~sh.visible
  <2>1. /\ sh' = [sh EXCEPT !.beats = sh.beats - 1, !.short = light, !.rough = rough,
                            !.watch = TRUE]
        /\ sh.beats > 0
    BY <1>4 DEF Beat, ActivateFade
  <2>2. light \in Lights
    BY DEF LightOn, Lights
  <2>3. rough \in BOOLEAN
    OBVIOUS
  <2>4. sh.beats - 1 \in 0 .. MaxBeats
    BY <2>1, ShieldAssumption DEF Sound, Safe, Good, State
  <2> HIDE DEF light, rough
  <2> DEFINE fewer == sh.beats - 1
             half == [sh EXCEPT !.short = light, !.watch = TRUE]
  <2>5. Good(sh') /\ sh'.rough = rough
    <3>1. sh \in State /\ Good(sh)
      BY DEF Sound, Safe, Good
    <3>2. half \in State
      BY <2>2, <3>1 DEF State
    <3>3. sh' = [half EXCEPT !.beats = fewer, !.rough = rough]
      BY <2>1, <3>1 DEF State
    <3>4. half.modes = sh.modes
      BY <3>1 DEF State
    <3> HIDE DEF half, fewer
    <3>5. fewer \in 0 .. MaxBeats
      BY <2>4 DEF fewer
    <3>6. sh' \in State
      BY <2>3, <3>2, <3>3, <3>5 DEF State
    <3>7. sh'.modes = half.modes /\ sh'.rough = rough
      BY <3>2, <3>3 DEF State
    <3> QED
      BY <3>1, <3>4, <3>6, <3>7 DEF Good
  <2>6. Covering(sh') /\ Asking(sh') /\ Watched(sh') /\ Returning(sh')
    BY <2>1 DEF Sound, Safe, Good, State, Covering, Asking, Watched, Returning
  <2> QED
    BY <2>5, <2>6 DEF Sound, Safe, rough
<1>5. CASE ShortFaded
  <2> DEFINE p == [sh EXCEPT !.short = "on", !.active = TRUE]
  <2>1. sh \in State /\ sh.short # "off"
    BY <1>5 DEF ShortFaded, Sound, Safe, Good
  <2>2. sh' = p
    BY <1>5, <2>1 DEF ShortFaded, CompleteShown, State
  <2>3. p \in State
    BY <2>1 DEF State, Lights
  <2>4. /\ p.visible = sh.visible /\ p.modes = sh.modes /\ p.curtain = sh.curtain
        /\ p.motion = sh.motion /\ p.dialog = sh.dialog /\ p.verified = sh.verified
        /\ p.reading = sh.reading /\ p.finishing = sh.finishing
        /\ p.dialogModal = sh.dialogModal /\ p.modal = sh.modal
        /\ p.locked = sh.locked /\ p.long = sh.long
        /\ p.watch = sh.watch /\ p.rough = sh.rough
    BY <2>1 DEF State
  <2> HIDE DEF p
  <2>5. Good(p) /\ Covering(p) /\ Returning(p)
    BY <2>3, <2>4 DEF Sound, Safe, Good, Covering, Returning
  <2>6. Asking(p)
    BY <2>4 DEF Sound, Safe, Asking
  <2>7. Watched(p)
    BY <2>1, <2>4 DEF Sound, Safe, Watched
  <2> QED
    BY <2>2, <2>4, <2>5, <2>6, <2>7 DEF Sound, Safe
<1>6. CASE LongFaded
  <2> DEFINE black == [Asked EXCEPT !.long = "on"]
             seen == [black EXCEPT !.visible = TRUE]
  <2>1. sh' = Activate(black, FALSE) /\ sh.long # "off"
    BY <1>6 DEF LongFaded
  <2>2. Sound(seen) /\ seen.rough = Asked.rough
    <3>1. Asked \in State /\ Sound(Asked) /\ Asked.long # "off"
      BY <2>1, AskedSound DEF Sound, Safe, Good
    <3>2. black \in State
      BY <3>1 DEF State, Lights
    <3>3. /\ black.visible = Asked.visible /\ black.modes = Asked.modes
          /\ black.curtain = Asked.curtain
          /\ black.motion = Asked.motion /\ black.dialog = Asked.dialog
          /\ black.verified = Asked.verified
          /\ black.reading = Asked.reading /\ black.finishing = Asked.finishing
          /\ black.dialogModal = Asked.dialogModal /\ black.modal = Asked.modal
          /\ black.locked = Asked.locked /\ black.short = Asked.short
          /\ black.watch = Asked.watch /\ black.rough = Asked.rough
      BY <3>1 DEF State
    <3> HIDE DEF black
    <3>4. Good(black) /\ Covering(black) /\ Returning(black)
      BY <3>1, <3>2, <3>3 DEF Sound, Safe, Good, Covering, Returning
    <3>5. Asking(black)
      BY <3>1, <3>3 DEF Sound, Safe, Asking
    <3>6. Watched(black)
      BY <3>1, <3>3 DEF Sound, Safe, Watched
    <3>7. Sound(black)
      BY <3>4, <3>5, <3>6 DEF Sound, Safe
    <3> QED
      BY <3>3, <3>7, SeenSound
  <2> HIDE DEF black
  <2>3. LET p == Activate(black, FALSE) IN Safe(p) /\ Aside(seen, p)
    BY <2>2, ActivateSafe DEF Sound
  <2> HIDE DEF seen
  <2> QED
    BY <2>1, <2>2, <2>3, AskedSound, QuietIsSound DEF Aside
<1>7. CASE DialogGroupGone
  BY <1>7, CompleteDeactivateSafe, QuietIsSound DEF DialogGroupGone, Sound, Safe, Aside
<1>8. CASE LockTimeout
  <2> DEFINE rung == [Asked EXCEPT !.lockTimer = FALSE]
  <2>1. \E granted \in Grants : sh' = Lock(rung, FALSE, granted)
    BY <1>8 DEF LockTimeout
  <2>2. Sound(rung) /\ rung.rough = Asked.rough
    <3>1. Asked \in State /\ Sound(Asked)
      BY AskedSound DEF Sound, Safe, Good
    <3>2. rung \in State
      BY <3>1 DEF State
    <3>3. SameSafety(Asked, rung) /\ rung.rough = Asked.rough
      BY <3>1 DEF State, SameSafety
    <3> HIDE DEF rung
    <3> QED
      BY <3>1, <3>2, <3>3, StillSafe DEF Sound
  <2> HIDE DEF rung
  <2> QED
    BY <2>1, <2>2, AskedSound, GrantsType, LockSafe, QuietIsSound DEF Sound
<1>9. CASE OrphanTimeout
  <2> DEFINE rung == [Asked EXCEPT !.orphans = @ - 1, !.lockTimer = FALSE]
  <2>1. (\E granted \in Grants : sh' = Lock(rung, FALSE, granted)) /\ sh.orphans > 0
    BY <1>9 DEF OrphanTimeout
  <2>2. Asked.orphans - 1 \in 0 .. MaxOrphans
    BY <2>1, AskedSound, ShieldAssumption DEF Sound, Safe, Good, State
  <2>3. Sound(rung) /\ rung.rough = Asked.rough
    <3> DEFINE fewer == Asked.orphans - 1
    <3>1. Asked \in State /\ Sound(Asked)
      BY AskedSound DEF Sound, Safe, Good
    <3>2. fewer \in 0 .. MaxOrphans
      BY <2>2
    <3>3. rung = [Asked EXCEPT !.orphans = fewer, !.lockTimer = FALSE]
      BY <3>1 DEF State
    <3> HIDE DEF fewer, rung
    <3>4. rung \in State
      BY <3>1, <3>2, <3>3 DEF State
    <3>5. SameSafety(Asked, rung) /\ rung.rough = Asked.rough
      BY <3>1, <3>3 DEF State, SameSafety
    <3> QED
      BY <3>1, <3>4, <3>5, StillSafe DEF Sound
  <2> HIDE DEF rung
  <2> QED
    BY <2>1, <2>3, AskedSound, GrantsType, LockSafe, QuietIsSound DEF Sound
<1> QED
  BY <1>1, <1>2, <1>3, <1>4, <1>5, <1>6, <1>7, <1>8, <1>9 DEF Completion
-----------------------------------------------------------------------------
(* A shield that is treated calmly *)

Stacks == {<<"user">>, <<"user", "unlock-dialog">>, <<"user", "unlock-dialog", "lock-screen">>}

\* The curtain moves with its transition, and its mode is there while it is down.
Steady(s) ==
  /\ s.modes \in Stacks /\ ~s.dragging /\ ~s.reading
  /\ s.curtain = "hiding" <=> s.motion = "rise"
  /\ s.curtain = "showing" <=> s.motion \in {"fall", "fallToFade"}
  /\ s.curtain \in {"showing", "shown"} => Mode(s) = "lock-screen"
  /\ Mode(s) = "lock-screen" => s.curtain # "hidden"

\* The shield is up, leaves with nothing held, or is gone but for the fade of idleness.
Calm(s) ==
  /\ Steady(s)
  /\ s.leaving => s.visible /\ s.modes = <<"user">> /\ ~s.modal /\ ~s.locked
  /\ s.visible /\ ~s.leaving => s.modes # <<"user">>
  /\ ~s.visible => /\ s.modes = <<"user">> /\ ~s.active /\ s.short = "off"
                   /\ s.modal = (s.long # "off") /\ s.long \in {"off", "fading"}

Up(s) == Steady(s) /\ ~s.leaving /\ s.visible /\ s.modes # <<"user">>

\* Two states that calmness does not tell apart.
Alike(s, p) ==
  /\ p.modes = s.modes /\ p.dragging = s.dragging /\ p.reading = s.reading
  /\ p.curtain = s.curtain /\ p.motion = s.motion /\ p.leaving = s.leaving
  /\ p.visible = s.visible /\ p.modal = s.modal /\ p.locked = s.locked
  /\ p.active = s.active /\ p.short = s.short /\ p.long = s.long

LEMMA StackModes ==
  ASSUME NEW s, s.modes \in Stacks
  PROVE  /\ Mode(s) = "lock-screen" <=> s.modes = <<"user", "unlock-dialog", "lock-screen">>
         /\ Mode(s) = "unlock-dialog" <=> s.modes = <<"user", "unlock-dialog">>
         /\ Mode(s) = "user" <=> s.modes = <<"user">>
<1>1. CASE s.modes = <<"user">>
  <2>1. Len(s.modes) = 1 /\ s.modes[1] = "user"
    BY <1>1
  <2> QED
    BY <1>1, <2>1 DEF Mode
<1>2. CASE s.modes = <<"user", "unlock-dialog">>
  <2>1. Len(s.modes) = 2 /\ s.modes[2] = "unlock-dialog"
    BY <1>2
  <2> QED
    BY <1>2, <2>1 DEF Mode
<1>3. CASE s.modes = <<"user", "unlock-dialog", "lock-screen">>
  <2>1. Len(s.modes) = 3 /\ s.modes[3] = "lock-screen"
    BY <1>3
  <2> QED
    BY <1>3, <2>1 DEF Mode
<1> QED
  BY <1>1, <1>2, <1>3 DEF Stacks

LEMMA AlikeIsCalm ==
  ASSUME NEW s, NEW p, Alike(s, p)
  PROVE  (Steady(s) => Steady(p)) /\ (Calm(s) => Calm(p)) /\ (Up(s) => Up(p))
BY DEF Alike, Calm, Steady, Up, Mode

LEMMA UpIsCalm == ASSUME NEW s, Up(s) PROVE Calm(s)
BY DEF Up, Calm

LEMMA Appended ==
  ASSUME NEW M, NEW q \in Seq(M), NEW top \in M
  PROVE  LET p == Append(q, top)
         IN  /\ p \in Seq(M) /\ Len(p) = Len(q) + 1 /\ p[Len(q) + 1] = top
             /\ \A i \in 1 .. Len(q) : p[i] = q[i]
OBVIOUS

\* Each mode goes on top of the one before, and off again.
LEMMA StackGrows ==
  ASSUME NEW M, NEW q \in Seq(M), NEW top \in M
  PROVE  /\ Len(q) = 1 => Append(q, top) = <<q[1], top>>
         /\ Len(q) = 2 => Append(q, top) = <<q[1], q[2], top>>
<1> DEFINE p == Append(q, top)
<1>1. /\ p \in Seq(M) /\ Len(p) = Len(q) + 1 /\ p[Len(q) + 1] = top
      /\ \A i \in 1 .. Len(q) : p[i] = q[i]
  BY Appended
<1> HIDE DEF p
<1>2. ASSUME Len(q) = 1 PROVE p = <<q[1], top>>
  <2>1. Len(q) + 1 = 2
    BY <1>2
  <2>2. Len(p) = 2 /\ p[2] = top /\ p[1] = q[1]
    BY <1>1, <1>2, <2>1
  <2>3. p \in Seq(M) /\ Len(p) = 2
    BY <1>1, <2>2
  <2>4. p = <<p[1], p[2]>>
    BY <2>3
  <2> QED
    BY <2>2, <2>4
<1>3. ASSUME Len(q) = 2 PROVE p = <<q[1], q[2], top>>
  <2>1. Len(q) + 1 = 3
    BY <1>3
  <2>2. Len(p) = 3 /\ p[3] = top /\ p[1] = q[1] /\ p[2] = q[2]
    BY <1>1, <1>3, <2>1
  <2>3. p \in Seq(M) /\ Len(p) = 3
    BY <1>1, <2>2
  <2>4. p = <<p[1], p[2], p[3]>>
    BY <2>3
  <2> QED
    BY <2>2, <2>4
<1> QED
  BY <1>2, <1>3 DEF p

LEMMA StackShrinks ==
  ASSUME NEW M, NEW q \in Seq(M)
  PROVE  LET rest == SubSeq(q, 1, Len(q) - 1)
         IN  /\ Len(q) = 2 => rest = <<q[1]>>
             /\ Len(q) = 3 => rest = <<q[1], q[2]>>
<1>1. ASSUME Len(q) = 2 PROVE SubSeq(q, 1, Len(q) - 1) = <<q[1]>>
  <2> DEFINE p == SubSeq(q, 1, 1)
  <2>1. p \in Seq(M) /\ Len(p) = 1 /\ p[1] = q[1]
    BY <1>1
  <2> HIDE DEF p
  <2>2. p = <<q[1]>>
    BY <2>1
  <2>3. Len(q) - 1 = 1
    BY <1>1
  <2> QED
    BY <2>2, <2>3 DEF p
<1>2. ASSUME Len(q) = 3 PROVE SubSeq(q, 1, Len(q) - 1) = <<q[1], q[2]>>
  <2> DEFINE p == SubSeq(q, 1, 2)
  <2>1. p \in Seq(M) /\ Len(p) = 2 /\ p[1] = q[1] /\ p[2] = q[2]
    BY <1>2
  <2> HIDE DEF p
  <2>2. p = <<q[1], q[2]>>
    BY <2>1
  <2>3. Len(q) - 1 = 2
    BY <1>2
  <2> QED
    BY <2>2, <2>3 DEF p
<1> QED
  BY <1>1, <1>2

LEMMA PushedModes ==
  ASSUME NEW s, Good(s), s.modes \in Stacks
  PROVE  /\ s.modes = <<"user">> => PushMode(s, "unlock-dialog").modes = <<"user", "unlock-dialog">>
         /\ s.modes # <<"user">> =>
              PushMode(s, "lock-screen").modes = <<"user", "unlock-dialog", "lock-screen">>
<1> DEFINE M == {"user", "unlock-dialog", "lock-screen"}
<1>1. ASSUME NEW mode PROVE PushMode(s, mode).modes = IF Mode(s) = mode THEN s.modes
                                                      ELSE Append(s.modes, mode)
  BY DEF PushMode, Good, State
<1>2. /\ Append(<<"user">>, "unlock-dialog") = <<"user", "unlock-dialog">>
      /\ Append(<<"user", "unlock-dialog">>, "lock-screen") = <<"user", "unlock-dialog", "lock-screen">>
  <2> DEFINE one == <<"user">>
             two == <<"user", "unlock-dialog">>
  <2>1. one \in Seq(M) /\ Len(one) = 1 /\ one[1] = "user"
    OBVIOUS
  <2>2. two \in Seq(M) /\ Len(two) = 2 /\ two[1] = "user" /\ two[2] = "unlock-dialog"
    OBVIOUS
  <2>3. "unlock-dialog" \in M /\ "lock-screen" \in M
    OBVIOUS
  <2> HIDE DEF M, one, two
  <2>4. Append(one, "unlock-dialog") = <<"user", "unlock-dialog">>
    BY <2>1, <2>3, StackGrows
  <2>5. Append(two, "lock-screen") = <<"user", "unlock-dialog", "lock-screen">>
    BY <2>2, <2>3, StackGrows
  <2> QED
    BY <2>4, <2>5 DEF one, two
<1>3. CASE s.modes = <<"user">>
  <2>1. Mode(s) # "unlock-dialog"
    BY <1>3, StackModes
  <2>2. PushMode(s, "unlock-dialog").modes = Append(s.modes, "unlock-dialog")
    BY <1>1, <2>1
  <2> QED
    BY <1>2, <1>3, <2>2, Zenon
<1>4. CASE s.modes # <<"user">> /\ Mode(s) = "lock-screen"
  <2>1. PushMode(s, "lock-screen").modes = s.modes
    BY <1>1, <1>4
  <2> QED
    BY <1>4, <2>1, StackModes
<1>5. CASE s.modes # <<"user">> /\ Mode(s) # "lock-screen"
  <2>1. PushMode(s, "lock-screen").modes = Append(s.modes, "lock-screen")
    BY <1>1, <1>5
  <2>2. s.modes = <<"user", "unlock-dialog">>
    <3>1. s.modes # <<"user", "unlock-dialog", "lock-screen">>
      BY <1>5, StackModes
    <3> QED
      BY <1>5, <3>1, Zenon DEF Stacks
  <2> QED
    BY <1>2, <1>5, <2>1, <2>2, Zenon
<1> QED
  BY <1>3, <1>4, <1>5

LEMMA PoppedModes ==
  ASSUME NEW s, Good(s), s.modes \in Stacks
  PROVE  /\ PopMode(s, "lock-screen").modes =
              IF s.modes = <<"user">> THEN <<"user">> ELSE <<"user", "unlock-dialog">>
         /\ s.modes # <<"user", "unlock-dialog", "lock-screen">> =>
              PopMode(s, "unlock-dialog").modes = <<"user">>
<1>1. ASSUME NEW mode
      PROVE  PopMode(s, mode).modes = IF Mode(s) = mode THEN SubSeq(s.modes, 1, Len(s.modes) - 1)
                                      ELSE s.modes
  BY DEF PopMode, Good, State
<1>2. s.modes \in Seq({"user", "unlock-dialog", "lock-screen"})
  BY DEF Good, State
<1>3. CASE s.modes = <<"user">>
  <2>1. Mode(s) # "unlock-dialog" /\ Mode(s) # "lock-screen"
    BY <1>3, StackModes
  <2> QED
    BY <1>1, <1>3, <2>1
<1>4. CASE s.modes = <<"user", "unlock-dialog">>
  <2>1. Mode(s) = "unlock-dialog" /\ Mode(s) # "lock-screen" /\ s.modes # <<"user">>
    BY <1>4, StackModes
  <2>2. Len(s.modes) = 2 /\ s.modes[1] = "user"
    BY <1>4
  <2>3. SubSeq(s.modes, 1, Len(s.modes) - 1) = <<"user">>
    BY <1>2, <2>2, StackShrinks
  <2>4. PopMode(s, "unlock-dialog").modes = <<"user">> /\ PopMode(s, "lock-screen").modes = s.modes
    BY <1>1, <2>1, <2>3
  <2> QED
    BY <1>4, <2>1, <2>4
<1>5. CASE s.modes = <<"user", "unlock-dialog", "lock-screen">>
  <2>1. Mode(s) = "lock-screen" /\ s.modes # <<"user">>
    BY <1>5, StackModes
  <2>2. Len(s.modes) = 3 /\ s.modes[1] = "user" /\ s.modes[2] = "unlock-dialog"
    BY <1>5
  <2>3. SubSeq(s.modes, 1, Len(s.modes) - 1) = <<"user", "unlock-dialog">>
    BY <1>2, <2>2, StackShrinks
  <2>4. PopMode(s, "lock-screen").modes = <<"user", "unlock-dialog">>
    BY <1>1, <2>1, <2>3
  <2> QED
    BY <1>5, <2>1, <2>4
<1> QED
  BY <1>3, <1>4, <1>5 DEF Stacks

\* Without messages there is nothing to flush.
LEMMA FlushMessagesCalm ==
  ASSUME NEW s, Safe(s), ~s.reading
  PROVE  LET p == FlushMessages(s) IN Alike(s, p) /\ p.dialog = s.dialog
<1>1. s.finishing = "no"
  BY DEF Safe, Asking
<1>2. FlushMessages(s) = [s EXCEPT !.reading = FALSE, !.finishing = "no"]
  BY <1>1 DEF FlushMessages
<1> QED
  BY <1>2 DEF Alike, Safe, Good, State

LEMMA DestroyDialogCalm ==
  ASSUME NEW s, Safe(s), ~s.reading
  PROVE  Alike(s, DestroyDialog(s))
<1>1. CASE ~s.dialog
  BY <1>1 DEF DestroyDialog, Alike
<1>2. CASE s.dialog
  <2> DEFINE flushed == FlushMessages(s)
             p == [flushed EXCEPT !.dialog = FALSE, !.verified = FALSE, !.dialogModal = FALSE]
  <2>1. DestroyDialog(s) = p
    BY <1>2 DEF DestroyDialog
  <2>2. Alike(s, flushed) /\ Good(flushed)
    BY FlushMessagesCalm, FlushMessagesSafe DEF Safe
  <2> HIDE DEF flushed
  <2>3. Alike(flushed, p)
    BY <2>2 DEF Alike, Good, State
  <2> HIDE DEF p
  <2> QED
    BY <2>1, <2>2, <2>3 DEF Alike
<1> QED
  BY <1>1, <1>2

\* The curtain that has come down.
LEMMA LockScreenShownCalm ==
  ASSUME NEW s, Safe(s), ~s.reading, NEW fade \in BOOLEAN, NEW animateFade \in BOOLEAN
  PROVE  LET p == LockScreenShown(s, fade, animateFade)
         IN  /\ p.modes = s.modes /\ p.dragging = s.dragging /\ ~p.reading
             /\ p.curtain = "shown" /\ p.motion = s.motion
             /\ p.leaving = s.leaving /\ p.visible = s.visible
<1> DEFINE bare == DestroyDialog(s)
           shown == [bare EXCEPT !.curtain = "shown"]
           black == [shown EXCEPT !.short = "on", !.watch = TRUE]
<1>1. Alike(s, bare) /\ Good(bare)
  BY DestroyDialogCalm, DestroyDialogSafe DEF Safe
<1>2. LockScreenShown(s, fade, animateFade) =
        IF fade /\ animateFade THEN [shown EXCEPT !.beats = @ + 1]
        ELSE IF fade THEN [black EXCEPT !.active = TRUE] ELSE [shown EXCEPT !.active = TRUE]
  BY DEF LockScreenShown, CompleteShown
<1> HIDE DEF bare
<1>3. /\ shown.modes = s.modes /\ shown.dragging = s.dragging /\ shown.reading = s.reading
      /\ shown.curtain = "shown" /\ shown.motion = s.motion
      /\ shown.leaving = s.leaving /\ shown.visible = s.visible
      /\ Good(shown)
  BY <1>1 DEF Alike, Good, State, Curtains
<1> HIDE DEF shown
<1> QED
  BY <1>2, <1>3 DEF Good, State

\* The curtain comes down on a shield that is up.
LEMMA ResetLockScreenCalm ==
  ASSUME NEW s, Safe(s), Up(s), NEW animate \in BOOLEAN, NEW fade \in BOOLEAN
  PROVE  Up(ResetLockScreen(s, animate, fade))
<1> DEFINE top == <<"user", "unlock-dialog", "lock-screen">>
<1>0. ASSUME NEW p, p.modes = top PROVE p.modes \in Stacks /\ Mode(p) = "lock-screen"
                                         /\ p.modes # <<"user">>
  <2>1. p.modes \in Stacks
    BY <1>0 DEF Stacks
  <2> QED
    BY <1>0, <2>1, StackModes
<1> HIDE DEF top
<1>1. CASE s.curtain # "hidden"
  BY <1>1 DEF ResetLockScreen
<1>2. CASE s.curtain = "hidden" /\ animate
  <2> DEFINE falling == [s EXCEPT !.leaving = FALSE, !.curtain = "showing",
                           !.motion = IF fade THEN "fallToFade" ELSE "fall"]
             p == PushMode(falling, "lock-screen")
  <2>1. ResetLockScreen(s, animate, fade) = p
    BY <1>2 DEF ResetLockScreen
  <2>2. /\ Good(falling) /\ falling.modes = s.modes /\ falling.dragging = s.dragging
        /\ falling.reading = s.reading /\ falling.curtain = "showing"
        /\ falling.motion \in {"fall", "fallToFade"}
        /\ falling.leaving = FALSE /\ falling.visible = s.visible
    <3> DEFINE m == IF fade THEN "fallToFade" ELSE "fall"
    <3>1. m \in {"fall", "fallToFade"} /\ m \in Motions
      BY DEF Motions
    <3>2. s \in State /\ Good(s)
      BY DEF Safe, Good
    <3>3. falling = [s EXCEPT !.leaving = FALSE, !.curtain = "showing", !.motion = m]
      OBVIOUS
    <3> HIDE DEF m, falling
    <3>4. falling \in State
      BY <3>1, <3>2, <3>3 DEF State, Curtains
    <3>5. /\ falling.modes = s.modes /\ falling.dragging = s.dragging
          /\ falling.reading = s.reading /\ falling.curtain = "showing"
          /\ falling.motion = m /\ falling.leaving = FALSE /\ falling.visible = s.visible
      BY <3>2, <3>3 DEF State
    <3> QED
      BY <3>1, <3>2, <3>4, <3>5 DEF Good
  <2> HIDE DEF falling
  <2>3. /\ SameButCurtain(falling, p)
        /\ p.curtain = falling.curtain /\ p.motion = falling.motion
    BY <2>2, PushModeKeeps DEF Raised
  <2>4. p.modes = top
    BY <2>2, PushedModes DEF top, Up, Steady
  <2> HIDE DEF p
  <2>5. /\ p.modes \in Stacks /\ Mode(p) = "lock-screen" /\ p.modes # <<"user">>
    BY <1>0, <2>4
  <2> QED
    BY <2>1, <2>2, <2>3, <2>5 DEF SameButCurtain, Aside, Up, Steady
<1>3. CASE s.curtain = "hidden" /\ ~animate
  <2> DEFINE down == [s EXCEPT !.leaving = FALSE, !.curtain = "showing", !.motion = "none"]
             shown == LockScreenShown(down, fade, FALSE)
             p == PushMode(shown, "lock-screen")
  <2>1. ResetLockScreen(s, animate, fade) = p
    BY <1>3 DEF ResetLockScreen
  <2>2. /\ Good(down) /\ Covering(down) /\ Asking(down) /\ Watched(down)
        /\ down.modes = s.modes /\ down.dragging = s.dragging
        /\ down.reading = s.reading /\ down.motion = "none"
        /\ down.leaving = FALSE /\ down.visible = s.visible
    <3>1. s \in State /\ Good(s)
      BY DEF Safe, Good
    <3>2. down \in State
      BY <3>1 DEF State, Curtains, Motions
    <3>3. /\ down.modes = s.modes /\ down.dragging = s.dragging
          /\ down.reading = s.reading /\ down.motion = "none"
          /\ down.leaving = FALSE /\ down.visible = s.visible
          /\ down.curtain = "showing" /\ down.dialog = s.dialog
          /\ down.verified = s.verified /\ down.finishing = s.finishing
          /\ down.dialogModal = s.dialogModal /\ down.modal = s.modal
          /\ down.locked = s.locked /\ down.long = s.long /\ down.short = s.short
          /\ down.watch = s.watch
      BY <3>1 DEF State
    <3> HIDE DEF down
    <3>4. Good(down) /\ Covering(down) /\ Watched(down)
      BY <3>1, <3>2, <3>3 DEF Safe, Good, Covering, Watched
    <3>5. Asking(down)
      BY <3>3 DEF Safe, Asking
    <3> QED
      BY <3>3, <3>4, <3>5
  <2> HIDE DEF down
  <2>3. /\ shown.modes = down.modes /\ shown.dragging = down.dragging /\ ~shown.reading
        /\ shown.curtain = "shown" /\ shown.motion = down.motion
        /\ shown.leaving = down.leaving /\ shown.visible = down.visible
    <3>1. Safe(down) /\ ~down.reading
      BY <2>2 DEF Safe, Up, Steady
    <3> HIDE DEF shown
    <3> QED
      BY <3>1, LockScreenShownCalm DEF shown
  <2>4. Good(shown)
    BY <2>2, LockScreenShownSafe DEF Safe
  <2> HIDE DEF shown
  <2>5. /\ SameButCurtain(shown, p)
        /\ p.curtain = shown.curtain /\ p.motion = shown.motion
    BY <2>4, PushModeKeeps DEF Raised
  <2>6. p.modes = top
    BY <2>2, <2>3, <2>4, PushedModes DEF top, Up, Steady
  <2> HIDE DEF p
  <2>7. /\ p.modes \in Stacks /\ Mode(p) = "lock-screen" /\ p.modes # <<"user">>
    BY <1>0, <2>6
  <2> QED
    BY <2>1, <2>2, <2>3, <2>5, <2>7 DEF SameButCurtain, Aside, Up, Steady
<1> QED
  BY <1>1, <1>2, <1>3

\* A shield that is not on its way out is up once it is activated.
LEMMA ActivateCalm ==
  ASSUME NEW s, Safe([s EXCEPT !.visible = TRUE]), s \in State, Steady(s), ~s.leaving,
         NEW animate \in BOOLEAN
  PROVE  Up(Activate(s, animate))
<1> DEFINE shown == [s EXCEPT !.visible = TRUE]
           locking == IF Mode(shown) = "user" THEN PushMode(shown, "unlock-dialog") ELSE shown
<1>1. Activate(s, animate) = ResetLockScreen(locking, animate, TRUE)
  BY DEF Activate
<1>2. /\ Safe(shown) /\ shown.visible = TRUE /\ shown.modes = s.modes
      /\ shown.dragging = s.dragging /\ shown.reading = s.reading
      /\ shown.curtain = s.curtain /\ shown.motion = s.motion /\ shown.leaving = s.leaving
  BY DEF State
<1>3. Steady(shown) /\ ~shown.leaving
  <2> HIDE DEF shown
  <2> QED
    BY <1>2 DEF Steady, Mode
<1> HIDE DEF shown
<1>4. Safe(locking) /\ Up(locking)
  <2>1. CASE Mode(shown) = "user"
    <3> DEFINE p == PushMode(shown, "unlock-dialog")
    <3>1. Good(p) /\ SameButCurtain(shown, p) /\ p.curtain = shown.curtain /\ p.motion = shown.motion
      BY <1>2, PushModeKeeps DEF Raised, Safe
    <3>2. shown.modes = <<"user">>
      BY <1>3, <2>1, StackModes DEF Steady
    <3>3. p.modes = <<"user", "unlock-dialog">>
      BY <1>2, <1>3, <3>2, PushedModes DEF Steady, Safe
    <3>4. Mode(shown) # "lock-screen"
      BY <2>1
    <3> HIDE DEF p
    <3>5. p.modes \in Stacks /\ p.modes # <<"user">>
      BY <3>3 DEF Stacks
    <3>6. Mode(p) # "lock-screen"
      BY <3>3, <3>5, StackModes
    <3>7. Safe(p)
      BY <1>2, <3>1 DEF Safe, Covering, Asking, Watched, SameButCurtain
    <3>8. Up(p)
      BY <1>2, <1>3, <3>1, <3>4, <3>5, <3>6 DEF Up, Steady, SameButCurtain, Aside
    <3> QED
      BY <2>1, <3>7, <3>8 DEF p
  <2>2. CASE Mode(shown) # "user"
    <3>1. shown.modes # <<"user">>
      BY <1>3, <2>2, StackModes DEF Steady
    <3> QED
      BY <1>2, <1>3, <2>2, <3>1 DEF Up
  <2> QED
    BY <2>1, <2>2
<1> HIDE DEF locking
<1> QED
  BY <1>1, <1>4, ResetLockScreenCalm

\* The curtain goes up, or is about to.
LEMMA HideLockScreenCalm ==
  ASSUME NEW s, Good(s), Steady(s), NEW animate \in BOOLEAN
  PROVE  Steady(HideLockScreen(s, animate))
<1>1. CASE s.curtain = "hidden"
  BY <1>1 DEF HideLockScreen
<1>2. CASE s.curtain # "hidden" /\ animate /\ s.visible
  <2> DEFINE p == [s EXCEPT !.curtain = "hiding", !.motion = "rise"]
  <2>1. HideLockScreen(s, animate) = p
    BY <1>2 DEF HideLockScreen
  <2>2. /\ p.modes = s.modes /\ p.dragging = s.dragging /\ p.reading = s.reading
        /\ p.curtain = "hiding" /\ p.motion = "rise"
    BY DEF Good, State
  <2> HIDE DEF p
  <2> QED
    BY <2>1, <2>2 DEF Steady, Mode
<1>3. CASE s.curtain # "hidden" /\ ~(animate /\ s.visible)
  <2> DEFINE still == [s EXCEPT !.motion = "none"]
             popped == PopMode(still, "lock-screen")
             p == [popped EXCEPT !.curtain = "hidden"]
  <2>1. HideLockScreen(s, animate) = p
    BY <1>3 DEF HideLockScreen, HideComplete
  <2>2. /\ Good(still) /\ still.modes = s.modes /\ still.dragging = s.dragging
        /\ still.reading = s.reading /\ still.motion = "none"
    BY DEF Good, State, Motions
  <2> HIDE DEF still
  <2>3. Good(popped) /\ SameButCurtain(still, popped) /\ popped.motion = still.motion
    BY <2>2, PopModeKeeps DEF Raised
  <2>4. popped.modes \in {<<"user">>, <<"user", "unlock-dialog">>}
    BY <2>2, PoppedModes DEF Steady
  <2> HIDE DEF popped
  <2>5. /\ p.modes = popped.modes /\ p.dragging = popped.dragging /\ p.reading = popped.reading
        /\ p.curtain = "hidden" /\ p.motion = popped.motion
    BY <2>3 DEF Good, State
  <2> HIDE DEF p
  <2>6. p.modes \in Stacks /\ p.modes # <<"user", "unlock-dialog", "lock-screen">>
    <3>1. <<"user">> # <<"user", "unlock-dialog", "lock-screen">>
          /\ <<"user", "unlock-dialog">> # <<"user", "unlock-dialog", "lock-screen">>
      OBVIOUS
    <3> QED
      BY <2>4, <2>5, <3>1, Zenon DEF Stacks
  <2>7. Mode(p) # "lock-screen"
    BY <2>6, StackModes
  <2> QED
    BY <2>1, <2>2, <2>3, <2>5, <2>6, <2>7 DEF Steady, SameButCurtain, Aside
<1> QED
  BY <1>1, <1>2, <1>3

\* A released shield is back in the user's mode.
LEMMA ReleaseShieldCalm ==
  ASSUME NEW s, Good(s), Steady(s), NEW animate \in BOOLEAN
  PROVE  LET p == ReleaseShield(s, animate)
         IN  Steady(p) /\ p.modes = <<"user">>
<1> DEFINE up == HideLockScreen(s, animate)
           bare == PopMode(up, "lock-screen")
           unlocked == PopMode(bare, "unlock-dialog")
           p == [unlocked EXCEPT !.dialogModal = FALSE, !.modal = FALSE]
<1>1. ReleaseShield(s, animate) = p
  BY DEF ReleaseShield
<1>2. Good(up) /\ Steady(up) /\ up.curtain \in {"hidden", "hiding"}
  BY HideLockScreenKeeps, HideLockScreenCalm
<1> HIDE DEF up
<1>3. /\ Good(bare) /\ SameButCurtain(up, bare)
      /\ bare.curtain = up.curtain /\ bare.motion = up.motion
  BY <1>2, PopModeKeeps DEF Raised
<1>4. bare.modes \in {<<"user">>, <<"user", "unlock-dialog">>}
  BY <1>2, PoppedModes DEF Steady
<1> HIDE DEF bare
<1>5. /\ Good(unlocked) /\ SameButCurtain(bare, unlocked)
      /\ unlocked.curtain = bare.curtain /\ unlocked.motion = bare.motion
  BY <1>3, PopModeKeeps DEF Raised
<1>6. unlocked.modes = <<"user">>
  <2>1. bare.modes \in Stacks /\ bare.modes # <<"user", "unlock-dialog", "lock-screen">>
    <3>1. <<"user">> # <<"user", "unlock-dialog", "lock-screen">>
          /\ <<"user", "unlock-dialog">> # <<"user", "unlock-dialog", "lock-screen">>
      OBVIOUS
    <3> QED
      BY <1>4, <3>1, Zenon DEF Stacks
  <2> QED
    BY <1>3, <2>1, PoppedModes
<1> HIDE DEF unlocked
<1>7. /\ p.modes = unlocked.modes /\ p.dragging = unlocked.dragging
      /\ p.reading = unlocked.reading /\ p.curtain = unlocked.curtain
      /\ p.motion = unlocked.motion
  BY <1>5 DEF Good, State
<1> HIDE DEF p
<1>8. p.modes \in Stacks /\ Mode(p) # "lock-screen"
  <2>1. p.modes \in Stacks
    BY <1>6, <1>7 DEF Stacks
  <2>2. Mode(p) = "user"
    BY <1>6, <1>7, <2>1, StackModes
  <2> QED
    BY <2>1, <2>2
<1> QED
  BY <1>1, <1>2, <1>3, <1>5, <1>6, <1>7, <1>8 DEF Steady, SameButCurtain, Aside

\* A shield that gave everything back before it left is gone.
LEMMA CompleteDeactivateCalm ==
  ASSUME NEW s, Good(s), Steady(s), s.modes = <<"user">>, ~s.modal, s.finishing = "no"
  PROVE  Calm(CompleteDeactivate(s))
<1> DEFINE free == [s EXCEPT !.reading = FALSE, !.finishing = "no"]
           dark == LightsOff(free)
           half == [dark EXCEPT !.leaving = FALSE, !.dialog = FALSE, !.verified = FALSE,
                                !.dialogModal = FALSE, !.visible = FALSE]
           p == [half EXCEPT !.watch = FALSE, !.lockTimer = FALSE, !.active = FALSE,
                             !.locked = FALSE]
<1>1. CompleteDeactivate(s) = p
  BY DEF CompleteDeactivate, WithoutMessages
<1>2. /\ dark \in State /\ dark.modes = s.modes /\ dark.dragging = s.dragging
      /\ dark.reading = FALSE /\ dark.curtain = s.curtain /\ dark.motion = s.motion
      /\ dark.modal = s.modal /\ dark.short = "off" /\ dark.long = "off"
  BY DEF LightsOff, Good, State, Lights
<1> HIDE DEF dark
<1>3. /\ half \in State /\ half.modes = dark.modes /\ half.dragging = dark.dragging
      /\ half.reading = dark.reading /\ half.curtain = dark.curtain
      /\ half.motion = dark.motion /\ half.modal = dark.modal /\ half.short = dark.short
      /\ half.long = dark.long /\ half.leaving = FALSE /\ half.visible = FALSE
  BY <1>2 DEF State
<1> HIDE DEF half
<1>4. /\ p.modes = half.modes /\ p.dragging = half.dragging
      /\ p.reading = half.reading /\ p.curtain = half.curtain
      /\ p.motion = half.motion /\ p.modal = half.modal /\ p.short = half.short
      /\ p.long = half.long /\ p.leaving = half.leaving /\ p.visible = half.visible
      /\ p.active = FALSE /\ p.locked = FALSE
  BY <1>3 DEF State
<1> HIDE DEF p
<1>5. Steady(p)
  BY <1>2, <1>3, <1>4 DEF Steady, Mode
<1> QED
  BY <1>1, <1>2, <1>3, <1>4, <1>5 DEF Calm, Good, State

\* Deactivation, at once or with its animation, leaves calmly.
LEMMA DeactivateCalm ==
  ASSUME NEW s, Safe(s), Calm(s), NEW animate \in BOOLEAN, animate => ~s.locked
  PROVE  Calm(Deactivate(s, animate))
<1> DEFINE released == ReleaseShield(s, animate)
           p == [released EXCEPT !.leaving = TRUE]
<1>1. Deactivate(s, animate) = IF animate /\ released.visible THEN p
                               ELSE CompleteDeactivate(released)
  BY DEF Deactivate, ContinueDeactivate, Calm, Steady
<1>2. s.finishing = "no" /\ Good(s) /\ Steady(s)
  BY DEF Safe, Asking, Calm, Steady
<1>3. /\ Good(released) /\ ~released.modal /\ released.finishing = "no"
      /\ released.locked = s.locked
  BY <1>2, ReleaseShieldEffect
<1>4. Steady(released) /\ released.modes = <<"user">>
  BY <1>2, ReleaseShieldCalm
<1> HIDE DEF released
<1>5. CASE animate /\ released.visible
  <2>1. /\ p.modes = released.modes /\ p.dragging = released.dragging
        /\ p.reading = released.reading /\ p.curtain = released.curtain
        /\ p.motion = released.motion /\ p.modal = released.modal
        /\ p.leaving = TRUE /\ p.visible = released.visible /\ p.locked = released.locked
    BY <1>3 DEF Good, State
  <2> HIDE DEF p
  <2>2. Steady(p)
    BY <1>4, <2>1 DEF Steady, Mode
  <2> QED
    BY <1>1, <1>3, <1>4, <1>5, <2>1, <2>2 DEF Calm, Good, State
<1>6. CASE ~(animate /\ released.visible)
  BY <1>1, <1>3, <1>4, <1>6, CompleteDeactivateCalm
<1> QED
  BY <1>5, <1>6

\* A locked shield that does not leave is up.
LEMMA LockedIsUp == ASSUME NEW s, Safe(s), Calm(s), s.locked PROVE Up(s)
BY DEF Safe, Covering, Calm, Up

\* Giving up the prompt leaves a shield up that was up.
LEMMA CancelPromptCalm ==
  ASSUME NEW s, Safe(s), Up(s)
  PROVE  Up(CancelPrompt(s))
<1> DEFINE flushed == FlushMessages(s)
<1>1. CancelPrompt(s) = IF s.verified THEN s
                        ELSE IF flushed.dialog THEN ResetLockScreen(flushed, TRUE, FALSE)
                             ELSE flushed
  BY DEF CancelPrompt
<1>2. Safe(flushed) /\ Alike(s, flushed)
  BY FlushMessagesSafe, FlushMessagesCalm DEF Up, Steady
<1> HIDE DEF flushed
<1>3. Up(flushed)
  BY <1>2, AlikeIsCalm
<1>4. Up(ResetLockScreen(flushed, TRUE, FALSE))
  BY <1>2, <1>3, ResetLockScreenCalm
<1> QED
  BY <1>1, <1>3, <1>4

LEMMA MaybeCancelDialogCalm ==
  ASSUME NEW s, Safe(s), Calm(s), ~s.leaving
  PROVE  LET p == MaybeCancelDialog(s) IN Calm(p) /\ ~p.leaving
<1>1. CASE ~s.dialog
  BY <1>1 DEF MaybeCancelDialog
<1>2. CASE s.dialog
  <2> DEFINE cancelled == CancelPrompt(s)
             p == DestroyDialog(cancelled)
  <2>1. MaybeCancelDialog(s) = p
    BY <1>2 DEF MaybeCancelDialog
  <2>2. Safe(cancelled) /\ Up(cancelled)
    BY <1>2, LockedIsUp, CancelPromptSafe, CancelPromptCalm DEF Safe, Asking
  <2> HIDE DEF cancelled
  <2>3. Up(p)
    BY <2>2, DestroyDialogCalm, AlikeIsCalm DEF Up, Steady
  <2> HIDE DEF p
  <2> QED
    BY <2>1, <2>3, UpIsCalm DEF Up
<1> QED
  BY <1>1, <1>2

\* Lifting a locked shield raises the curtain over its dialog.
LEMMA LiftShieldCalm ==
  ASSUME NEW s, Safe(s), Calm(s), NEW granted \in BOOLEAN
  PROVE  Calm(LiftShield(s, granted))
<1>1. CASE ~s.locked
  <2>1. LiftShield(s, granted) = Deactivate(s, TRUE)
    BY <1>1 DEF LiftShield
  <2> QED
    BY <1>1, <2>1, DeactivateCalm
<1>2. CASE s.locked
  <2> DEFINE opened == [s EXCEPT !.dialog = TRUE, !.dialogModal = TRUE]
             asked == IF s.dialog THEN s ELSE opened
             p == HideLockScreen(asked, TRUE)
  <2>1. LiftShield(s, granted) = p
    BY <1>2, DialogOpens DEF LiftShield, NoGrab, Safe, Covering
  <2>2. Good(opened) /\ Alike(s, opened)
    BY DEF Safe, Good, State, Alike
  <2>3. Good(asked) /\ Up(asked)
    <3>1. Up(s)
      BY <1>2, LockedIsUp
    <3>2. Up(opened)
      BY <2>2, <3>1, AlikeIsCalm
    <3> QED
      BY <2>2, <3>1, <3>2 DEF Safe
  <2> HIDE DEF asked
  <2>4. Steady(p)
    BY <2>3, HideLockScreenCalm DEF Up
  <2>5. SameButCurtain(asked, p)
    BY <2>3, HideLockScreenKeeps
  <2>6. p.modes # <<"user">>
    <3>1. p.modes = asked.modes
      BY <2>3 DEF HideLockScreen, Up, Good, State
    <3> QED
      BY <2>3, <3>1 DEF Up
  <2> HIDE DEF p
  <2> QED
    BY <2>1, <2>3, <2>4, <2>5, <2>6, UpIsCalm DEF Up, SameButCurtain, Aside
<1> QED
  BY <1>1, <1>2

\* The fade of idleness is the one thing that holds the grab of a shield that is gone.
LEMMA IdleCalm ==
  ASSUME NEW s, Safe(s), Calm(s), ~s.leaving, NEW granted \in BOOLEAN
  PROVE  Calm(AtIdle(s, granted))
<1> DEFINE cancelled == MaybeCancelDialog(s)
           shouldLock == cancelled.enabled /\ ~cancelled.locked
           again == shouldLock /\ cancelled.lockTimer
           p == [cancelled EXCEPT !.modal = TRUE, !.long = LightOn(@),
                   !.orphans = IF again THEN @ + 1 ELSE @,
                   !.lockTimer = @ \/ shouldLock, !.watch = TRUE]
<1>1. Good(cancelled) /\ Calm(cancelled) /\ ~cancelled.leaving
  BY MaybeCancelDialogSafe, MaybeCancelDialogCalm DEF Safe
<1>2. AtIdle(s, granted) =
        IF cancelled.long # "off" \/ NoGrab(cancelled, granted) THEN cancelled ELSE p
  BY DEF AtIdle, ActivateFade
<1> HIDE DEF cancelled
<1>3. CASE cancelled.long # "off" \/ NoGrab(cancelled, granted)
  BY <1>1, <1>2, <1>3
<1>4. CASE ~(cancelled.long # "off" \/ NoGrab(cancelled, granted))
  <2>1. LightOn(cancelled.long) = "fading"
    BY <1>4 DEF LightOn
  <2> HIDE DEF shouldLock, again
  <2>2. /\ p.modes = cancelled.modes /\ p.dragging = cancelled.dragging
        /\ p.reading = cancelled.reading /\ p.curtain = cancelled.curtain
        /\ p.motion = cancelled.motion /\ p.leaving = cancelled.leaving
        /\ p.visible = cancelled.visible /\ p.active = cancelled.active
        /\ p.short = cancelled.short /\ p.modal = TRUE /\ p.long = "fading"
    BY <1>1, <2>1 DEF Good, State
  <2> HIDE DEF p
  <2>3. Steady(p)
    BY <1>1, <2>2 DEF Calm, Steady, Mode
  <2> QED
    BY <1>1, <1>2, <1>4, <2>2, <2>3 DEF Calm
<1> QED
  BY <1>3, <1>4

\* The user's return lights the screen of a shield that is up, or ends the fade.
LEMMA UserActiveCalm ==
  ASSUME NEW s, Safe(s), Calm(s)
  PROVE  Calm(AtUserActive(s))
<1> DEFINE seen == [s EXCEPT !.watch = FALSE]
           lit == LightsOff(seen)
<1>1. AtUserActive(s) = IF s.active \/ s.locked THEN lit ELSE Deactivate(seen, FALSE)
  BY DEF AtUserActive
<1>2. /\ Good(seen) /\ Alike(s, seen) /\ seen.finishing = "no" /\ seen.reading = s.reading
  BY DEF Safe, Asking, Calm, Steady, Good, State, Alike
<1>3. Calm(seen)
  BY <1>2, AlikeIsCalm
<1> HIDE DEF seen
<1>4. CASE s.active \/ s.locked
  <2>1. s.visible
    BY <1>4 DEF Safe, Covering, Calm
  <2>2. /\ lit.modes = seen.modes /\ lit.dragging = seen.dragging
        /\ lit.reading = seen.reading /\ lit.curtain = seen.curtain
        /\ lit.motion = seen.motion /\ lit.leaving = seen.leaving
        /\ lit.visible = seen.visible /\ lit.modal = seen.modal /\ lit.locked = seen.locked
    BY <1>2 DEF LightsOff, Good, State
  <2> HIDE DEF lit
  <2>3. Steady(lit)
    BY <1>3, <2>2 DEF Calm, Steady, Mode
  <2> QED
    BY <1>1, <1>2, <1>3, <1>4, <2>1, <2>2, <2>3 DEF Calm, Alike
<1>5. CASE ~(s.active \/ s.locked)
  <2> DEFINE released == ReleaseShield(seen, FALSE)
  <2>1. Deactivate(seen, FALSE) = CompleteDeactivate(released)
    BY <1>3 DEF Deactivate, ContinueDeactivate, Calm, Steady
  <2>2. /\ Good(released) /\ ~released.modal /\ released.finishing = "no"
    BY <1>2, ReleaseShieldEffect
  <2>3. Steady(released) /\ released.modes = <<"user">>
    BY <1>2, <1>3, ReleaseShieldCalm DEF Calm
  <2> HIDE DEF released
  <2> QED
    BY <1>1, <1>5, <2>1, <2>2, <2>3, CompleteDeactivateCalm
<1> QED
  BY <1>4, <1>5

\* Locking, where the grab is granted, puts the shield up.
LEMMA LockCalm ==
  ASSUME NEW s, Safe(s), Calm(s), ~s.leaving, NEW animate \in BOOLEAN, NEW granted \in BOOLEAN
  PROVE  Calm(Lock(s, animate, granted))
<1>1. CASE NoGrab(s, granted)
  BY <1>1 DEF Lock
<1>2. CASE ~NoGrab(s, granted)
  <2> DEFINE taken == [s EXCEPT !.modal = TRUE, !.locked = Password]
             seen == [taken EXCEPT !.visible = TRUE]
  <2>1. Lock(s, animate, granted) = Activate(taken, animate)
    BY <1>2 DEF Lock
  <2>2. Password \in BOOLEAN
    BY ShieldAssumption
  <2>3. Good(seen)
    BY <2>2 DEF Safe, Good, State
  <2>4. Covering(seen) /\ Asking(seen) /\ Watched(seen)
    BY <2>2 DEF Safe, Good, State, Covering, Asking, Watched
  <2>5. /\ taken \in State /\ taken.modes = s.modes /\ taken.dragging = s.dragging
        /\ taken.reading = s.reading /\ taken.curtain = s.curtain
        /\ taken.motion = s.motion /\ taken.leaving = s.leaving
    BY <2>2 DEF Safe, Good, State
  <2> HIDE DEF taken
  <2>6. Steady(taken) /\ ~taken.leaving
    BY <2>5 DEF Calm, Steady, Mode
  <2> QED
    BY <2>1, <2>3, <2>4, <2>5, <2>6, ActivateCalm, UpIsCalm DEF Safe
<1> QED
  BY <1>1, <1>2
-----------------------------------------------------------------------------
(* Every call that is not rough is calm *)

\* What a call that leaves the shield smooth may rely on.
Smooth == Sound(sh) /\ Calm(sh) /\ ~sh.rough /\ ~sh'.rough

\* A request that came while the shield was leaving is rough.
LEMMA AskedCalm ==
  ASSUME Sound(sh), Calm(sh), ~Asked.rough
  PROVE  Calm(Asked) /\ ~Asked.leaving /\ Sound(Asked) /\ Alike(sh, Asked)
<1>1. Alike(sh, Asked) /\ Asked.rough = (sh.rough \/ sh.leaving)
  BY DEF Asked, Alike, Sound, Safe, Good, State
<1> QED
  BY <1>1, AlikeIsCalm, AskedSound DEF Alike

LEMMA RequestCalm == ASSUME Smooth, Request PROVE Calm(sh')
<1> USE DEF Smooth, Sound
<1>1. CASE LockRequest
  <2>1. PICK animate \in BOOLEAN, granted \in Grants : sh' = Lock(Asked, animate, granted)
    BY <1>1 DEF LockRequest
  <2>2. granted \in BOOLEAN
    BY GrantsType
  <2>3. ~Asked.rough
    BY <2>1, <2>2, AskedSound, LockSafe DEF Quiet
  <2> QED
    BY <2>1, <2>2, <2>3, AskedCalm, LockCalm
<1>2. CASE Suspend
  <2>1. PICK granted \in Grants : sh' = Lock(Asked, TRUE, granted)
    BY <1>2 DEF Suspend
  <2>2. granted \in BOOLEAN
    BY GrantsType
  <2>3. ~Asked.rough
    BY <2>1, <2>2, AskedSound, LockSafe DEF Quiet
  <2> QED
    BY <2>1, <2>2, <2>3, AskedCalm, LockCalm
<1>3. CASE WakeUp
  BY <1>3, UserActiveCalm DEF WakeUp
<1>4. CASE SetActive
  <2> DEFINE seen == [Asked EXCEPT !.visible = TRUE]
  <2>1. Safe(seen) /\ seen.rough = Asked.rough
    BY AskedSound DEF Safe, Good, State, Covering, Asking, Watched
  <2>2. sh' = Activate(Asked, TRUE)
    BY <1>4 DEF SetActive
  <2>3. sh'.rough = seen.rough
    BY <2>1, <2>2, ActivateSafe DEF Aside, Quiet
  <2>4. Calm(Asked) /\ ~Asked.leaving /\ Asked \in State
    BY <2>1, <2>3, AskedCalm, AskedSound DEF Safe, Good
  <2> QED
    BY <2>1, <2>2, <2>4, ActivateCalm, UpIsCalm DEF Calm
<1>5. CASE Unlock
  <2> DEFINE asked == [sh EXCEPT !.promised = FALSE]
  <2>1. Good(asked) /\ Alike(sh, asked)
    BY DEF Safe, Good, State, Alike
  <2>2. Covering(asked) /\ Asking(asked) /\ Watched(asked)
    BY DEF Safe, Good, State, Covering, Asking, Watched
  <2>3. sh' = Deactivate(asked, FALSE)
    BY <1>5 DEF Unlock
  <2> HIDE DEF asked
  <2> QED
    BY <2>1, <2>2, <2>3, AlikeIsCalm, DeactivateCalm DEF Safe
<1>6. CASE Idle
  <2>1. PICK granted \in Grants :
          sh' = AtIdle(Asked, granted) /\ (sh.orphans < MaxOrphans \/ ~sh.lockTimer)
    BY <1>6 DEF Idle
  <2>2. granted \in BOOLEAN
    BY GrantsType
  <2>3. ~Asked.rough
    BY <2>1, <2>2, AskedSound, IdleSafe DEF Quiet
  <2> QED
    BY <2>1, <2>2, <2>3, AskedCalm, IdleCalm
<1>7. CASE SetEnabled
  <2>1. Alike(sh, sh')
    BY <1>7 DEF SetEnabled, Safe, Good, State, Alike
  <2> QED
    BY <2>1, AlikeIsCalm
<1> QED
  BY <1>1, <1>2, <1>3, <1>4, <1>5, <1>6, <1>7 DEF Request

LEMMA InputCalm == ASSUME Smooth, Input PROVE Calm(sh')
<1> USE DEF Smooth, Sound
<1>1. CASE UserActive
  BY <1>1, UserActiveCalm DEF UserActive
<1>2. CASE Lift
  BY <1>2, GrantsType, LiftShieldCalm DEF Lift
<1>3. CASE SmartcardInserted
  BY <1>3, GrantsType, LiftShieldCalm DEF SmartcardInserted
<1>4. CASE DragBegin
  <2> DEFINE held == [sh EXCEPT !.rough = TRUE]
  <2>1. Safe(held) /\ held.rough = TRUE
    BY DEF Safe, Good, State, Covering, Asking, Watched
  <2> HIDE DEF held
  <2>2. \E granted \in Grants : sh' = AtDragBegin(held, granted)
    BY <1>4 DEF DragBegin, held
  <2>3. sh'.rough = TRUE
    BY <2>1, <2>2, GrantsType, DragBeginSafe
  <2> QED
    BY <2>3
<1>5. CASE DragEnd
  BY <1>5 DEF DragEnd, Calm, Steady
<1> QED
  BY <1>1, <1>2, <1>3, <1>4, <1>5 DEF Input

LEMMA PromptCalm == ASSUME Smooth, Prompt PROVE Calm(sh')
<1> USE DEF Smooth, Sound
<1>1. CASE Verified
  <2>1. PICK reading \in BOOLEAN :
          sh' = [sh EXCEPT !.verified = TRUE, !.promised = TRUE, !.reading = @ \/ reading,
                           !.rough = @ \/ reading]
    BY <1>1 DEF Verified
  <2>2. ~reading
    BY <2>1 DEF Safe, Good, State
  <2>3. sh' = [sh EXCEPT !.verified = TRUE, !.promised = TRUE, !.reading = FALSE, !.rough = FALSE]
    BY <2>1, <2>2 DEF Calm, Steady
  <2>4. Alike(sh, sh')
    BY <2>3 DEF Safe, Good, State, Alike, Calm, Steady
  <2> QED
    BY <2>4, AlikeIsCalm
<1>2. CASE MessageShown
  BY <1>2 DEF MessageShown, Safe, Good, State
<1>3. CASE MessagesRead
  BY <1>3 DEF MessagesRead, Calm, Steady
<1>4. CASE DialogFailed
  <2>1. sh.dialog /\ sh' = CancelPrompt(sh)
    BY <1>4 DEF DialogFailed
  <2>2. Up(sh)
    BY <2>1, LockedIsUp DEF Safe, Asking
  <2> QED
    BY <2>1, <2>2, CancelPromptCalm, UpIsCalm
<1> QED
  BY <1>1, <1>2, <1>3, <1>4 DEF Prompt

LEMMA CompletionCalm == ASSUME Smooth, Completion PROVE Calm(sh')
<1> USE DEF Smooth, Sound
<1>1. CASE CurtainDown
  <2> DEFINE still == [sh EXCEPT !.motion = "none"]
             fade == sh.motion = "fallToFade"
             p == LockScreenShown(still, fade, TRUE)
  <2>1. /\ Good(still) /\ still.modes = sh.modes /\ still.dragging = sh.dragging
        /\ still.reading = sh.reading /\ still.motion = "none"
        /\ still.leaving = sh.leaving /\ still.visible = sh.visible
    BY DEF Safe, Good, State, Motions
  <2>2. Covering(still) /\ Asking(still) /\ Watched(still)
    BY DEF Safe, Good, State, Covering, Asking, Watched
  <2>3. sh' = p /\ sh.motion \in {"fall", "fallToFade"}
    BY <1>1 DEF CurtainDown
  <2>4. fade \in BOOLEAN
    OBVIOUS
  <2> HIDE DEF still, fade
  <2>5. /\ p.modes = still.modes /\ p.dragging = still.dragging /\ ~p.reading
        /\ p.curtain = "shown" /\ p.motion = still.motion
        /\ p.leaving = still.leaving /\ p.visible = still.visible
    BY <2>1, <2>2, <2>4, LockScreenShownCalm DEF Safe, Calm, Steady
  <2> HIDE DEF p
  <2>6. Mode(sh) = "lock-screen"
    BY <2>3 DEF Calm, Steady
  <2>7. sh.modes # <<"user">>
    BY <2>6, StackModes DEF Calm, Steady
  <2>8. sh'.modes = sh.modes /\ Mode(sh') = "lock-screen"
    BY <2>1, <2>3, <2>5, <2>6 DEF Mode
  <2>9. Up(sh')
    BY <2>1, <2>3, <2>5, <2>7, <2>8 DEF Up, Calm, Steady
  <2> QED
    BY <2>9, UpIsCalm
<1>2. CASE CurtainUp
  <2> DEFINE still == [sh EXCEPT !.motion = "none"]
             popped == PopMode(still, "lock-screen")
             p == [popped EXCEPT !.curtain = "hidden"]
  <2>1. sh' = p
    BY <1>2 DEF CurtainUp, HideComplete
  <2>2. Good(still) /\ still.motion = "none" /\ still.modes = sh.modes
    BY DEF Safe, Good, State, Motions
  <2>3. /\ still.dragging = sh.dragging /\ still.reading = sh.reading
        /\ still.leaving = sh.leaving /\ still.visible = sh.visible
        /\ still.modal = sh.modal /\ still.locked = sh.locked /\ still.active = sh.active
        /\ still.short = sh.short /\ still.long = sh.long
    BY DEF Safe, Good, State
  <2> HIDE DEF still
  <2>4. Good(popped) /\ SameButCurtain(still, popped) /\ popped.motion = still.motion
    BY <2>2, PopModeKeeps DEF Raised
  <2>5. popped.modes = IF sh.modes = <<"user">> THEN <<"user">> ELSE <<"user", "unlock-dialog">>
    BY <2>2, PoppedModes DEF Calm, Steady
  <2> HIDE DEF popped
  <2>6. /\ p.modes = popped.modes /\ p.dragging = popped.dragging
        /\ p.reading = popped.reading /\ p.curtain = "hidden" /\ p.motion = popped.motion
        /\ p.leaving = popped.leaving /\ p.visible = popped.visible
        /\ p.modal = popped.modal /\ p.locked = popped.locked /\ p.active = popped.active
        /\ p.short = popped.short /\ p.long = popped.long
    BY <2>4 DEF Good, State
  <2> HIDE DEF p
  <2>7. /\ <<"user", "unlock-dialog">> # <<"user">>
        /\ <<"user">> # <<"user", "unlock-dialog", "lock-screen">>
        /\ <<"user", "unlock-dialog">> # <<"user", "unlock-dialog", "lock-screen">>
    OBVIOUS
  <2>8. /\ p.modes \in Stacks /\ p.modes # <<"user", "unlock-dialog", "lock-screen">>
        /\ p.modes = <<"user">> <=> sh.modes = <<"user">>
    BY <2>5, <2>6, <2>7, Zenon DEF Stacks
  <2>9. Mode(p) # "lock-screen"
    BY <2>8, StackModes
  <2>10. Steady(p)
    BY <2>2, <2>3, <2>4, <2>6, <2>8, <2>9 DEF Calm, Steady, SameButCurtain, Aside
  <2> QED
    BY <2>1, <2>3, <2>4, <2>6, <2>8, <2>10 DEF Calm, SameButCurtain
<1>3. CASE CurtainBack
  BY <1>3 DEF CurtainBack, Returning, Calm, Steady
<1>4. CASE Beat
  <2> DEFINE light == LightOn(sh.short)
             rough == sh.rough \/ ~sh.visible
  <2>1. sh' = [sh EXCEPT !.beats = sh.beats - 1, !.short = light, !.rough = rough,
                         !.watch = TRUE]
    BY <1>4 DEF Beat, ActivateFade
  <2>2. sh'.rough = rough
    BY <2>1 DEF Safe, Good, State
  <2>3. sh.visible
    BY <2>2
  <2> HIDE DEF light, rough
  <2>4. /\ sh'.modes = sh.modes /\ sh'.dragging = sh.dragging /\ sh'.reading = sh.reading
        /\ sh'.curtain = sh.curtain /\ sh'.motion = sh.motion /\ sh'.leaving = sh.leaving
        /\ sh'.visible = sh.visible /\ sh'.modal = sh.modal /\ sh'.locked = sh.locked
    BY <2>1 DEF Safe, Good, State
  <2>5. Steady(sh')
    BY <2>4 DEF Calm, Steady, Mode
  <2> QED
    BY <2>3, <2>4, <2>5 DEF Calm
<1>5. CASE ShortFaded
  <2>1. sh.visible /\ sh' = [sh EXCEPT !.short = "on", !.active = TRUE]
    BY <1>5 DEF ShortFaded, CompleteShown, Calm
  <2>2. /\ sh'.modes = sh.modes /\ sh'.dragging = sh.dragging /\ sh'.reading = sh.reading
        /\ sh'.curtain = sh.curtain /\ sh'.motion = sh.motion /\ sh'.leaving = sh.leaving
        /\ sh'.visible = sh.visible /\ sh'.modal = sh.modal /\ sh'.locked = sh.locked
    BY <2>1 DEF Safe, Good, State
  <2>3. Steady(sh')
    BY <2>2 DEF Calm, Steady, Mode
  <2> QED
    BY <2>1, <2>2, <2>3 DEF Calm
<1>6. CASE LongFaded
  <2> DEFINE black == [Asked EXCEPT !.long = "on"]
             seen == [black EXCEPT !.visible = TRUE]
  <2>1. sh' = Activate(black, FALSE) /\ sh.long # "off"
    BY <1>6 DEF LongFaded
  <2>2. Good(seen) /\ seen.rough = Asked.rough
    BY AskedSound DEF Lights, Safe, Good, State
  <2>3. Covering(seen) /\ Asking(seen) /\ Watched(seen)
    BY <2>1, AskedSound DEF Safe, Good, State, Covering, Asking, Watched
  <2>4. sh'.rough = seen.rough
    BY <2>1, <2>2, <2>3, ActivateSafe DEF Safe, Aside, Quiet
  <2>5. Calm(Asked) /\ ~Asked.leaving
    BY <2>2, <2>4, AskedCalm
  <2>6. /\ black \in State /\ black.modes = Asked.modes /\ black.dragging = Asked.dragging
        /\ black.reading = Asked.reading /\ black.curtain = Asked.curtain
        /\ black.motion = Asked.motion /\ black.leaving = Asked.leaving
    BY AskedSound DEF Lights, Safe, Good, State
  <2> HIDE DEF black
  <2>7. Steady(black) /\ ~black.leaving
    BY <2>5, <2>6 DEF Calm, Steady, Mode
  <2> QED
    BY <2>1, <2>2, <2>3, <2>6, <2>7, ActivateCalm, UpIsCalm DEF Safe
<1>7. CASE DialogGroupGone
  <2>1. sh.finishing = "no"
    BY DEF Safe, Asking, Calm, Steady
  <2> QED
    BY <1>7, <2>1, CompleteDeactivateCalm DEF DialogGroupGone, Safe, Calm
<1>8. ASSUME NEW orphans \in 0 .. MaxOrphans,
             \E granted \in Grants :
               sh' = Lock([Asked EXCEPT !.orphans = orphans, !.lockTimer = FALSE], FALSE, granted)
      PROVE  Calm(sh')
  <2> DEFINE rung == [Asked EXCEPT !.orphans = orphans, !.lockTimer = FALSE]
  <2>1. PICK granted \in Grants : sh' = Lock(rung, FALSE, granted)
    BY <1>8
  <2>2. granted \in BOOLEAN
    BY GrantsType
  <2>3. Good(rung) /\ Alike(Asked, rung) /\ rung.rough = Asked.rough
    BY AskedSound DEF Safe, Good, State, Alike
  <2>4. Covering(rung) /\ Asking(rung) /\ Watched(rung)
    BY AskedSound DEF Safe, Good, State, Covering, Asking, Watched
  <2> HIDE DEF rung
  <2>5. ~Asked.rough
    BY <2>1, <2>2, <2>3, <2>4, LockSafe DEF Safe, Quiet
  <2>6. Calm(rung) /\ ~rung.leaving
    BY <2>3, <2>5, AskedCalm, AlikeIsCalm DEF Alike
  <2> QED
    BY <2>1, <2>2, <2>3, <2>4, <2>6, LockCalm DEF Safe
<1>9. CASE LockTimeout
  <2>1. [Asked EXCEPT !.lockTimer = FALSE] =
          [Asked EXCEPT !.orphans = Asked.orphans, !.lockTimer = FALSE]
    BY AskedSound DEF Safe, Good, State
  <2>2. Asked.orphans \in 0 .. MaxOrphans
    BY AskedSound DEF Safe, Good, State
  <2> QED
    BY <1>8, <1>9, <2>1, <2>2 DEF LockTimeout
<1>10. CASE OrphanTimeout
  <2>1. Asked.orphans - 1 \in 0 .. MaxOrphans
    BY <1>10, AskedSound, ShieldAssumption DEF OrphanTimeout, Safe, Good, State
  <2> QED
    BY <1>8, <1>10, <2>1 DEF OrphanTimeout
<1> QED
  BY <1>1, <1>2, <1>3, <1>4, <1>5, <1>6, <1>7, <1>9, <1>10 DEF Completion
-----------------------------------------------------------------------------
(* Theorems *)

IInv == Sound(sh) /\ (~sh.rough => Calm(sh))

\* The inductive invariant: every state is sound, those never treated roughly are calm.
THEOREM Soundness == Spec => []IInv
<1>1. Init => IInv
  <2> SUFFICES ASSUME Init PROVE IInv
    OBVIOUS
  <2>1. /\ sh.modes = <<"user">> /\ ~sh.dragging /\ ~sh.reading /\ sh.curtain = "hidden"
        /\ sh.motion = "none" /\ ~sh.leaving /\ ~sh.visible /\ sh.modal = FALSE
        /\ ~sh.active /\ sh.short = "off" /\ sh.long = "off"
    BY DEF Init
  <2>2. sh.modes \in Stacks
    BY <2>1 DEF Stacks
  <2>3. Mode(sh) # "lock-screen"
    BY <2>1, <2>2, StackModes
  <2>4. Steady(sh)
    BY <2>1, <2>2, <2>3 DEF Steady
  <2>5. Calm(sh)
    BY <2>1, <2>4 DEF Calm
  <2> QED
    BY <2>5, InitSound DEF IInv
<1>2. IInv /\ [Next]_sh => IInv'
  <2> SUFFICES ASSUME IInv, [Next]_sh PROVE IInv'
    OBVIOUS
  <2>1. CASE UNCHANGED sh
    BY <2>1 DEF IInv, Sound, Safe, Good, Covering, Asking, Watched, Returning, Calm, Steady, Mode
  <2>2. CASE Next
    <3>1. Sound(sh') /\ (sh.rough => sh'.rough)
      BY <2>2, RequestSound, InputSound, PromptSound, CompletionSound DEF Next, IInv
    <3>2. ASSUME ~sh'.rough PROVE Calm(sh')
      <4>1. Smooth
        BY <3>1, <3>2 DEF Smooth, IInv, Sound, Safe, Good, State
      <4> QED
        BY <2>2, <4>1, RequestCalm, InputCalm, PromptCalm, CompletionCalm DEF Next
    <3> QED
      BY <3>1, <3>2 DEF IInv, Sound, Safe, Good, Covering, Asking, Watched, Returning,
                        Calm, Steady, Mode
  <2> QED
    BY <2>1, <2>2
<1> QED
  BY <1>1, <1>2, PTL DEF Spec

\* The fields of the shield keep their types.
THEOREM TypeCorrect == Spec => []TypeOK
<1>1. IInv => TypeOK
  BY DEF IInv, Sound, Safe, Good, TypeOK
<1> QED
  BY <1>1, Soundness, PTL

\* _activateFade() and _onUserBecameActive() are never out of step: a screen that is
\* black, or fading, has a watch on the user's activity.
THEOREM BlackScreenIsWatched == Spec => []BlackIsWatched
<1>1. IInv => BlackIsWatched
  BY DEF IInv, Sound, Safe, Watched, BlackIsWatched
<1> QED
  BY <1>1, Soundness, PTL

\* A locked shield covers the screen and owns the input, whatever grabs are refused
\* and whatever comes while its animations run.
THEOREM LockedShieldCovers == Spec => []LockedCovers
<1>1. IInv => LockedCovers
  BY DEF IInv, Sound, Safe, Covering, LockedCovers
<1> QED
  BY <1>1, Soundness, PTL

\* A dialog belongs to one locking: destroyed with the curtain that comes down on it,
\* also when what finish() left waiting for its messages runs at that moment.
THEOREM DialogBelongsToItsLocking == Spec => []DialogIsFresh
<1>1. IInv => DialogIsFresh
  BY DEF IInv, Sound, Safe, Good, State, Asking, DialogIsFresh
<1> QED
  BY <1>1, Soundness, PTL

\* The session modes follow the curtain and the shield while it is treated calmly.
THEOREM ModesFollow == Spec => []ModesFollowCurtain
<1>1. IInv => ModesFollowCurtain
  <2> SUFFICES ASSUME IInv, ~sh.rough PROVE ModesFollowCurtain
    BY DEF ModesFollowCurtain
  <2>1. Calm(sh) /\ Covering(sh)
    BY DEF IInv, Sound, Safe
  <2>2. Mode(sh) = "lock-screen" => sh.modes # <<"user">>
    BY <2>1, StackModes DEF Calm, Steady
  <2>3. sh.curtain \in {"showing", "shown"} => Mode(sh) = "lock-screen" /\ sh.visible
    BY <2>1, <2>2 DEF Calm, Steady
  <2>4. Mode(sh) = "lock-screen" => sh.visible /\ sh.curtain # "hidden"
    BY <2>1, <2>2 DEF Calm, Steady
  <2>5. sh.locked /\ ~sh.leaving => sh.modes # <<"user">>
    BY <2>1 DEF Calm, Covering
  <2>6. sh.modes \in Stacks
    BY <2>1 DEF Calm, Steady
  <2> QED
    BY <2>3, <2>4, <2>5, <2>6 DEF ModesFollowCurtain, Stacks
<1> QED
  BY <1>1, Soundness, PTL

\* What a shield took it gives back: gone and at rest, it holds no grab, mode, dialog
\* or lock, if no request came at a moment that is half undone by its animation.
THEOREM GoneHasLetGo == Spec => []GoneHoldsNothingIfCalm
<1>1. IInv => GoneHoldsNothingIfCalm
  <2> SUFFICES ASSUME IInv, ~sh.rough, AtRest, ~sh.visible
               PROVE  ~sh.modal /\ ~sh.dialog /\ ~sh.locked /\ sh.modes = <<"user">> /\ ~sh.active
    BY DEF GoneHoldsNothingIfCalm, GoneHoldsNothing
  <2> QED
    BY DEF IInv, Sound, Safe, Good, State, Covering, Asking, Calm, AtRest
<1> QED
  BY <1>1, Soundness, PTL
=============================================================================
