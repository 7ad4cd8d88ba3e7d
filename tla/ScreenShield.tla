----------------------------- MODULE ScreenShield -----------------------------
(***************************************************************************)
(* The screen shield of a user's session, js/ui/screenShield.js: the       *)
(* curtain of the lock screen, the unlock dialog below it, the lightboxes  *)
(* that fade the screen to black, the modal grab and the session modes     *)
(* they come with, and the timers that lock and blank.                     *)
(*                                                                         *)
(* The operators are the methods of the class, as functions of its state;  *)
(* an action is a call from the main loop: a D-Bus method or signal, the   *)
(* session manager's idle notice, an input event, a timer, the end of an   *)
(* animation.  Animations and timers end in any order.                     *)
(***************************************************************************)
EXTENDS Integers, Sequences

CONSTANTS
  Password,      \* the user's password_mode asks for a password
  Refusals,      \* pushModal() may fail
  ActivateCalls, \* D-Bus clients call SetActive(true)
  UnlockCalls,   \* logind or D-Bus clients unlock without the dialog's consent
  LockEnabled,   \* values lock-enabled has in the course of the session
  MaxBeats,      \* bound: "take a beat" timers pending at once
  MaxOrphans     \* bound: lock timers whose id was overwritten

ASSUME ShieldAssumption ==
  /\ {Password, Refusals, ActivateCalls, UnlockCalls} \subseteq BOOLEAN
  /\ LockEnabled \subseteq BOOLEAN
  /\ MaxBeats \in Nat /\ MaxOrphans \in Nat

VARIABLE sh   \* the ScreenShield object, its lightboxes, dialog and modes

Curtains == {"hidden", "showing", "shown", "hiding"}

\* The transition of _lockScreenGroup.
Motions == {"none", "fallToFade", "fall", "rise", "return"}

\* A lightbox; it is visible unless off.
Lights == {"off", "fading", "on", "refading"}

State == [curtain   : Curtains,       \* _lockScreenState
          motion    : Motions,
          dragging  : BOOLEAN,        \* the gesture on the curtain
          dialog    : BOOLEAN,        \* _dialog # null
          verified  : BOOLEAN,        \* its status is VERIFICATION_SUCCEEDED
          reading   : BOOLEAN,        \* its verifier has pending messages
          finishing : {"no", "plain", "animated"},   \* finish() waits for them
          leaving   : BOOLEAN,        \* the scale transition of deactivate()
          visible   : BOOLEAN,        \* actor.visible
          modal     : BOOLEAN,        \* _isModal
          dialogModal : BOOLEAN,      \* the dialog's _isModal
          active    : BOOLEAN,        \* _isActive
          locked    : BOOLEAN,        \* _isLocked
          modes     : Seq({"user", "unlock-dialog", "lock-screen"}),
          long      : Lights,         \* _longLightbox
          short     : Lights,         \* _shortLightbox
          watch     : BOOLEAN,        \* _becameActiveId # 0
          lockTimer : BOOLEAN,        \* _lockTimeoutId # 0
          orphans   : 0 .. MaxOrphans,
          beats     : 0 .. MaxBeats,
          promised  : BOOLEAN,        \* GDM is about to unlock the session
          enabled   : BOOLEAN,        \* lock-enabled
          rough     : BOOLEAN]        \* history: the curtain was dragged, a message delayed
                                      \* the dialog, a request came while the shield was
                                      \* leaving or a beat after it left

Grants == IF Refusals THEN BOOLEAN ELSE {TRUE}

\* The shield when a request arrives.
Asked == [sh EXCEPT !.rough = @ \/ sh.leaving]
-----------------------------------------------------------------------------
(* Session modes, lightboxes, the end of the lock screen's animation *)

Mode(s) == s.modes[Len(s.modes)]

PushMode(s, mode) == IF Mode(s) = mode THEN s ELSE [s EXCEPT !.modes = Append(@, mode)]

PopMode(s, mode) ==
  IF Mode(s) = mode THEN [s EXCEPT !.modes = SubSeq(@, 1, Len(@) - 1)] ELSE s

LightOn(light) == IF light \in {"on", "refading"} THEN "refading" ELSE "fading"

CompleteShown(s) == [s EXCEPT !.active = TRUE]

LightsOff(s) == [s EXCEPT !.long = "off", !.short = "off"]

HideComplete(s) == [PopMode(s, "lock-screen") EXCEPT !.curtain = "hidden"]

HideLockScreen(s, animate) ==
  IF s.curtain = "hidden" THEN s
  ELSE IF animate /\ s.visible THEN [s EXCEPT !.curtain = "hiding", !.motion = "rise"]
       ELSE HideComplete([s EXCEPT !.motion = "none"])
-----------------------------------------------------------------------------
(* Deactivation *)

\* Mutant of ReleaseShield: the mode of the curtain is left to its animation.
ReleaseShieldMode(s, animate) ==
  LET up == HideLockScreen(s, animate)
      unlocked == PopMode(up, "unlock-dialog")
  IN  [unlocked EXCEPT !.dialogModal = FALSE, !.modal = FALSE]

\* Mutant of ReleaseShield: with a dialog, its grab is thought to be the only one.
ReleaseShieldGrab(s, animate) ==
  LET up == HideLockScreen(s, animate)
      unlocked == PopMode(PopMode(up, "lock-screen"), "unlock-dialog")
  IN  [unlocked EXCEPT !.dialogModal = FALSE, !.modal = @ /\ s.dialog]

\* _continueDeactivate() up to the transition of the dialog group.
ReleaseShield(s, animate) ==
  LET up == HideLockScreen(s, animate)
      unlocked == PopMode(PopMode(up, "lock-screen"), "unlock-dialog")
  IN  [unlocked EXCEPT !.dialogModal = FALSE, !.modal = FALSE]

\* Destroying a dialog whose messages were waited for runs what waited.
WithoutMessages(s) ==
  LET flushed == [s EXCEPT !.reading = FALSE, !.finishing = "no"]
  IN  IF s.finishing = "no" THEN flushed
      ELSE ReleaseShield(flushed, s.finishing = "animated")

\* Mutant of CompleteDeactivate: the lightboxes stay.
CompleteDeactivateDark(s) ==
  [WithoutMessages(s) EXCEPT !.leaving = FALSE,
     !.dialog = FALSE, !.verified = FALSE, !.dialogModal = FALSE,
     !.visible = FALSE, !.watch = FALSE, !.lockTimer = FALSE,
     !.active = FALSE, !.locked = FALSE]

\* Mutant of CompleteDeactivate: _setActive(false) is missing.
CompleteDeactivateActive(s) ==
  [LightsOff(WithoutMessages(s)) EXCEPT !.leaving = FALSE,
     !.dialog = FALSE, !.verified = FALSE, !.dialogModal = FALSE,
     !.visible = FALSE, !.watch = FALSE, !.lockTimer = FALSE, !.locked = FALSE]

\* _completeDeactivate()
CompleteDeactivate(s) ==
  [LightsOff(WithoutMessages(s)) EXCEPT !.leaving = FALSE,
     !.dialog = FALSE, !.verified = FALSE, !.dialogModal = FALSE,
     !.visible = FALSE, !.watch = FALSE, !.lockTimer = FALSE,
     !.active = FALSE, !.locked = FALSE]

\* A hidden actor is not mapped, its transition ends at once.
ContinueDeactivate(s, animate) ==
  LET released == ReleaseShield(s, animate)
  IN  IF animate /\ released.visible THEN [released EXCEPT !.leaving = TRUE]
      ELSE CompleteDeactivate(released)

\* What waits for the messages runs when they are read or thrown away.
FlushMessages(s) ==
  LET flushed == [s EXCEPT !.reading = FALSE, !.finishing = "no"]
  IN  IF s.finishing = "no" THEN flushed
      ELSE ContinueDeactivate(flushed, s.finishing = "animated")

Deactivate(s, animate) ==
  IF s.dialog /\ s.reading
  THEN [s EXCEPT !.finishing = IF animate /\ @ # "plain" THEN "animated" ELSE "plain"]
  ELSE ContinueDeactivate(s, animate)

\* Destroying the dialog clears its verifier, messages included.
DestroyDialog(s) ==
  IF ~s.dialog THEN s
  ELSE [FlushMessages(s) EXCEPT !.dialog = FALSE, !.verified = FALSE, !.dialogModal = FALSE]
-----------------------------------------------------------------------------
(* Activation *)

\* Mutant of LockScreenShown: animateFade is ignored.
LockScreenShownBeat(s, fade, animateFade) ==
  LET shown == [DestroyDialog(s) EXCEPT !.curtain = "shown"]
  IN  IF fade THEN [shown EXCEPT !.beats = @ + 1] ELSE CompleteShown(shown)

\* Mutant of LockScreenShown: the dialog survives below the curtain.
LockScreenShownStale(s, fade, animateFade) ==
  LET shown == [s EXCEPT !.curtain = "shown"]
  IN  IF fade /\ animateFade THEN [shown EXCEPT !.beats = @ + 1]
      ELSE CompleteShown(IF fade THEN [shown EXCEPT !.short = "on", !.watch = TRUE]
                         ELSE shown)

LockScreenShown(s, fade, animateFade) ==
  LET shown == [DestroyDialog(s) EXCEPT !.curtain = "shown"]
  IN  IF fade /\ animateFade THEN [shown EXCEPT !.beats = @ + 1]
      ELSE CompleteShown(IF fade THEN [shown EXCEPT !.short = "on", !.watch = TRUE]
                         ELSE shown)

\* Setting the scale of the dialog group stops the transition of deactivate().
ResetLockScreen(s, animate, fade) ==
  IF s.curtain # "hidden" THEN s
  ELSE LET down == [s EXCEPT !.leaving = FALSE, !.curtain = "showing"]
           started == IF animate
                      THEN [down EXCEPT !.motion = IF fade THEN "fallToFade" ELSE "fall"]
                      ELSE LockScreenShown([down EXCEPT !.motion = "none"], fade, FALSE)
       IN  PushMode(started, "lock-screen")

Activate(s, animate) ==
  LET shown == [s EXCEPT !.visible = TRUE]
      locking == IF Mode(shown) = "user" THEN PushMode(shown, "unlock-dialog") ELSE shown
  IN  ResetLockScreen(locking, animate, TRUE)

\* _becomeModal(), with its second try, failed.
NoGrab(s, granted) == ~s.modal /\ ~granted

\* Mutant of Lock: locks whether or not the grab was granted.
LockUngrabbed(s, animate, granted) ==
  Activate([s EXCEPT !.modal = @ \/ granted, !.locked = Password], animate)

Lock(s, animate, granted) ==
  IF NoGrab(s, granted) THEN s
  ELSE Activate([s EXCEPT !.modal = TRUE, !.locked = Password], animate)
-----------------------------------------------------------------------------
(* The dialog and the curtain *)

\* dialog.cancel() tells the shield that unlocking failed unless it succeeded.
CancelPrompt(s) ==
  IF s.verified THEN s
  ELSE LET flushed == FlushMessages(s)
       IN  IF flushed.dialog THEN ResetLockScreen(flushed, TRUE, FALSE) ELSE flushed

MaybeCancelDialog(s) == IF s.dialog THEN DestroyDialog(CancelPrompt(s)) ELSE s

\* open() pushes the dialog; the shield below it has the grab already, or not.
EnsureUnlockDialog(s, granted) ==
  IF s.dialog THEN s
  ELSE IF s.modal \/ granted
       THEN [s EXCEPT !.dialog = TRUE, !.dialogModal = TRUE]
       ELSE Deactivate([s EXCEPT !.dialog = TRUE], TRUE)

LiftShield(s, granted) ==
  IF ~s.locked THEN Deactivate(s, TRUE)
  ELSE LET asked == EnsureUnlockDialog(s, granted)
       IN  IF ~s.dialog /\ NoGrab(s, granted) THEN asked
           ELSE HideLockScreen(asked, TRUE)

AtDragBegin(s, granted) ==
  LET grabbed == [s EXCEPT !.dragging = TRUE, !.motion = "none", !.curtain = "hiding"]
  IN  IF s.locked THEN EnsureUnlockDialog(grabbed, granted) ELSE grabbed

AtDragEnd(s, far, granted) ==
  LET ended == [s EXCEPT !.dragging = FALSE]
  IN  IF s.curtain # "hiding" THEN ended
      ELSE IF far THEN LiftShield(ended, granted)
           ELSE MaybeCancelDialog([ended EXCEPT !.motion = "return"])
-----------------------------------------------------------------------------
(* Idleness *)

ActivateFade(s) == [s EXCEPT !.watch = TRUE]

AtIdle(s, granted) ==
  LET cancelled == MaybeCancelDialog(s)
      shouldLock == cancelled.enabled /\ ~cancelled.locked
  IN  IF cancelled.long # "off" \/ NoGrab(cancelled, granted) THEN cancelled
      ELSE ActivateFade([cancelled EXCEPT !.modal = TRUE,
             !.long = LightOn(@),
             !.orphans = IF shouldLock /\ cancelled.lockTimer THEN @ + 1 ELSE @,
             !.lockTimer = @ \/ shouldLock])

AtUserActive(s) ==
  LET seen == [s EXCEPT !.watch = FALSE]
  IN  IF s.active \/ s.locked THEN LightsOff(seen) ELSE Deactivate(seen, FALSE)
-----------------------------------------------------------------------------
(* The calls *)

Init ==
  \E enabled \in LockEnabled :
    sh = [curtain |-> "hidden", motion |-> "none", dragging |-> FALSE,
          dialog |-> FALSE, verified |-> FALSE, reading |-> FALSE, finishing |-> "no",
          leaving |-> FALSE, visible |-> FALSE, modal |-> FALSE, dialogModal |-> FALSE,
          active |-> FALSE, locked |-> FALSE, modes |-> <<"user">>,
          long |-> "off", short |-> "off", watch |-> FALSE, lockTimer |-> FALSE,
          orphans |-> 0, beats |-> 0, promised |-> FALSE, enabled |-> enabled,
          rough |-> FALSE]

\* The lock button, D-Bus Lock, logind's Lock signal, switching the user.
LockRequest == \E animate \in BOOLEAN, granted \in Grants :
  sh' = Lock(Asked, animate, granted)

\* Suspending locks if lock-enabled is set, resuming wakes the screen up.
Suspend == \E granted \in Grants :
  sh.enabled /\ sh' = Lock(Asked, TRUE, granted)

WakeUp == sh' = AtUserActive(sh)

SetActive == ActivateCalls /\ sh' = Activate(Asked, TRUE)

\* GDM unlocks the session of a verified user; others need not ask.
Unlock ==
  /\ UnlockCalls \/ sh.promised
  /\ sh' = Deactivate([sh EXCEPT !.promised = FALSE], FALSE)

Idle == \E granted \in Grants :
  /\ sh.orphans < MaxOrphans \/ ~sh.lockTimer
  /\ sh' = AtIdle(Asked, granted)

UserActive == sh.watch /\ sh' = AtUserActive(sh)

\* A key, or seven scrolls, on the lock screen; a smartcard at any time.
Lift == \E granted \in Grants :
  /\ sh.curtain = "shown" /\ sh.visible
  /\ sh' = LiftShield(sh, granted)

SmartcardInserted == \E granted \in Grants :
  /\ sh.locked
  /\ sh' = LiftShield(sh, granted)

DragBegin == \E granted \in Grants :
  /\ ~sh.dragging
  /\ sh.visible /\ sh.curtain # "hidden"
  /\ sh.long = "off" /\ sh.short = "off"
  /\ sh' = AtDragBegin([sh EXCEPT !.rough = TRUE], granted)

DragEnd == \E far \in BOOLEAN, granted \in Grants :
  /\ sh.dragging
  /\ sh' = AtDragEnd(sh, far, granted)

\* The user answers the dialog, is told something, or gives up.
Verified ==
  /\ sh.dialog /\ sh.dialogModal /\ ~sh.verified
  /\ \E reading \in BOOLEAN :
       sh' = [sh EXCEPT !.verified = TRUE, !.promised = TRUE, !.reading = @ \/ reading,
                        !.rough = @ \/ reading]

MessageShown ==
  /\ sh.dialog /\ sh.dialogModal /\ ~sh.reading
  /\ sh' = [sh EXCEPT !.reading = TRUE, !.rough = TRUE]

MessagesRead == sh.reading /\ sh' = FlushMessages(sh)

DialogFailed ==
  /\ sh.dialog /\ sh.dialogModal /\ ~sh.verified
  /\ sh' = CancelPrompt(sh)

\* The ends of animations and timers.
CurtainDown ==
  /\ sh.motion \in {"fall", "fallToFade"}
  /\ sh.beats < MaxBeats
  /\ sh' = LockScreenShown([sh EXCEPT !.motion = "none"], sh.motion = "fallToFade", TRUE)

CurtainUp ==
  /\ sh.motion = "rise"
  /\ sh' = HideComplete([sh EXCEPT !.motion = "none"])

CurtainBack ==
  /\ sh.motion = "return"
  /\ sh' = [sh EXCEPT !.motion = "none", !.curtain = "shown"]

Beat ==
  /\ sh.beats > 0
  /\ sh' = ActivateFade([sh EXCEPT !.beats = @ - 1, !.short = LightOn(@),
                                   !.rough = @ \/ ~sh.visible])

ShortFaded ==
  /\ sh.short \in {"fading", "refading"}
  /\ sh' = CompleteShown([sh EXCEPT !.short = "on"])

LongFaded ==
  /\ sh.long \in {"fading", "refading"}
  /\ sh' = Activate([Asked EXCEPT !.long = "on"], FALSE)

DialogGroupGone == sh.leaving /\ sh' = CompleteDeactivate(sh)

LockTimeout == \E granted \in Grants :
  /\ sh.lockTimer
  /\ sh' = Lock([Asked EXCEPT !.lockTimer = FALSE], FALSE, granted)

\* A timer whose id is lost still fires, and clears the id of its successor.
OrphanTimeout == \E granted \in Grants :
  /\ sh.orphans > 0
  /\ sh' = Lock([Asked EXCEPT !.orphans = @ - 1, !.lockTimer = FALSE], FALSE, granted)

SetEnabled == \E enabled \in LockEnabled :
  sh' = [sh EXCEPT !.enabled = enabled]

Request == LockRequest \/ Suspend \/ WakeUp \/ SetActive \/ Unlock \/ Idle \/ SetEnabled

Input == UserActive \/ Lift \/ SmartcardInserted \/ DragBegin \/ DragEnd

Prompt == Verified \/ MessageShown \/ MessagesRead \/ DialogFailed

Completion == CurtainDown \/ CurtainUp \/ CurtainBack \/ Beat \/ ShortFaded \/ LongFaded
              \/ DialogGroupGone \/ LockTimeout \/ OrphanTimeout

Next == Request \/ Input \/ Prompt \/ Completion

Spec == Init /\ [][Next]_sh
-----------------------------------------------------------------------------
(* Properties *)

\* The types of the shield's fields.
TypeOK == sh \in State

\* A screen faded to black, or fading, has a watch on the user's activity that
\* will light it again: _activateFade() and _onUserBecameActive() are never
\* out of step, whatever is locked or unlocked in between.
BlackIsWatched == sh.long # "off" \/ sh.short # "off" => sh.watch

\* Until it is told to go, a locked shield covers the screen, owns the input
\* and keeps the shell out of the user's mode.
LockedCovers == sh.locked /\ ~sh.leaving => sh.visible /\ sh.modal

\* A dialog belongs to one locking: it has the keyboard from its creation on,
\* and the curtain that comes down on it takes it away, so that the next key on
\* the curtain does not meet the previous, stale dialog.
DialogIsFresh ==
  /\ sh.dialogModal => sh.dialog
  /\ sh.dialog => sh.locked /\ sh.curtain # "shown" /\ (sh.dialogModal \/ sh.leaving)

\* The session modes follow the shield: below the curtain, the mode of the
\* unlock dialog; the curtain's mode exactly as long as it is down or falling; unless
\* the shield has been handled roughly.
ModesFollowCurtain == ~sh.rough =>
  /\ sh.modes \in {<<"user">>, <<"user", "unlock-dialog">>,
                   <<"user", "unlock-dialog", "lock-screen">>}
  /\ sh.locked /\ ~sh.leaving => sh.modes # <<"user">>
  /\ sh.curtain \in {"showing", "shown"} => Mode(sh) = "lock-screen" /\ sh.visible
  /\ Mode(sh) = "lock-screen" => sh.visible /\ sh.curtain # "hidden"

\* Nothing moves, fades or is about to.
AtRest ==
  /\ sh.motion = "none" /\ ~sh.leaving /\ ~sh.dragging /\ sh.beats = 0
  /\ sh.long # "fading" /\ sh.short \notin {"fading", "refading"}

\* A shield that is gone gave everything back: the grab, the modes, the dialog,
\* the lock; and it is not active over a desktop that is not shielded.
GoneHoldsNothing ==
  AtRest /\ ~sh.visible =>
    ~sh.modal /\ ~sh.dialog /\ ~sh.locked /\ sh.modes = <<"user">> /\ ~sh.active

\* That holds but for a shield that was handled roughly: a request that arrives while
\* it leaves is half undone by the end of the animation.
GoneHoldsNothingIfCalm == ~sh.rough => GoneHoldsNothing
===============================================================================
